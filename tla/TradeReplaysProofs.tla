-------------------------- MODULE TradeReplaysProofs --------------------------
(***************************************************************************)
(* Theorems about MCTradeReplays for any candles, bars and orders: the     *)
(* three searches of ICT-MultiTF find the same shift and levels, a trade   *)
(* with partial exits and a simulated trade book what they are worth, the  *)
(* live engine and the simulation hold the same as long as their targets   *)
(* are the same, a trailing buy buys low, the stops of the freqtrade       *)
(* strategies only tighten and their entries are guarded, and runs of the  *)
(* universe backtest repeat.                                               *)
(***************************************************************************)
EXTENDS MCTradeReplays, FiniteSetTheorems, SequenceTheorems, TLAPS

----------------------------------------------------------------------------
\* The search for an entry, three times

\* Finitely many subsets have a smallest one.
LEMMA SmallestSubset ==
  ASSUME NEW S, IsFiniteSet(S), NEW F \in SUBSET SUBSET S, F # {}
  PROVE  \E A \in F : \A B \in F : B \subseteq A => B = A
<1>1. IsWellFoundedOn(StrictSubsetOrdering(S), FiniteSubsetsOf(S))
  BY FS_StrictSubsetOrderingWellFounded
<1>2. F \subseteq FiniteSubsetsOf(S)
  BY FS_Subset DEF FiniteSubsetsOf
<1>3. \E A \in F : \A B \in F : ~(<<B, A>> \in StrictSubsetOrdering(S))
  BY <1>1, <1>2, WFMin
<1> QED BY <1>3 DEF StrictSubsetOrdering

\* The numbers of a bounded set have a least and a greatest.
LEMMA LeastExists ==
  ASSUME NEW n \in Nat, NEW S \in SUBSET (1..n), S # {}
  PROVE  SC!Least(S) \in S /\ \A i \in S : SC!Least(S) =< i
<1> DEFINE F == {1..i : i \in S}
           N == 1..n
<1>1. F \in SUBSET SUBSET N /\ F # {} /\ IsFiniteSet(N)
  <2>1. \A i \in S : i \in Nat /\ 1 <= i /\ i <= n
    OBVIOUS
  <2>2. \A i \in S : 1..i \subseteq 1..n
    BY <2>1
  <2>3. IsFiniteSet(1..n)
    BY FS_Interval
  <2> QED BY <2>2, <2>3
<1>2. PICK A \in F : \A B \in F : B \subseteq A => B = A
  <2> HIDE DEF F, N
  <2> QED BY <1>1, SmallestSubset
<1>3. PICK k \in S : A = 1..k
  BY <1>2
<1>4. ASSUME NEW i \in S, i < k PROVE FALSE
  <2>1. 1..i \in F /\ 1..i \subseteq 1..k
    BY <1>4
  <2>2. 1..i = 1..k
    BY <1>2, <1>3, <2>1
  <2>3. k \in 1..k /\ k \notin 1..i
    BY <1>4
  <2> QED BY <2>2, <2>3
<1>5. \A i \in S : k =< i
  BY <1>4
<1> QED BY <1>5 DEF SC!Least

LEMMA GreatestExists ==
  ASSUME NEW n \in Nat, NEW S \in SUBSET (1..n), S # {}
  PROVE  SC!Greatest(S) \in S /\ \A i \in S : SC!Greatest(S) >= i
<1> DEFINE F == {i..n : i \in S}
           N == 1..n
<1>1. F \in SUBSET SUBSET N /\ F # {} /\ IsFiniteSet(N)
  <2>1. \A i \in S : i \in Nat /\ 1 <= i /\ i <= n
    OBVIOUS
  <2>2. \A i \in S : i..n \subseteq 1..n
    BY <2>1
  <2>3. IsFiniteSet(1..n)
    BY FS_Interval
  <2> QED BY <2>2, <2>3
<1>2. PICK A \in F : \A B \in F : B \subseteq A => B = A
  <2> HIDE DEF F, N
  <2> QED BY <1>1, SmallestSubset
<1>3. PICK k \in S : A = k..n
  BY <1>2
<1>4. ASSUME NEW i \in S, i > k PROVE FALSE
  <2>1. i..n \in F /\ i..n \subseteq k..n
    BY <1>4
  <2>2. i..n = k..n
    BY <1>2, <1>3, <2>1
  <2>3. k \in k..n /\ k \notin i..n
    BY <1>4
  <2> QED BY <2>2, <2>3
<1>5. \A i \in S : k >= i
  BY <1>4
<1> QED BY <1>5 DEF SC!Greatest

LEMMA ScanGreatestIs ==
  ASSUME NEW n \in Nat, NEW S \in SUBSET (1..n), NEW k \in S, \A i \in S : k >= i
  PROVE  SC!Greatest(S) = k
<1>1. SC!Greatest(S) \in S /\ SC!Greatest(S) >= k
  BY GreatestExists
<1> DEFINE g == SC!Greatest(S)
<1>2. g \in S /\ g >= k /\ S \subseteq Int
  BY <1>1
<1> HIDE DEF g
<1>3. k >= g /\ g \in Int /\ k \in Int
  BY <1>2
<1>4. g = k
  BY <1>2, <1>3
<1> QED BY <1>4 DEF g

ScanInv == dir \in {"bull", "bear"} /\ bars \in Seq(ScanCandles)

LEMMA ScanValues ==
  /\ MaxBars \in Nat /\ Extra \in Nat /\ ScanPrices \subseteq Nat
  /\ \A c \in ScanCandles : /\ {c.op, c.hi, c.lo, c.cl} \subseteq ScanPrices
                            /\ ~(c.lo > c.op \/ c.lo > c.cl \/ c.op > c.hi \/ c.cl > c.hi)
BY ReplayAssumption DEF SC!ScanAssumption

LEMMA ScanInit == Init => ScanInv
BY DEF Init, SC!Init, ScanInv, SC!Dir

LEMMA ScanStep == ScanInv /\ [Next]_vars => ScanInv'
<1> SUFFICES ASSUME ScanInv, [Next]_vars PROVE ScanInv'
  OBVIOUS
<1>1. CASE SC!Next
  <2>1. dir' = dir /\ (bars' = bars \/ \E c \in ScanCandles : bars' = Append(bars, c))
    BY <1>1 DEF SC!Next, SC!BarCloses, SC!TryPlaceEntries
  <2> QED BY <2>1 DEF ScanInv
<1>2. CASE UNCHANGED scan
  BY <1>2 DEF scan, ScanInv
<1> QED BY <1>1, <1>2 DEF Next, vars, scan

LEMMA ScanAlways == Spec => []ScanInv
BY ScanInit, ScanStep, PTL DEF Spec

\* The candles of the window.
LEMMA ScanWindow ==
  ASSUME ScanInv
  PROVE  SC!Window(bars) \in Seq(ScanCandles)
<1> DEFINE n == IF MaxBars + 5 < Len(bars) THEN MaxBars + 5 ELSE Len(bars)
<1>1. bars \in Seq(ScanCandles) /\ Len(bars) \in Nat /\ MaxBars \in Nat
  BY ScanValues DEF ScanInv
<1>2. n \in Nat /\ n <= Len(bars)
  BY <1>1
<1>3. SubSeq(bars, 1, n) \in Seq(ScanCandles)
  <2> HIDE DEF n
  <2>1. \A i \in 1..n : bars[i] \in ScanCandles
    BY <1>1, <1>2
  <2> QED BY <1>1, <1>2, <2>1, SubSeqProperties
<1> QED BY <1>3 DEF SC!Window, SC!Span

\* A candle does not close beyond its own best price.
LEMMA NotBeyondItself ==
  ASSUME dir \in {"bull", "bear"}, NEW s \in Seq(ScanCandles), 4 \in 1..Len(s)
  PROVE  ~SC!Beyond(dir, s, 4, 4)
<1>1. s[4] \in ScanCandles
  OBVIOUS
<1>2. ~(s[4].lo > s[4].cl) /\ ~(s[4].cl > s[4].hi) /\ {s[4].hi, s[4].lo, s[4].cl} \subseteq Nat
  BY <1>1, ScanValues
<1>3. ~(SC!Gain(dir, SC!Best(dir, s[4]), s[4].cl) > 0)
  BY <1>2 DEF SC!Gain, SC!Best
<1> QED BY <1>3 DEF SC!Beyond

\* find_mss: a shift that it gives is a bar of the window after the fifth.
LEMMA ShiftIsABar ==
  ASSUME NEW s \in Seq(ScanCandles), SC!find_mss(dir, s) # SC!NoShift
  PROVE  SC!find_mss(dir, s) \in 5..Len(s)
<1> DEFINE A == {i \in 5..Len(s) : SC!Beyond(dir, s, i, i - 1)}
<1>1. SC!find_mss(dir, s) = SC!Shift(A) /\ SC!Shift(A) # 0
  BY DEF SC!find_mss, SC!NoShift
<1>2. A \in SUBSET (1..Len(s)) /\ A \subseteq 5..Len(s)
  OBVIOUS
<1> HIDE DEF A
<1>3. A # {} /\ SC!Shift(A) = SC!Least(A)
  BY <1>1 DEF SC!Shift, SC!NoShift
<1>4. Len(s) \in Nat
  OBVIOUS
<1>5. SC!Least(A) \in A
  <2> DEFINE n == Len(s)
  <2>1. n \in Nat /\ A \in SUBSET (1..n)
    BY <1>2, <1>4
  <2> HIDE DEF n
  <2> QED BY <1>3, <2>1, LeastExists
<1> QED BY <1>1, <1>2, <1>3, <1>5

\* SameShift.
LEMMA ScanSameShift == ScanInv => SC!SameShift
<1> SUFFICES ASSUME ScanInv PROVE SC!SameShift
  OBVIOUS
<1> DEFINE s == SC!Window(bars)
           n == Len(s)
           A == {i \in 5..n : SC!Beyond(dir, s, i, i - 1)}
           B == {i \in 4..n : SC!Beyond(dir, s, i, IF i = 4 THEN 4 ELSE i - 1)}
<1>1. s \in Seq(ScanCandles) /\ n \in Nat /\ dir \in {"bull", "bear"}
  BY ScanWindow DEF ScanInv
<1>2. SC!FindMSS(dir, s) = SC!Shift(A)
  BY DEF SC!FindMSS
<1>3. SC!find_mss(dir, s) = IF n < 5 \/ SC!Shift(A) = n THEN SC!NoShift ELSE SC!Shift(A)
  BY DEF SC!find_mss
<1>4. SC!viz_mss(dir, s) = IF n < 5 THEN SC!NoShift ELSE SC!Shift(B)
  BY DEF SC!viz_mss
<1>5. n < 5 => SC!Shift(A) = SC!NoShift
  BY <1>1 DEF SC!Shift
<1>6. n >= 5 => A = B
  <2> SUFFICES ASSUME n >= 5 PROVE A = B
    OBVIOUS
  <2>1. ~SC!Beyond(dir, s, 4, 4)
    BY <1>1, NotBeyondItself
  <2>2. 4..n = {4} \cup 5..n
    BY <1>1
  <2> HIDE DEF s, n
  <2>3. \A i \in 5..n : i # 4
    BY <1>1 DEF n
  <2> QED BY <2>1, <2>2, <2>3
<1> HIDE DEF A, B
<1>7. SC!viz_mss(dir, s) = SC!FindMSS(dir, s)
  BY <1>1, <1>2, <1>4, <1>5, <1>6
<1> QED BY <1>2, <1>3, <1>5, <1>7 DEF SC!SameShift

\* The latest of the levels f has, when it lies in the half, is the latest of those in the half.
LEMMA LatestInTheHalf ==
  ASSUME NEW n \in Nat, NEW S \in SUBSET (1..n), NEW f, DOMAIN f = S, NEW type,
         NEW c, c = SC!Latest(type, f), c # SC!NoEntry, SC!PD(dir, c.level)
  PROVE  c = SC!Latest(type, [j \in {k \in S : SC!PD(dir, f[k])} |-> f[j]])
<1> DEFINE T == {k \in S : SC!PD(dir, f[k])}
           in == [j \in T |-> f[j]]
           k == SC!Greatest(S)
<1>1. DOMAIN in = T /\ T \subseteq S
  OBVIOUS
<1>2. S # {} /\ c = SC!Level(type, f[k], k)
  BY <1>1 DEF SC!Latest
<1>3. k \in S /\ \A i \in S : k >= i
  BY <1>2, GreatestExists
<1>4. c.level = f[k]
  BY <1>2, <1>3 DEF SC!Level
<1>5. k \in T /\ in[k] = f[k]
  BY <1>3, <1>4
<1>6. SC!Greatest(T) = k
  <2> HIDE DEF k, T
  <2> QED BY <1>1, <1>3, <1>5, ScanGreatestIs
<1> QED BY <1>1, <1>2, <1>5, <1>6 DEF SC!Latest

\* SameLevels.
LEMMA ScanSameLevels == ScanInv => SC!SameLevels
<1> DEFINE s == SC!Window(bars)
           m == SC!find_mss(dir, s)
<1> SUFFICES ASSUME ScanInv, m # SC!NoShift, NEW c \in SC!candidates(dir, s, m)
             PROVE  c \in {SC!FindFVG(dir, s, m), SC!FindOB(dir, s, m)}
  BY DEF SC!SameLevels
<1>1. s \in Seq(ScanCandles)
  BY ScanWindow
<1>2. m \in 5..Len(s) /\ m \in Nat
  BY <1>1, ShiftIsABar
<1> HIDE DEF s, m
<1> DEFINE Gaps == {k \in 3..m : SC!Gap(dir, s, k)}
           Blocks == {k \in 1..m - 1 : SC!Opposite(dir, s[k])}
           fvg == SC!Latest("FVG", [j \in Gaps |-> SC!Middle(dir, s, j)])
           ob == SC!Latest("OB", [j \in Blocks |-> 2 * s[j].cl])
<1>3. c \in {fvg, ob} /\ c # SC!NoEntry /\ SC!PD(dir, c.level)
  BY DEF SC!candidates
<1>4. Gaps \in SUBSET (1..m) /\ Blocks \in SUBSET (1..m)
  BY <1>2
<1>5. CASE c = fvg
  <2> DEFINE f == [j \in Gaps |-> SC!Middle(dir, s, j)]
             T == {k \in Gaps : SC!PD(dir, SC!Middle(dir, s, k))}
  <2>3. c = SC!Latest("FVG", [j \in {k \in Gaps : SC!PD(dir, f[k])} |-> f[j]])
    <3>1. DOMAIN f = Gaps /\ c = SC!Latest("FVG", f)
      BY <1>5
    <3>2. Gaps \in SUBSET (1..m) /\ m \in Nat
      BY <1>2, <1>4
    <3> HIDE DEF f, Gaps, fvg, ob
    <3> QED BY <1>3, <3>1, <3>2, LatestInTheHalf
  <2>4. {k \in Gaps : SC!PD(dir, f[k])} = T /\ [j \in T |-> f[j]] = [j \in T |-> SC!Middle(dir, s, j)]
    <3> HIDE DEF Gaps
    <3> QED OBVIOUS
  <2>1. c = SC!Latest("FVG", [j \in T |-> SC!Middle(dir, s, j)])
    BY <2>3, <2>4
  <2>2. {k \in Gaps : SC!PD(dir, SC!Middle(dir, s, k))}
          = {k \in 3..m : SC!Gap(dir, s, k) /\ SC!PD(dir, SC!Middle(dir, s, k))}
    OBVIOUS
  <2> QED BY <2>1, <2>2 DEF SC!FindFVG
<1>6. CASE c = ob
  <2> DEFINE f == [j \in Blocks |-> 2 * s[j].cl]
             T == {k \in Blocks : SC!PD(dir, 2 * s[k].cl)}
  <2>3. c = SC!Latest("OB", [j \in {k \in Blocks : SC!PD(dir, f[k])} |-> f[j]])
    <3>1. DOMAIN f = Blocks /\ c = SC!Latest("OB", f)
      BY <1>6
    <3>2. Blocks \in SUBSET (1..m) /\ m \in Nat
      BY <1>2, <1>4
    <3> HIDE DEF f, Blocks, fvg, ob
    <3> QED BY <1>3, <3>1, <3>2, LatestInTheHalf
  <2>4. {k \in Blocks : SC!PD(dir, f[k])} = T /\ [j \in T |-> f[j]] = [j \in T |-> 2 * s[j].cl]
    <3> HIDE DEF Blocks
    <3> QED OBVIOUS
  <2>1. c = SC!Latest("OB", [j \in T |-> 2 * s[j].cl])
    BY <2>3, <2>4
  <2>2. {k \in Blocks : SC!PD(dir, 2 * s[k].cl)}
          = {k \in 1..m - 1 : SC!Opposite(dir, s[k]) /\ SC!PD(dir, 2 * s[k].cl)}
    OBVIOUS
  <2> QED BY <2>1, <2>2 DEF SC!FindOB
<1> QED BY <1>3, <1>5, <1>6

----------------------------------------------------------------------------
\* simulate_trade and simulate_trade_instrumented

LEMMA PartValues ==
  /\ OneR \in Nat \ {0} /\ MaxHold \in Nat \ {0} /\ Spread \in Nat /\ Slippage \in Nat
  /\ Targets \subseteq Nat \ {0} /\ Middles \subseteq Nat /\ Moves \subseteq Int
BY ReplayAssumption DEF PT!PartialAssumption

\* The levels are in order, and the first of three is at most the risk away.
PartLevels ==
  /\ scheme \in {"A", "B", "viz"}
  /\ levels[1].at \in Nat /\ levels[2].at \in Nat
  /\ scheme = "B" => Len(levels) = 2 /\ levels[1].weight = 5 /\ levels[2].weight = 5
  /\ scheme # "B" => /\ Len(levels) = 3 /\ levels[1].at =< OneR /\ levels[1].at =< levels[2].at
                     /\ levels[3].at \in Nat /\ levels[1].at =< levels[3].at
                     /\ levels[1].weight = 5 /\ levels[2].weight = 3 /\ levels[3].weight = 2

\* What is left, booked and charged when the levels before the n-th are taken.
PartAt(n, l, worth, cost) ==
  \/ n = 1 /\ l = 10 /\ worth = 0 /\ cost = 0
  \/ n = 2 /\ l = 5 /\ worth = 5 * levels[1].at /\ cost = 5 * Spread
  \/ /\ n = 3 /\ scheme = "B" /\ l = 0
     /\ worth = 5 * levels[1].at + 5 * levels[2].at /\ cost = 10 * Spread
  \/ /\ n = 3 /\ scheme # "B" /\ l = 2
     /\ worth = 5 * levels[1].at + 3 * levels[2].at /\ cost = 8 * Spread
  \/ /\ n = 4 /\ scheme # "B" /\ l = 0
     /\ worth = 5 * levels[1].at + 3 * levels[2].at + 2 * levels[3].at /\ cost = 10 * Spread

PartStopAt(n) == CASE n = 1 -> -OneR [] n = 2 -> 0 [] OTHER -> OneR

\* An open trade.
PartOpen ==
  /\ held \in 0..MaxHold - 1
  /\ PartAt(next, pLeft, booked, charged) /\ pLeft > 0
  /\ pStop = PartStopAt(next)

PartInv ==
  /\ PartLevels
  /\ PT!TypeOK /\ PT!LevelsLockIn /\ PT!EveryPartPaysOnce
  /\ pReason = "open" => PartOpen

LEMMA PartInit == Init => PartInv
<1> SUFFICES ASSUME Init PROVE PartInv
  OBVIOUS
<1>0. PT!Init
  BY DEF Init
<1>1. PICK t \in Targets, m \in Middles : m =< t /\ levels = PT!Levels(scheme, t, m)
  BY <1>0 DEF PT!Init
<1>2. t \in Nat /\ m \in Nat /\ OneR \in Nat
  BY PartValues
<1>3. PT!Lesser(OneR, t) \in Nat /\ PT!Lesser(2 * OneR, t) \in Nat
  BY <1>2 DEF PT!Lesser
<1>4. PartLevels
  <2>1. CASE scheme = "B"
    <3>1. levels = <<[at |-> m, weight |-> 5], [at |-> t, weight |-> 5]>>
      BY <1>1, <2>1 DEF PT!Levels
    <3> QED BY <1>2, <2>1, <3>1 DEF PartLevels
  <2>2. CASE scheme \in {"A", "viz"}
    <3>1. levels = <<[at |-> PT!Lesser(OneR, t), weight |-> 5],
                     [at |-> PT!Lesser(2 * OneR, t), weight |-> 3],
                     [at |-> t, weight |-> 2]>>
      BY <1>1, <2>2 DEF PT!Levels
    <3>2. /\ PT!Lesser(OneR, t) =< OneR /\ PT!Lesser(OneR, t) =< PT!Lesser(2 * OneR, t)
          /\ PT!Lesser(OneR, t) =< t
      BY <1>2 DEF PT!Lesser
    <3> QED BY <1>2, <1>3, <2>2, <3>1, <3>2 DEF PartLevels
  <2> QED BY <1>0, <2>1, <2>2 DEF PT!Init
<1>5. PartOpen
  BY <1>0, PartValues DEF PT!Init, PartOpen, PartAt, PartStopAt
<1>6. PT!TypeOK
  BY <1>0, <1>4, PartValues DEF PT!Init, PT!TypeOK, PartLevels
<1>7. PT!LevelsLockIn /\ PT!EveryPartPaysOnce
  BY <1>0 DEF PT!Init, PT!LevelsLockIn, PT!ByRule, PT!EveryPartPaysOnce
<1> QED BY <1>4, <1>5, <1>6, <1>7 DEF PartInv

\* How many levels there are.
PartCount == IF scheme = "B" THEN 2 ELSE 3

\* A bar reaches nothing, or the levels from the next one to some level.
LEMMA PartReached ==
  ASSUME PartLevels, next \in 1..PartCount, NEW b \in PT!Bar
  PROVE  \E k \in next - 1 .. PartCount : PT!Reached(b) = next..k
<1> DEFINE T == {k \in next - 1 .. PartCount : \A j \in next..k : b.best >= levels[j].at}
<1>1. PartCount \in 2..3 /\ next \in 1..3
  BY DEF PartCount
<1>2. next - 1 \in T
  <2>1. next - 1 \in next - 1 .. PartCount /\ next..(next - 1) = {}
    BY <1>1
  <2> QED BY <2>1
<1>3. \E k \in T : \A i \in T : i =< k
  <2>1. T \subseteq 0..3
    BY <1>1
  <2> HIDE DEF T
  <2> QED BY <1>2, <2>1
<1>4. PICK k \in T : \A i \in T : i =< k
  BY <1>3
<1>5. PT!Reached(b) = {i \in next..PartCount : \A j \in next..i : b.best >= levels[j].at}
  <2>1. Len(levels) = PartCount
    BY DEF PartLevels, PartCount
  <2> QED BY <2>1 DEF PT!Reached
<1>6. PT!Reached(b) = next..k
  BY <1>1, <1>4, <1>5
<1> QED BY <1>1, <1>4, <1>6

\* The instance has a Cardinality of its own, which is the same.
LEMMA PartCardinality == \A S : PT!Cardinality(S) = Cardinality(S)
BY DEF PT!Cardinality, Cardinality

\* Going on to the levels up to k takes their weight and books their worth.
LEMMA PartTaken ==
  ASSUME PartLevels, PartOpen, NEW k \in next - 1 .. PartCount
  PROVE  /\ PartAt(k + 1, pLeft - PT!Tenths(next..k), booked + PT!Gained(next..k),
                   charged + Spread * PT!Tenths(next..k))
         /\ next + PT!Cardinality(next..k) = k + 1
         /\ PT!Tenths(next..k) \in 0..10
         /\ next \in 1..PartCount
         /\ PT!Gained(next..k) \in Nat
<1> DEFINE a1 == levels[1].at
           a2 == levels[2].at
           a3 == levels[3].at
           W(i) == PT!Weight(i, next..k)
           G(i) == PT!Worth(i, next..k)
<1>1. /\ a1 \in Nat /\ a2 \in Nat /\ (scheme # "B" => a3 \in Nat)
      /\ Spread \in Nat
      /\ levels[1].weight = 5 /\ levels[2].weight = (IF scheme = "B" THEN 5 ELSE 3)
      /\ scheme # "B" => levels[3].weight = 2
  <2>2. CASE scheme = "B"
    BY <2>2, PartValues DEF PartLevels
  <2>3. CASE scheme # "B"
    BY <2>3, PartValues DEF PartLevels
  <2> QED BY <2>2, <2>3
<1>2. /\ next \in 1..3 /\ (scheme = "B" => next \in 1..2)
      /\ k \in next - 1 .. 3 /\ (scheme = "B" => k =< 2)
  BY <1>1 DEF PartOpen, PartAt, PartCount
<1>3. /\ W(1) = (IF 1 \in next..k THEN 5 ELSE 0)
      /\ W(2) = (IF 2 \in next..k THEN IF scheme = "B" THEN 5 ELSE 3 ELSE 0)
      /\ W(3) = (IF 3 \in next..k THEN 2 ELSE 0)
  BY <1>1, <1>2 DEF PT!Weight
<1>4. /\ G(1) = (IF 1 \in next..k THEN 5 * a1 ELSE 0)
      /\ G(2) = (IF 2 \in next..k THEN IF scheme = "B" THEN 5 * a2 ELSE 3 * a2 ELSE 0)
      /\ G(3) = (IF 3 \in next..k THEN 2 * a3 ELSE 0)
  BY <1>1, <1>2 DEF PT!Worth
<1>5. /\ PT!Tenths(next..k) = W(1) + W(2) + W(3)
      /\ PT!Gained(next..k) = G(1) + G(2) + G(3)
  BY DEF PT!Tenths, PT!Gained
<1>6. next + PT!Cardinality(next..k) = k + 1
  <2>1. PT!Cardinality(next..k) = Cardinality(next..k)
    BY PartCardinality
  <2>2. next \in Int /\ k \in Int
    BY <1>2
  <2>3. Cardinality(next..k) = IF next > k THEN 0 ELSE k - next + 1
    BY <2>2, FS_Interval
  <2> DEFINE c == Cardinality(next..k)
  <2> HIDE DEF c
  <2>4. c = IF next > k THEN 0 ELSE k - next + 1
    BY <2>3 DEF c
  <2>5. next + c = k + 1
    BY <1>2, <2>4
  <2> QED BY <2>1, <2>5 DEF c
<1>7. PartAt(next, pLeft, booked, charged)
  BY DEF PartOpen
<1> HIDE DEF a1, a2, a3, W, G
<1>8. W(1) + W(2) + W(3) \in 0..10 /\ G(1) + G(2) + G(3) \in Nat
  <2>1. /\ W(1) \in {0, 5} /\ W(2) \in {0, 3, 5} /\ W(3) \in {0, 2}
        /\ W(2) = 5 => W(3) = 0
    BY <1>2, <1>3
  <2>2. W(1) + W(2) + W(3) \in 0..10
    BY <2>1
  <2>3. G(1) \in Nat /\ G(2) \in Nat
    BY <1>1, <1>4
  <2>4. G(3) \in Nat
    BY <1>1, <1>2, <1>4
  <2> QED BY <2>2, <2>3, <2>4
<1>9. PartAt(k + 1, pLeft - (W(1) + W(2) + W(3)), booked + (G(1) + G(2) + G(3)),
             charged + Spread * (W(1) + W(2) + W(3)))
  <2>1. CASE next = 1 /\ k = 0
    BY <1>1, <1>2, <1>3, <1>4, <1>7, <2>1 DEF PartAt, a1, a2, a3
  <2>2. CASE next = 1 /\ k = 1
    BY <1>1, <1>2, <1>3, <1>4, <1>7, <2>2 DEF PartAt, a1, a2, a3
  <2>3. CASE next = 1 /\ k = 2
    BY <1>1, <1>2, <1>3, <1>4, <1>7, <2>3 DEF PartAt, a1, a2, a3
  <2>4. CASE next = 1 /\ k = 3
    BY <1>1, <1>2, <1>3, <1>4, <1>7, <2>4 DEF PartAt, a1, a2, a3
  <2>5. CASE next = 2 /\ k = 1
    BY <1>1, <1>2, <1>3, <1>4, <1>7, <2>5 DEF PartAt, a1, a2, a3
  <2>6. CASE next = 2 /\ k = 2
    BY <1>1, <1>2, <1>3, <1>4, <1>7, <2>6 DEF PartAt, a1, a2, a3
  <2>7. CASE next = 2 /\ k = 3
    BY <1>1, <1>2, <1>3, <1>4, <1>7, <2>7 DEF PartAt, a1, a2, a3
  <2>8. CASE next = 3 /\ k = 2
    BY <1>1, <1>2, <1>3, <1>4, <1>7, <2>8 DEF PartAt, a1, a2, a3
  <2>9. CASE next = 3 /\ k = 3
    BY <1>1, <1>2, <1>3, <1>4, <1>7, <2>9 DEF PartAt, a1, a2, a3
  <2> QED BY <1>2, <2>1, <2>2, <2>3, <2>4, <2>5, <2>6, <2>7, <2>8, <2>9
<1> QED BY <1>1, <1>2, <1>5, <1>6, <1>8, <1>9 DEF PartCount

\* What the levels that were taken bound from below, and what they were charged.
LEMMA PartBounds ==
  ASSUME PartLevels, NEW n, NEW l, NEW worth, NEW cost, PartAt(n, l, worth, cost)
  PROVE  /\ l \in {0, 2, 5, 10} /\ worth \in Nat /\ cost = (10 - l) * Spread
         /\ n = 1 => l = 10 /\ worth = 0
         /\ n = 2 => l = 5
         /\ n = 3 /\ scheme = "B" => worth >= 5 * levels[1].at /\ l = 0
         /\ n = 3 /\ scheme # "B" => worth + 2 * OneR >= 7 * levels[1].at + 3 * levels[2].at
         /\ n = 4 => scheme # "B" /\ worth >= 7 * levels[1].at + 3 * levels[2].at
         /\ l = 0 => n = 4 \/ (n = 3 /\ scheme = "B")
         /\ n \in 1..PartCount + 1
<1> DEFINE a1 == levels[1].at
           a2 == levels[2].at
           a3 == levels[3].at
<1>1. /\ a1 \in Nat /\ a2 \in Nat /\ OneR \in Nat /\ Spread \in Nat
      /\ scheme # "B" => a1 =< OneR /\ a3 \in Nat /\ a1 =< a3
  BY PartValues DEF PartLevels
<1>2. PartAt(n, l, worth, cost)
  OBVIOUS
<1> HIDE DEF a1, a2, a3
<1> QED BY <1>1, <1>2 DEF PartAt, PartCount, a1, a2, a3

\* The same of an open trade.
LEMMA PartOpenBounds ==
  ASSUME PartLevels, PartOpen
  PROVE  /\ next \in 1..3 /\ next \in 1..PartCount /\ PartCount \in 2..3
         /\ pLeft \in {2, 5, 10} /\ booked \in Nat
         /\ charged = (10 - pLeft) * Spread /\ charged \in Nat
         /\ next = 1 => pLeft = 10 /\ booked = 0
         /\ next = 2 => pLeft = 5
         /\ next = 3 => /\ scheme # "B" /\ pLeft = 2
                        /\ booked + 2 * OneR >= 7 * levels[1].at + 3 * levels[2].at
<1>1. PartAt(next, pLeft, booked, charged) /\ pLeft > 0
  BY DEF PartOpen
<1>2. /\ next \in {1, 2} \/ (next = 3 /\ scheme # "B")
      /\ next = 3 => scheme # "B" /\ pLeft = 2
      /\ pLeft \in {2, 5, 10}
  BY <1>1 DEF PartAt
<1>3. /\ booked \in Nat /\ charged = (10 - pLeft) * Spread
      /\ next = 1 => pLeft = 10 /\ booked = 0
      /\ next = 2 => pLeft = 5
      /\ next = 3 /\ scheme # "B" => booked + 2 * OneR >= 7 * levels[1].at + 3 * levels[2].at
  BY <1>1, PartBounds
<1>4. charged \in Nat
  <2>1. Spread \in Nat
    BY PartValues
  <2>2. CASE pLeft = 2
    BY <1>3, <2>1, <2>2
  <2>3. CASE pLeft = 5
    BY <1>3, <2>1, <2>3
  <2>4. CASE pLeft = 10
    BY <1>3, <2>1, <2>4
  <2> QED BY <1>2, <2>2, <2>3, <2>4
<1> QED BY <1>2, <1>3, <1>4 DEF PartCount

\* What a bar does to an open trade: nothing is reached when a Friday or the stop ends it,
\* otherwise the levels up to k.
LEMMA PartOutcome ==
  ASSUME PartInv, NEW b \in PT!Bar, NEW friday \in BOOLEAN, NEW dataEnds \in BOOLEAN,
         PT!NextBar(b, friday, dataEnds)
  PROVE  /\ pReason = "open" /\ PartOpen /\ PartLevels /\ held' = held + 1
         /\ \E k \in next - 1 .. PartCount :
              LET T == PT!Tenths(next..k) IN
              \/ /\ PT!Finish({}, "friday_close", b.cl, PT!AtClose) /\ scheme # "viz"
              \/ PT!Finish({}, "stop", pStop, PT!AtStop)
              \/ /\ T = pLeft /\ PT!Finish(next..k, "all_targets", 0, 0)
              \/ /\ b.cl > pStop /\ PT!Finish(next..k, "max_hold", b.cl, PT!AtClose)
              \/ /\ T # pLeft /\ held + 1 # MaxHold /\ PT!GoOn(next..k)
<1>1. pReason = "open" /\ PartOpen /\ PartLevels /\ held' = held + 1
  BY DEF PT!NextBar, PT!Allowed, PartInv
<1>2. next \in 1..PartCount
  BY <1>1, PartOpenBounds
<1>3. PICK k \in next - 1 .. PartCount : PT!Reached(b) = next..k
  BY <1>1, <1>2, PartReached
<1>4. b.worst \in Int /\ b.cl \in Int /\ b.worst =< b.cl /\ pStop \in Int
  BY <1>1, PartValues DEF PT!Bar, PartOpen, PartStopAt
<1>5. CASE friday
  BY <1>1, <1>3, <1>5 DEF PT!NextBar, PT!Allowed
<1>6. CASE ~friday /\ b.worst =< pStop
  BY <1>1, <1>3, <1>6 DEF PT!NextBar
<1>7. CASE ~friday /\ ~(b.worst =< pStop)
  <2>1. b.worst > pStop /\ b.cl > pStop
    BY <1>4, <1>7
  <2>2. CASE PT!Tenths(PT!Reached(b)) = pLeft
    <3>1. PT!Finish(PT!Reached(b), "all_targets", 0, 0)
      BY <1>7, <2>1, <2>2 DEF PT!NextBar
    <3> QED BY <1>1, <1>3, <2>2, <3>1
  <2>3. CASE PT!Tenths(PT!Reached(b)) # pLeft
    <3>1. IF dataEnds \/ held + 1 = MaxHold
          THEN PT!Finish(PT!Reached(b), "max_hold", b.cl, PT!AtClose)
          ELSE PT!GoOn(PT!Reached(b))
      BY <1>7, <2>1, <2>3 DEF PT!NextBar
    <3>2. CASE dataEnds \/ held + 1 = MaxHold
      BY <1>1, <1>3, <2>1, <3>1, <3>2
    <3>3. CASE ~(dataEnds \/ held + 1 = MaxHold)
      BY <1>1, <1>3, <2>3, <3>1, <3>3
    <3> QED BY <3>2, <3>3
  <2> QED BY <2>2, <2>3
<1> QED BY <1>5, <1>6, <1>7

\* A trade that ends without a level books the rest at one price.
LEMMA PartNothing ==
  /\ PT!Tenths({}) = 0 /\ PT!Gained({}) = 0 /\ PT!Cardinality({}) = 0
BY PartCardinality, FS_EmptySet DEF PT!Tenths, PT!Gained, PT!Weight, PT!Worth

LEMMA PartEndsFriday ==
  ASSUME PartLevels, PartOpen, UNCHANGED <<scheme, levels>>, NEW c \in Int,
         PT!Finish({}, "friday_close", c, PT!AtClose), scheme # "viz"
  PROVE  /\ pLeft' = 0 /\ next' \in 1..PartCount + 1 /\ pReason' = "friday_close"
         /\ PT!LevelsLockIn' /\ PT!EveryPartPaysOnce'
<1>1. pLeft' = 0 /\ next' = next + 0 /\ pReason' = "friday_close"
  BY PartNothing DEF PT!Finish
<1>2. next \in 1..PartCount + 1 /\ PartCount \in 2..3
  BY PartOpenBounds
<1>3. next' \in 1..PartCount + 1
  BY <1>1, <1>2
<1> QED BY <1>1, <1>3 DEF PT!LevelsLockIn, PT!ByRule, PT!EveryPartPaysOnce

LEMMA PartEndsAtStop ==
  ASSUME PartLevels, PartOpen, UNCHANGED <<scheme, levels>>,
         PT!Finish({}, "stop", pStop, PT!AtStop)
  PROVE  /\ pLeft' = 0 /\ next' \in 1..PartCount + 1 /\ pReason' = "stop"
         /\ PT!LevelsLockIn' /\ PT!EveryPartPaysOnce'
<1> DEFINE a1 == levels[1].at
           a2 == levels[2].at
<1>1. /\ pLeft' = 0 /\ next' = next + 0 /\ pReason' = "stop"
      /\ booked' = booked + 0 + (pLeft - 0) * pStop
      /\ charged' = charged + Spread * 0 + (pLeft - 0) * PT!AtStop
  BY PartNothing DEF PT!Finish
<1>2. /\ next \in 1..PartCount /\ PartCount \in 2..3 /\ pLeft \in {2, 5, 10} /\ booked \in Nat
      /\ charged = (10 - pLeft) * Spread
      /\ next = 1 => pLeft = 10 /\ booked = 0
      /\ next = 2 => pLeft = 5
      /\ next = 3 => /\ scheme # "B" /\ pLeft = 2
                     /\ booked + 2 * OneR >= 7 * a1 + 3 * a2
  BY PartOpenBounds
<1>3. pStop = (IF next = 1 THEN -OneR ELSE IF next = 2 THEN 0 ELSE OneR)
  BY <1>2 DEF PartOpen, PartStopAt
<1>4. OneR \in Nat /\ Spread \in Nat /\ Slippage \in Nat /\ a1 \in Nat /\ a2 \in Nat
  BY PartValues DEF PartLevels
<1>5. PT!AtStop \in Spread..Spread + Slippage
  BY <1>4 DEF PT!AtStop
<1> DEFINE w == PT!AtStop
<1> HIDE DEF a1, a2, w
<1>6. charged' \in 10 * Spread .. 10 * (Spread + Slippage)
  <2>1. CASE pLeft = 10
    BY <1>1, <1>2, <1>4, <1>5, <2>1 DEF w
  <2>2. CASE pLeft = 5
    BY <1>1, <1>2, <1>4, <1>5, <2>2 DEF w
  <2>3. CASE pLeft = 2
    BY <1>1, <1>2, <1>4, <1>5, <2>3 DEF w
  <2> QED BY <1>2, <2>1, <2>2, <2>3
<1>7. /\ next = 1 => booked' >= -(10 * OneR)
      /\ next = 2 => booked' >= 0
      /\ next = 3 => booked' >= 7 * a1 + 3 * a2 /\ scheme # "B"
  BY <1>1, <1>2, <1>3, <1>4
<1>8. next' \in 1..PartCount + 1 /\ next' = next /\ next \in 1..3
  BY <1>1, <1>2
<1>9. PT!LevelsLockIn'
  BY <1>1, <1>7, <1>8 DEF PT!LevelsLockIn, a1, a2
<1>10. PT!EveryPartPaysOnce'
  BY <1>6 DEF PT!EveryPartPaysOnce
<1> QED BY <1>1, <1>8, <1>9, <1>10

\* ... or at the last level.
LEMMA PartEndsAtTarget ==
  ASSUME PartLevels, PartOpen, UNCHANGED <<scheme, levels>>, NEW k \in next - 1 .. PartCount,
         PT!Tenths(next..k) = pLeft, PT!Finish(next..k, "all_targets", 0, 0)
  PROVE  /\ pLeft' = 0 /\ next' \in 1..PartCount + 1 /\ pReason' = "all_targets"
         /\ PT!LevelsLockIn' /\ PT!EveryPartPaysOnce'
<1> DEFINE T == PT!Tenths(next..k)
           G == PT!Gained(next..k)
           a1 == levels[1].at
           a2 == levels[2].at
<1>1. /\ pLeft' = 0 /\ next' = k + 1 /\ pReason' = "all_targets"
      /\ booked' = booked + G + (pLeft - T) * 0
      /\ charged' = charged + Spread * T + (pLeft - T) * 0
  BY PartTaken DEF PT!Finish
<1>2. PartAt(k + 1, pLeft - T, booked + G, charged + Spread * T)
  BY PartTaken
<1>3. pLeft - T = 0 /\ T \in Int /\ pLeft \in Int
  BY PartTaken, PartBounds DEF PartOpen
<1>4. OneR \in Nat /\ Spread \in Nat /\ Slippage \in Nat /\ a1 \in Nat /\ a2 \in Nat
  BY PartValues DEF PartLevels
<1> HIDE DEF T, G
<1>5. /\ k + 1 \in {3, 4} /\ k + 1 \in 1..PartCount + 1
      /\ booked + G \in Nat /\ charged + Spread * T = 10 * Spread
      /\ k + 1 = 3 => booked + G >= 5 * a1 /\ scheme = "B"
      /\ k + 1 = 4 => booked + G >= 7 * a1 + 3 * a2 /\ scheme # "B"
  <2>1. PartAt(k + 1, 0, booked + G, charged + Spread * T)
    BY <1>2, <1>3
  <2>2. charged + Spread * T = (10 - 0) * Spread
    BY <2>1, PartBounds
  <2> QED BY <1>4, <2>1, <2>2, PartBounds
<1>6. /\ booked' = booked + G /\ charged' = charged + Spread * T
  <2>1. booked \in Int /\ G \in Int /\ charged \in Int
    BY PartTaken, PartOpenBounds DEF G
  <2> QED BY <1>1, <1>3, <1>4, <2>1
<1>7. PT!LevelsLockIn'
  BY <1>1, <1>4, <1>5, <1>6 DEF PT!LevelsLockIn
<1>8. PT!EveryPartPaysOnce'
  BY <1>1, <1>4, <1>5, <1>6 DEF PT!EveryPartPaysOnce
<1> QED BY <1>1, <1>5, <1>7, <1>8

\* ... or at the close of its last bar.
LEMMA PartEndsAtClose ==
  ASSUME PartLevels, PartOpen, UNCHANGED <<scheme, levels>>, NEW k \in next - 1 .. PartCount,
         NEW c \in Int, c > pStop, PT!Finish(next..k, "max_hold", c, PT!AtClose)
  PROVE  /\ pLeft' = 0 /\ next' \in 1..PartCount + 1 /\ pReason' = "max_hold"
         /\ PT!LevelsLockIn' /\ PT!EveryPartPaysOnce'
<1> DEFINE T == PT!Tenths(next..k)
           G == PT!Gained(next..k)
           l == pLeft - T
           worth == booked + G
           cost == charged + Spread * T
<1>1. /\ pLeft' = 0 /\ next' = k + 1 /\ pReason' = "max_hold"
      /\ booked' = worth + l * c
      /\ charged' = cost + l * PT!AtClose
  BY PartTaken DEF PT!Finish
<1>2. PartAt(k + 1, l, worth, cost)
  BY PartTaken
<1>3. OneR \in Nat /\ Spread \in Nat /\ Slippage \in Nat /\ pStop >= -OneR /\ pStop \in Int
  BY PartValues DEF PartOpen, PartStopAt
<1> HIDE DEF l, worth, cost
<1>4. /\ l \in {0, 2, 5, 10} /\ worth \in Nat /\ cost = (10 - l) * Spread
      /\ k + 1 \in 1..PartCount + 1
  BY <1>2, PartBounds
<1>5. booked' >= -(10 * OneR)
  <2>1. c >= -OneR
    BY <1>3
  <2>2. CASE l = 0
    BY <1>1, <1>3, <1>4, <2>1, <2>2
  <2>3. CASE l = 2
    BY <1>1, <1>3, <1>4, <2>1, <2>3
  <2>4. CASE l = 5
    BY <1>1, <1>3, <1>4, <2>1, <2>4
  <2>5. CASE l = 10
    BY <1>1, <1>3, <1>4, <2>1, <2>5
  <2> QED BY <1>4, <2>2, <2>3, <2>4, <2>5
<1>6. PT!LevelsLockIn'
  BY <1>1, <1>5 DEF PT!LevelsLockIn
<1>7. scheme = "viz" => charged' = 10 * Spread
  <2> SUFFICES ASSUME scheme = "viz" PROVE charged' = 10 * Spread
    OBVIOUS
  <2>1. charged' = cost + l * Spread
    BY <1>1 DEF PT!AtClose
  <2>2. CASE l = 0
    BY <1>3, <1>4, <2>1, <2>2
  <2>3. CASE l = 2
    BY <1>3, <1>4, <2>1, <2>3
  <2>4. CASE l = 5
    BY <1>3, <1>4, <2>1, <2>4
  <2>5. CASE l = 10
    BY <1>3, <1>4, <2>1, <2>5
  <2> QED BY <1>4, <2>2, <2>3, <2>4, <2>5
<1>8. PT!EveryPartPaysOnce'
  BY <1>1, <1>3, <1>7 DEF PT!EveryPartPaysOnce
<1> QED BY <1>1, <1>4, <1>6, <1>8

\* A trade that goes on.
LEMMA PartGoesOn ==
  ASSUME PartLevels, PartOpen, UNCHANGED <<scheme, levels>>, NEW k \in next - 1 .. PartCount,
         held' = held + 1, held + 1 # MaxHold, PT!Tenths(next..k) # pLeft, PT!GoOn(next..k)
  PROVE  PartOpen' /\ pLeft' \in 0..10 /\ next' \in 1..PartCount + 1
<1> DEFINE T == PT!Tenths(next..k)
           l == pLeft - T
           worth == booked + PT!Gained(next..k)
           cost == charged + Spread * T
<1>1. /\ next' = k + 1 /\ pLeft' = l /\ booked' = worth /\ charged' = cost
      /\ pStop' = (IF next..k = {} THEN pStop ELSE PT!StopAfter(next' - 1))
  BY PartTaken DEF PT!GoOn
<1>2. PartAt(k + 1, l, worth, cost)
  BY PartTaken
<1>3. T \in Int /\ pLeft \in Int /\ l # 0
  <2>1. T \in 0..10
    BY PartTaken
  <2>2. T # pLeft /\ pLeft \in {2, 5, 10}
    BY PartOpenBounds
  <2> HIDE DEF T
  <2> QED BY <2>1, <2>2
<1> HIDE DEF T, l, worth, cost
<1>4. l \in {2, 5, 10} /\ k + 1 \in 1..3 /\ k + 1 \in 1..PartCount + 1
  <2>1. /\ k + 1 \in 1..PartCount + 1 /\ l \in {0, 2, 5, 10}
    BY <1>2, PartBounds
  <2>2. k + 1 \in 1..3
    BY <1>2, <1>3 DEF PartAt
  <2> QED BY <1>3, <2>1, <2>2
<1>5. k + 1 = 3 => scheme # "B"
  BY <1>2, <1>3 DEF PartAt
<1>6. next \in 1..3
  BY PartOpenBounds
<1>7. pStop' = PartStopAt(k + 1)
  <2>1. CASE k = next - 1
    <3>1. next..k = {} /\ k + 1 = next
      BY <1>4, <1>6, <2>1
    <3> QED BY <1>1, <3>1 DEF PartOpen
  <2>2. CASE k \in next..PartCount
    <3>1. next..k # {}
      BY <1>4, <1>6, <2>2
    <3>2. k \in 1..2 /\ next' - 1 = k
      BY <1>1, <1>4, <1>6, <2>2
    <3> QED BY <1>1, <1>5, <3>1, <3>2 DEF PT!StopAfter, PartStopAt
  <2> QED BY <1>4, <1>6, <2>1, <2>2 DEF PartCount
<1>9. held' \in 0..MaxHold - 1
  BY PartValues DEF PartOpen
<1>10. PartOpen'
  BY <1>1, <1>2, <1>4, <1>7, <1>9 DEF PartOpen, PartAt, PartStopAt
<1> QED BY <1>1, <1>4, <1>10

LEMMA PartBar ==
  ASSUME PartInv, NEW b \in PT!Bar, NEW friday \in BOOLEAN, NEW dataEnds \in BOOLEAN,
         PT!NextBar(b, friday, dataEnds)
  PROVE  PartInv'
<1>1. UNCHANGED <<scheme, levels>>
  BY DEF PT!NextBar
<1>2. PartLevels'
  BY <1>1 DEF PartInv, PartLevels
<1>3. Len(levels') = PartCount /\ PartCount' = PartCount
  BY <1>1 DEF PartInv, PartLevels, PartCount
<1>4. held' \in 0..MaxHold
  BY PartOutcome, PartValues DEF PartOpen
<1>5. b.cl \in Int
  BY PartValues DEF PT!Bar
<1>6. ASSUME PartOpen', pReason' = "open", pLeft' \in 0..10, next' \in 1..PartCount + 1
      PROVE  PartInv'
  <2>1. PT!TypeOK'
    BY <1>1, <1>2, <1>3, <1>4, <1>6 DEF PT!TypeOK, PartLevels
  <2>2. PT!LevelsLockIn' /\ PT!EveryPartPaysOnce'
    BY <1>6 DEF PT!LevelsLockIn, PT!ByRule, PT!EveryPartPaysOnce
  <2> QED BY <1>2, <1>6, <2>1, <2>2 DEF PartInv
<1>7. ASSUME pLeft' = 0, next' \in 1..PartCount + 1,
             pReason' \in {"friday_close", "stop", "all_targets", "max_hold"},
             PT!LevelsLockIn', PT!EveryPartPaysOnce'
      PROVE  PartInv'
  <2>1. PT!TypeOK'
    BY <1>1, <1>2, <1>3, <1>4, <1>7 DEF PT!TypeOK, PartLevels
  <2> QED BY <1>2, <1>7, <2>1 DEF PartInv
<1>8. pReason = "open" /\ PartOpen /\ PartLevels /\ held' = held + 1
  BY PartOutcome
<1>9. PICK k \in next - 1 .. PartCount :
        \/ /\ PT!Finish({}, "friday_close", b.cl, PT!AtClose) /\ scheme # "viz"
        \/ PT!Finish({}, "stop", pStop, PT!AtStop)
        \/ /\ PT!Tenths(next..k) = pLeft /\ PT!Finish(next..k, "all_targets", 0, 0)
        \/ /\ b.cl > pStop /\ PT!Finish(next..k, "max_hold", b.cl, PT!AtClose)
        \/ /\ PT!Tenths(next..k) # pLeft /\ held + 1 # MaxHold /\ PT!GoOn(next..k)
  BY PartOutcome
<1>10. CASE PT!Finish({}, "friday_close", b.cl, PT!AtClose) /\ scheme # "viz"
  BY <1>1, <1>5, <1>7, <1>8, <1>10, PartEndsFriday
<1>11. CASE PT!Finish({}, "stop", pStop, PT!AtStop)
  BY <1>1, <1>7, <1>8, <1>11, PartEndsAtStop
<1>12. CASE PT!Tenths(next..k) = pLeft /\ PT!Finish(next..k, "all_targets", 0, 0)
  BY <1>1, <1>7, <1>8, <1>12, PartEndsAtTarget
<1>13. CASE b.cl > pStop /\ PT!Finish(next..k, "max_hold", b.cl, PT!AtClose)
  BY <1>1, <1>5, <1>7, <1>8, <1>13, PartEndsAtClose
<1>14. CASE PT!Tenths(next..k) # pLeft /\ held + 1 # MaxHold /\ PT!GoOn(next..k)
  <2>1. pReason' = "open"
    BY <1>8, <1>14 DEF PT!GoOn
  <2> QED BY <1>1, <1>6, <1>8, <1>14, <2>1, PartGoesOn
<1> QED BY <1>9, <1>10, <1>11, <1>12, <1>13, <1>14

LEMMA PartStep == PartInv /\ [Next]_vars => PartInv'
<1> SUFFICES ASSUME PartInv, [Next]_vars PROVE PartInv'
  OBVIOUS
<1>1. CASE UNCHANGED partial
  BY <1>1 DEF partial, PartInv, PartLevels, PartOpen, PartAt, PartStopAt, PT!TypeOK,
              PT!LevelsLockIn, PT!ByRule, PT!EveryPartPaysOnce
<1>2. ASSUME NEW b \in PT!Bar, NEW friday \in BOOLEAN, NEW dataEnds \in BOOLEAN,
             PT!NextBar(b, friday, dataEnds)
      PROVE  PartInv'
  BY <1>2, PartBar
<1> QED BY <1>1, <1>2 DEF Next, vars, PT!Next

LEMMA PartAlways == Spec => []PartInv
BY PartInit, PartStep, PTL DEF Spec

\* StopNeverLoosens: the stop moves when levels were taken, and each of them moves it up.
LEMMA PartTightens == Spec => PT!StopNeverLoosens
<1>1. PartInv /\ [Next]_vars => [pStop' >= pStop]_pStop
  <2> SUFFICES ASSUME PartInv, [Next]_vars, pStop' # pStop PROVE pStop' >= pStop
    OBVIOUS
  <2>1. PT!Next
    BY DEF Next, vars, partial
  <2>2. PICK b \in PT!Bar, friday \in BOOLEAN, dataEnds \in BOOLEAN :
          PT!NextBar(b, friday, dataEnds)
    BY <2>1 DEF PT!Next
  <2>3. PartOpen /\ PartLevels
    BY <2>2, PartOutcome
  <2>4. PICK k \in next - 1 .. PartCount : PT!GoOn(next..k)
    BY <2>2, PartOutcome DEF PT!Finish
  <2>5. pStop' = PT!StopAfter(next' - 1) /\ next..k # {} /\ next' = k + 1
    BY <2>3, <2>4, PartTaken DEF PT!GoOn
  <2>6. next \in 1..3 /\ PartCount \in 2..3 /\ pStop = PartStopAt(next) /\ OneR \in Nat \ {0}
    BY <2>3, PartOpenBounds, PartValues DEF PartOpen
  <2>7. k >= next
    BY <2>5, <2>6
  <2>8. pStop' \in {0, OneR, pStop} /\ (next # 1 => pStop' \in {OneR, pStop})
    BY <2>5, <2>6, <2>7 DEF PT!StopAfter
  <2> QED BY <2>6, <2>8 DEF PartStopAt
<1> QED BY <1>1, PartAlways, PTL DEF Spec, PT!StopNeverLoosens

----------------------------------------------------------------------------
\* run_replay and FillSimulator.simulate, next to the ExecutionEngine

LEMMA FillValues ==
  /\ Prices \subseteq Nat /\ Slip \in Nat /\ Trail \in Nat /\ MinGap \in Nat
  /\ \A o \in Orders :
       /\ o.side \in {"LONG", "SHORT"} /\ o.entry \in Nat /\ o.stop \in Nat
       /\ o.targets \in Seq(Nat) /\ Len(o.targets) > 0 /\ FS!Sound(o)
BY ReplayAssumption DEF FS!FillAssumption, FS!Side

\* What a trade from e gains at its i-th target.
FillGain(e, i) == FS!Reward(e, i)

\* A product of whole numbers, of which the first is positive.
LEMMA PositiveTimes ==
  ASSUME NEW u \in Int, u > 0, NEW x \in Int, NEW y \in Int
  PROVE  /\ u * x \in Int /\ u * y \in Int
         /\ x < y => u * x < u * y
         /\ x =< y => u * x =< u * y
         /\ u * (x + y) = u * x + u * y /\ u * (x - y) = u * x - u * y /\ u * (-x) = -(u * x)
         /\ u * 0 = 0
<1>1. u * x \in Int /\ u * y \in Int
  OBVIOUS
<1>2. ASSUME x < y PROVE u * x < u * y
  <2>1. u * (y - x) > 0
    BY <1>2
  <2>2. u * (y - x) = u * y - u * x
    OBVIOUS
  <2> QED BY <1>1, <2>1, <2>2
<1>3. x = y => u * x = u * y
  OBVIOUS
<1>4. ASSUME x =< y PROVE u * x =< u * y
  <2>1. x < y \/ x = y
    BY <1>4
  <2> QED BY <1>1, <1>2, <1>3, <2>1
<1>5. u * (x + y) = u * x + u * y /\ u * (x - y) = u * x - u * y /\ u * (-x) = -(u * x)
  OBVIOUS
<1> QED BY <1>1, <1>2, <1>4, <1>5

\* The parts of a price.
LEMMA FillUnit ==
  ASSUME order \in Orders
  PROVE  FS!Unit \in Int /\ FS!Unit > 0 /\ (~FS!Anchored => FS!Unit = 1)
<1>1. FS!Sound(order) /\ order.side \in {"LONG", "SHORT"} /\ order.stop \in Int /\ order.entry \in Int
  BY FillValues
<1>2. FS!Gain(order.side, order.stop, order.entry) > 0
  BY <1>1 DEF FS!Sound
<1>3. FS!Gain(order.side, order.stop, order.entry) \in Int
  BY <1>1 DEF FS!Gain
<1> QED BY <1>2, <1>3 DEF FS!Unit

LEMMA FillParts ==
  ASSUME order \in Orders, NEW x \in Int, NEW y \in Int
  PROVE  /\ FS!Parts(x) \in Int
         /\ x < y => FS!Parts(x) < FS!Parts(y)
         /\ x =< y => FS!Parts(x) =< FS!Parts(y)
         /\ FS!Parts(x + y) = FS!Parts(x) + FS!Parts(y)
         /\ FS!Parts(x - y) = FS!Parts(x) - FS!Parts(y)
         /\ FS!Parts(-x) = -FS!Parts(x) /\ FS!Parts(0) = 0
BY FillUnit, PositiveTimes DEF FS!Parts

\* A fill that is not on the stop has a risk.
LEMMA FillRisk ==
  ASSUME order \in Orders, NEW e \in Int, e # order.stop
  PROVE  /\ FS!RiskOf(e) \in Int /\ FS!RiskOf(e) > 0
         /\ FS!Gain(order.side, order.stop, e) > 0 =>
              FS!RiskOf(e) = FS!Gain(order.side, order.stop, e)
BY FillValues DEF FS!RiskOf, FS!Gain

\* The targets are ahead of the entry and the stop, one after the other.
LEMMA FillTargets ==
  ASSUME NEW o \in Orders
  PROVE  /\ o.targets[1] \in Nat /\ FS!Gain(o.side, o.stop, o.targets[1]) > 0
         /\ FS!Gain(o.side, o.entry, o.targets[1]) > 0
         /\ Len(o.targets) >= 2 => /\ o.targets[2] \in Nat
                                   /\ FS!Gain(o.side, o.targets[1], o.targets[2]) > 0
         /\ Len(o.targets) >= 3 => /\ o.targets[3] \in Nat
                                   /\ FS!Gain(o.side, o.targets[2], o.targets[3]) > 0
<1>1. /\ o.targets \in Seq(Nat) /\ Len(o.targets) \in Nat /\ Len(o.targets) > 0
      /\ DOMAIN o.targets = 1..Len(o.targets)
      /\ o.entry \in Nat /\ o.stop \in Nat /\ o.side \in {"LONG", "SHORT"}
  BY FillValues
<1>2. \A i \in 1..Len(o.targets) :
        /\ o.targets[i] \in Nat
        /\ FS!Gain(o.side, IF i = 1 THEN o.entry ELSE o.targets[i - 1], o.targets[i]) > 0
  <2>1. FS!Sound(o)
    BY FillValues
  <2>2. \A i \in DOMAIN o.targets :
          FS!Gain(o.side, IF i = 1 THEN o.entry ELSE o.targets[i - 1], o.targets[i]) > 0
    BY <2>1 DEF FS!Sound
  <2>3. \A i \in 1..Len(o.targets) : o.targets[i] \in Nat
    BY <1>1
  <2> QED BY <1>1, <2>2, <2>3
<1> DEFINE n == Len(o.targets)
<1> HIDE DEF n
<1>3. n \in Nat /\ n > 0 /\ \A i \in 1..n :
        /\ o.targets[i] \in Nat
        /\ FS!Gain(o.side, IF i = 1 THEN o.entry ELSE o.targets[i - 1], o.targets[i]) > 0
  BY <1>1, <1>2 DEF n
<1>4. o.targets[1] \in Nat /\ FS!Gain(o.side, o.entry, o.targets[1]) > 0
  BY <1>3
<1>5. FS!Gain(o.side, o.stop, o.entry) > 0
  BY FillValues DEF FS!Sound
<1>6. FS!Gain(o.side, o.stop, o.targets[1]) > 0
  BY <1>1, <1>4, <1>5 DEF FS!Gain
<1>7. n >= 2 => /\ o.targets[2] \in Nat
                /\ FS!Gain(o.side, o.targets[1], o.targets[2]) > 0
  <2>1. n >= 2 => 2 \in 1..n /\ 2 # 1 /\ 2 - 1 = 1
    BY <1>3
  <2> QED BY <1>3, <2>1
<1>8. n >= 3 => /\ o.targets[3] \in Nat
                /\ FS!Gain(o.side, o.targets[2], o.targets[3]) > 0
  <2>1. n >= 3 => 3 \in 1..n /\ 3 # 1 /\ 3 - 1 = 2
    BY <1>3
  <2> QED BY <1>3, <2>1
<1> QED BY <1>4, <1>6, <1>7, <1>8 DEF n

FillLive == [left : 0..4, hit : Nat, breakeven : BOOLEAN]

\* What is left after h targets.
Rest(h) == IF h = 0 THEN 4 ELSE IF h = 1 THEN 2 ELSE IF h = 2 THEN 1 ELSE 0

\* A trade entered at e that goes on, after h targets, with q left, v booked and the stop at s.
Going(e, h, q, v, s) ==
  \/ mode = "breakeven" /\ h = 0 /\ q = 4 /\ v = 0 /\ s = order.stop
  \/ mode = "breakeven" /\ h = 1 /\ q = 2 /\ v = 2 * FillGain(e, 1) /\ s = e
  \/ /\ mode = "breakeven" /\ h = 2 /\ q = 1 /\ v = 2 * FillGain(e, 1) + FillGain(e, 2) /\ s = e
     /\ Len(order.targets) >= 2
  \/ mode = "full_target" /\ h = 0 /\ q = 4 /\ v = 0 /\ s = order.stop
  \/ /\ mode = "atr_trail" /\ h = 0 /\ q = 4 /\ v = 0
     /\ s \in Int /\ FS!Gain(order.side, order.stop, s) >= 0

\* The targets of a trade filled at e, against the order's.
NoneNearer(e)  == aim = "structural" \/ FS!Gain(order.side, order.entry, e) >= 0
NoneFarther(e) == \/ aim = "structural"
                  \/ /\ FS!Gain(order.side, order.stop, e) > 0
                     /\ FS!Gain(order.side, order.entry, e) =< 0

\* What the engine holds, l, next to a trade from e after h targets.
Beside(e, h, l) ==
  /\ l \in FillLive /\ l.left = Rest(l.hit) /\ (l.breakeven <=> l.hit > 0)
  /\ mode = "breakeven" => /\ NoneNearer(e) => l.hit >= h
                           /\ NoneFarther(e) => h >= l.hit

Running(e) ==
  /\ order \in Orders /\ e \in Int /\ e # order.stop
  /\ Going(e, hit, left, pnl, stop) /\ Beside(e, hit, live)

FillInv ==
  /\ FS!TypeOK /\ live \in FillLive
  /\ phase = "entering" => /\ order \in Orders /\ stop = order.stop /\ left = 4 /\ hit = 0
                           /\ pnl = 0 /\ reason = "none" /\ live = FS!Fresh
  /\ phase = "open" => Running(entry) /\ reason \in {"none", "target"}
  /\ FS!LossIsBounded

LEMMA FillInit == Init => FillInv
<1> SUFFICES ASSUME Init PROVE FillInv
  OBVIOUS
<1>1. FS!Init
  BY DEF Init
<1> QED BY <1>1, FillValues
        DEF FS!Init, FS!NoTrade, FillInv, FS!TypeOK, FillLive, FS!Fresh, FS!LossIsBounded, FS!Over

\* The engine's position stays one.
LEMMA FillEngine ==
  ASSUME live \in FillLive, NEW price
  PROVE  /\ FS!OnPrice(live, price) \in FillLive
         /\ live.left = Rest(live.hit) /\ (live.breakeven <=> live.hit > 0) =>
              /\ FS!OnPrice(live, price).left = Rest(FS!OnPrice(live, price).hit)
              /\ FS!OnPrice(live, price).breakeven <=> FS!OnPrice(live, price).hit > 0
<1> DEFINE l == FS!OnPrice(live, price)
<1>1. live.left \in 0..4 /\ live.hit \in Nat
  BY DEF FillLive
<1>2. FS!Fraction(live.hit, live.left) \in 0..live.left
  BY <1>1 DEF FS!Fraction, FS!scale_fractions
<1>3. live.left - FS!Fraction(live.hit, live.left) \in 0..4 /\ live.hit + 1 \in Nat /\ live.hit + 1 > 0
  BY <1>1, <1>2
<1>4. l \in FillLive
  BY <1>3 DEF FS!OnPrice, FillLive
<1>5. \/ l = live
      \/ /\ l.left = live.left - FS!Fraction(live.hit, live.left) /\ l.hit = live.hit + 1
         /\ l.breakeven = TRUE
  BY DEF FS!OnPrice
<1> HIDE DEF l
<1>6. live.left = Rest(live.hit) /\ l.hit = live.hit + 1
        /\ l.left = live.left - FS!Fraction(live.hit, live.left) => l.left = Rest(l.hit)
  BY <1>1 DEF Rest, FS!Fraction, FS!scale_fractions
<1>7. live.left = Rest(live.hit) /\ (live.breakeven <=> live.hit > 0) =>
        l.left = Rest(l.hit) /\ (l.breakeven <=> l.hit > 0)
  BY <1>3, <1>5, <1>6
<1> QED BY <1>4, <1>7 DEF l

\* The stop of a bar.
LEMMA FillStop ==
  ASSUME NEW e, Running(e), NEW b \in FS!Bar
  PROVE  /\ FS!StopOf(b) \in Int
         /\ mode # "atr_trail" => FS!StopOf(b) = stop
         /\ mode = "breakeven" /\ hit > 0 => FS!StopOf(b) = e
         /\ ~(mode = "breakeven" /\ hit > 0) => FS!Gain(order.side, order.stop, FS!StopOf(b)) >= 0
<1>1. /\ order.side \in {"LONG", "SHORT"} /\ order.stop \in Nat /\ e \in Int /\ stop \in Int
      /\ Trail \in Nat
  BY FillValues DEF Running, Going
<1>2. b.hi \in Nat /\ b.lo \in Nat
  BY FillValues DEF FS!Bar
<1>3. CASE mode # "atr_trail"
  <2>1. FS!StopOf(b) = stop
    BY <1>3 DEF FS!StopOf
  <2>2. \/ hit = 0 /\ stop = order.stop
        \/ hit \in {1, 2} /\ stop = e /\ mode = "breakeven"
    BY <1>3 DEF Running, Going
  <2> QED BY <1>1, <1>3, <2>1, <2>2 DEF FS!Gain
<1>4. CASE mode = "atr_trail"
  <2>1. FS!Gain(order.side, order.stop, stop) >= 0
    BY <1>4 DEF Running, Going
  <2>2. FS!Along(order.side, FS!Best(order.side, b), -Trail) \in Int
    BY <1>1, <1>2 DEF FS!Along, FS!Best
  <2> DEFINE x == FS!Along(order.side, FS!Best(order.side, b), -Trail)
  <2>3. FS!StopOf(b) = IF mode = "atr_trail" /\ Trail > 0 /\ FS!Gain(order.side, stop, x) > 0
                       THEN x ELSE stop
    BY DEF FS!StopOf
  <2> HIDE DEF x
  <2>4. FS!StopOf(b) \in Int /\ FS!Gain(order.side, order.stop, FS!StopOf(b)) >= 0
    BY <1>1, <2>1, <2>2, <2>3 DEF FS!Gain, x
  <2> QED BY <1>4, <2>4
<1> QED BY <1>3, <1>4

\* What a bar that does not stop the trade leaves for its close: nothing worse than the stop.
LEMMA FillClose ==
  ASSUME NEW e, Running(e), NEW b \in FS!Bar, ~FS!HitStop(b)
  PROVE  b.cl \in Int /\ FS!Gain(order.side, FS!StopOf(b), b.cl) > 0
<1>1. /\ order.side \in {"LONG", "SHORT"} /\ FS!StopOf(b) \in Int
  BY FillValues, FillStop DEF Running, Going
<1>2. b.hi \in Nat /\ b.lo \in Nat /\ b.cl \in Nat /\ b.lo =< b.cl /\ b.cl =< b.hi
  BY FillValues DEF FS!Bar
<1> DEFINE x == FS!StopOf(b)
<1> HIDE DEF x
<1>3. ~(FS!Gain(order.side, x, FS!Worst(order.side, b)) =< 0)
  BY DEF FS!HitStop, x
<1>4. x \in Int
  BY <1>1 DEF x
<1>5. FS!Gain(order.side, x, b.cl) > 0
  BY <1>1, <1>2, <1>3, <1>4 DEF FS!Gain, FS!Worst
<1> QED BY <1>2, <1>5 DEF x

\* The gains at the order's targets, from its own entry.
LEMMA FillOwnGains ==
  ASSUME order \in Orders
  PROVE  /\ order.side \in {"LONG", "SHORT"} /\ order.stop \in Nat /\ order.entry \in Nat
         /\ Len(order.targets) \in Nat
         /\ FS!Gain(order.side, order.stop, order.entry) > 0
         /\ FS!Gain(order.side, order.entry, order.targets[1]) \in Int
         /\ FS!Gain(order.side, order.entry, order.targets[1]) > 0
         /\ Len(order.targets) >= 2 =>
              /\ FS!Gain(order.side, order.entry, order.targets[2]) \in Int
              /\ FS!Gain(order.side, order.entry, order.targets[2])
                   > FS!Gain(order.side, order.entry, order.targets[1])
         /\ Len(order.targets) >= 3 =>
              /\ FS!Gain(order.side, order.entry, order.targets[3]) \in Int
              /\ FS!Gain(order.side, order.entry, order.targets[3])
                   > FS!Gain(order.side, order.entry, order.targets[2])
<1> DEFINE m == Len(order.targets)
           t1 == order.targets[1]
           t2 == order.targets[2]
           t3 == order.targets[3]
           f == order.entry
<1>1. order.side \in {"LONG", "SHORT"} /\ order.stop \in Nat /\ f \in Nat
  BY FillValues
<1>2. /\ t1 \in Nat /\ FS!Gain(order.side, f, t1) > 0
      /\ m >= 2 => t2 \in Nat /\ FS!Gain(order.side, t1, t2) > 0
      /\ m >= 3 => t3 \in Nat /\ FS!Gain(order.side, t2, t3) > 0
      /\ m \in Nat
  BY FillTargets, FillValues
<1>3. FS!Gain(order.side, order.stop, f) > 0
  BY FillValues DEF FS!Sound
<1> HIDE DEF m, t1, t2, t3, f
<1>4. FS!Gain(order.side, f, t1) \in Int
  BY <1>1, <1>2 DEF FS!Gain
<1>5. m >= 2 => /\ FS!Gain(order.side, f, t2) \in Int
                /\ FS!Gain(order.side, f, t2) > FS!Gain(order.side, f, t1)
  BY <1>1, <1>2 DEF FS!Gain
<1>6. m >= 3 => /\ FS!Gain(order.side, f, t3) \in Int
                /\ FS!Gain(order.side, f, t3) > FS!Gain(order.side, f, t2)
  <2>1. m >= 3 => m >= 2
    BY <1>2
  <2> QED BY <1>1, <1>2, <2>1 DEF FS!Gain
<1> QED BY <1>1, <1>2, <1>3, <1>4, <1>5, <1>6 DEF m, t1, t2, t3, f

\* The numbers of a trade entered at e: the risk, and the gains at its targets.
LEMMA FillNumbers ==
  ASSUME NEW e, Running(e)
  PROVE  /\ order.side \in {"LONG", "SHORT"} /\ order.stop \in Int /\ e \in Int
         /\ FS!Gain(order.side, order.stop, e) \in Int
         /\ FillGain(e, 1) \in Int
         /\ FS!Gain(order.side, order.stop, e) > 0 =>
              FillGain(e, 1) > -FS!Parts(FS!Gain(order.side, order.stop, e))
         /\ Len(order.targets) >= 2 => FillGain(e, 2) \in Int /\ FillGain(e, 2) > FillGain(e, 1)
         /\ Len(order.targets) >= 3 => FillGain(e, 3) \in Int /\ FillGain(e, 3) > FillGain(e, 2)
<1>1. order \in Orders /\ e \in Int /\ e # order.stop
  BY DEF Running
<1> DEFINE m == Len(order.targets)
           a1 == FS!Gain(order.side, order.entry, order.targets[1])
           a2 == FS!Gain(order.side, order.entry, order.targets[2])
           a3 == FS!Gain(order.side, order.entry, order.targets[3])
           r == FS!Gain(order.side, order.stop, e)
           k == FS!RiskOf(e)
<1>2. /\ order.side \in {"LONG", "SHORT"} /\ order.stop \in Nat /\ order.entry \in Nat /\ m \in Nat
      /\ FS!Gain(order.side, order.stop, order.entry) > 0 /\ a1 \in Int /\ a1 > 0
      /\ m >= 2 => a2 \in Int /\ a2 > a1
      /\ m >= 3 => a3 \in Int /\ a3 > a2
  BY <1>1, FillOwnGains
<1>3. k \in Int /\ k > 0 /\ r \in Int
  BY <1>1, <1>2, FillRisk DEF FS!Gain
<1>4. FS!Parts(r) \in Int /\ (r > 0 => FS!Parts(r) > 0)
  <2> HIDE DEF r
  <2>1. 0 \in Int /\ r \in Int
    BY <1>3
  <2>2. FS!Parts(r) \in Int /\ FS!Parts(0) = 0 /\ (0 < r => FS!Parts(0) < FS!Parts(r))
    BY <1>1, <2>1, FillParts
  <2> QED BY <2>1, <2>2
<1>5. CASE FS!Anchored
  <2>1. FillGain(e, 1) = a1 * k /\ FillGain(e, 2) = a2 * k /\ FillGain(e, 3) = a3 * k
    BY <1>5 DEF FillGain, FS!Reward
  <2> HIDE DEF a1, a2, a3, k, r, m
  <2>2. a1 * k \in Int /\ a1 * k > 0
    BY <1>2, <1>3, PositiveTimes
  <2>3. m >= 2 => a2 * k \in Int /\ a2 * k > a1 * k
    <3>1. m >= 2 => k * a2 \in Int /\ k * a1 < k * a2
      BY <1>2, <1>3, PositiveTimes
    <3>2. m >= 2 => a2 * k = k * a2 /\ a1 * k = k * a1
      BY <1>2, <1>3
    <3> QED BY <1>2, <1>3, <3>1, <3>2
  <2>4. m >= 3 => a3 * k \in Int /\ a3 * k > a2 * k
    <3>1. m >= 3 => m >= 2
      BY <1>2
    <3>2. m >= 3 => k * a3 \in Int /\ k * a2 < k * a3
      BY <1>2, <1>3, <3>1, PositiveTimes
    <3>3. m >= 3 => a3 * k = k * a3 /\ a2 * k = k * a2
      BY <1>2, <1>3, <3>1
    <3> QED BY <1>2, <1>3, <3>2, <3>3
  <2>5. r > 0 => a1 * k > -FS!Parts(r)
    BY <1>4, <2>2
  <2> QED BY <1>1, <1>2, <1>3, <2>1, <2>2, <2>3, <2>4, <2>5 DEF r, m
<1>6. CASE ~FS!Anchored
  <2> DEFINE x == FS!Gain(order.side, order.entry, e)
  <2>1. FillGain(e, 1) = a1 - x
    <3>1. FillGain(e, 1) = FS!Gain(order.side, e, order.targets[1])
      BY <1>6 DEF FillGain, FS!Reward
    <3>2. order.targets[1] \in Nat
      BY <1>1, FillTargets
    <3> QED BY <1>1, <1>2, <3>1, <3>2 DEF FS!Gain
  <2>2. m >= 2 => FillGain(e, 2) = a2 - x
    <3>1. FillGain(e, 2) = FS!Gain(order.side, e, order.targets[2])
      BY <1>6 DEF FillGain, FS!Reward
    <3>2. m >= 2 => order.targets[2] \in Nat
      BY <1>1, FillTargets
    <3> QED BY <1>1, <1>2, <3>1, <3>2 DEF FS!Gain
  <2>3. m >= 3 => FillGain(e, 3) = a3 - x
    <3>1. FillGain(e, 3) = FS!Gain(order.side, e, order.targets[3])
      BY <1>6 DEF FillGain, FS!Reward
    <3>2. m >= 3 => order.targets[3] \in Nat
      BY <1>1, FillTargets
    <3> QED BY <1>1, <1>2, <3>1, <3>2 DEF FS!Gain
  <2>4. x \in Int /\ x < r
    BY <1>1, <1>2, <1>3 DEF FS!Gain
  <2>5. FS!Parts(r) = r
    <3>1. FS!Parts(r) = 1 * r
      BY <1>1, <1>6, FillUnit DEF FS!Parts
    <3> HIDE DEF r
    <3> QED BY <1>3, <3>1
  <2> HIDE DEF a1, a2, a3, r, m, x, k
  <2>6. m >= 3 => m >= 2
    BY <1>2
  <2>7. a1 - x \in Int /\ a1 - x > -r
    BY <1>2, <1>3, <2>4
  <2> QED BY <1>1, <1>2, <1>3, <2>1, <2>2, <2>3, <2>4, <2>5, <2>6, <2>7 DEF r, m
<1> QED BY <1>5, <1>6

\* ... so its close gains against the entry once the stop is there, and loses less than the risk
\* before.
LEMMA FillCloseGain ==
  ASSUME NEW e, Running(e), NEW b \in FS!Bar, ~FS!HitStop(b)
  PROVE  /\ FS!Parts(FS!Gain(order.side, e, b.cl)) \in Int
         /\ mode = "breakeven" /\ hit > 0 => FS!Parts(FS!Gain(order.side, e, b.cl)) > 0
         /\ ~(mode = "breakeven" /\ hit > 0) =>
              FS!Parts(FS!Gain(order.side, e, b.cl)) > -FS!Parts(FS!Gain(order.side, order.stop, e))
<1> DEFINE x == FS!StopOf(b)
           c == b.cl
           s == order.side
           p == order.stop
           safe == mode = "breakeven" /\ hit > 0
           r == FS!Gain(s, p, e)
           g == FS!Gain(s, e, c)
<1>1. /\ s \in {"LONG", "SHORT"} /\ p \in Int /\ e \in Int /\ order \in Orders
  BY FillNumbers DEF Running
<1>2. c \in Int /\ FS!Gain(s, x, c) > 0
  BY FillClose
<1>3. x \in Int /\ (safe => x = e) /\ (~safe => FS!Gain(s, p, x) >= 0)
  BY FillStop
<1> HIDE DEF x, c, s, p, safe
<1>4. g \in Int /\ r \in Int
  BY <1>1, <1>2 DEF FS!Gain
<1>5. safe => g > 0
  BY <1>2, <1>3
<1>6. FS!Gain(s, p, x) >= 0 => g > -r
  <2>1. CASE s = "LONG"
    BY <1>1, <1>2, <1>3, <2>1 DEF FS!Gain
  <2>2. CASE s = "SHORT"
    BY <1>1, <1>2, <1>3, <2>2 DEF FS!Gain
  <2> QED BY <1>1, <2>1, <2>2
<1> HIDE DEF r, g
<1>7. /\ FS!Parts(g) \in Int /\ (0 < g => FS!Parts(0) < FS!Parts(g)) /\ FS!Parts(0) = 0
      /\ -r \in Int /\ FS!Parts(-r) = -FS!Parts(r) /\ (-r < g => FS!Parts(-r) < FS!Parts(g))
  <2>1. -r \in Int /\ 0 \in Int
    BY <1>4
  <2> QED BY <1>1, <1>4, <2>1, FillParts
<1>8. (safe => FS!Parts(g) > 0) /\ (~safe => FS!Parts(g) > -FS!Parts(r))
  <2>1. FS!Parts(r) \in Int
    BY <1>1, <1>4, FillParts
  <2> QED BY <1>3, <1>4, <1>5, <1>6, <1>7, <2>1
<1> QED BY <1>7, <1>8 DEF c, s, p, safe, r, g

\* The bounds of LossIsBounded, of a trade entered at e that books v in the end.
Bounded(e, v) ==
  FS!Gain(order.side, order.stop, e) > 0 =>
    v >= -(4 * FS!Parts(FS!Gain(order.side, order.stop, e) + Slip))
Scaled(e, v) ==
  LET gain == FillGain(e, 1)
  IN  v >= 2 * gain + 2 * (IF gain < -FS!Parts(Slip) THEN gain ELSE -FS!Parts(Slip))

\* The bound in numbers.
LEMMA FillBounded ==
  ASSUME NEW e, Running(e), NEW v \in Int,
         FS!Gain(order.side, order.stop, e) > 0 =>
           v >= -(4 * (FS!Parts(FS!Gain(order.side, order.stop, e)) + FS!Parts(Slip)))
  PROVE  Bounded(e, v)
<1>1. order \in Orders /\ FS!Gain(order.side, order.stop, e) \in Int /\ Slip \in Int
  BY FillNumbers, FillValues DEF Running
<1>2. FS!Parts(FS!Gain(order.side, order.stop, e) + Slip)
        = FS!Parts(FS!Gain(order.side, order.stop, e)) + FS!Parts(Slip)
  BY <1>1, FillParts
<1> QED BY <1>2 DEF Bounded

\* The numbers a bound is about.
LEMMA FillFigures ==
  ASSUME NEW e, Running(e)
  PROVE  /\ FS!Parts(FS!Gain(order.side, order.stop, e)) \in Int
         /\ FS!Gain(order.side, order.stop, e) > 0 =>
              FS!Parts(FS!Gain(order.side, order.stop, e)) > 0
         /\ FS!Parts(Slip) \in Int /\ FS!Parts(Slip) >= 0
         /\ FillGain(e, 1) \in Int
         /\ FS!Gain(order.side, order.stop, e) > 0 =>
              FillGain(e, 1) > -FS!Parts(FS!Gain(order.side, order.stop, e))
         /\ Len(order.targets) >= 2 => FillGain(e, 2) \in Int /\ FillGain(e, 2) > FillGain(e, 1)
         /\ Len(order.targets) >= 3 => FillGain(e, 3) \in Int /\ FillGain(e, 3) > FillGain(e, 2)
         /\ Len(order.targets) \in Nat
<1>1. order \in Orders /\ FS!Gain(order.side, order.stop, e) \in Int /\ Slip \in Nat
      /\ Len(order.targets) \in Nat
  BY FillNumbers, FillValues, FillOwnGains DEF Running
<1> DEFINE r == FS!Gain(order.side, order.stop, e)
<1>2. r \in Int
  BY <1>1
<1> HIDE DEF r
<1>3. FS!Parts(r) \in Int /\ (0 < r => FS!Parts(0) < FS!Parts(r)) /\ FS!Parts(0) = 0
  <2>1. 0 \in Int
    OBVIOUS
  <2> QED BY <1>1, <1>2, <2>1, FillParts
<1>4. FS!Parts(Slip) \in Int /\ (0 =< Slip => FS!Parts(0) =< FS!Parts(Slip))
  <2>1. 0 \in Int /\ Slip \in Int
    BY <1>1
  <2> QED BY <1>1, <2>1, FillParts
<1>5. (r > 0 => FS!Parts(r) > 0) /\ FS!Parts(Slip) >= 0
  BY <1>1, <1>2, <1>3, <1>4
<1> QED BY <1>1, <1>3, <1>4, <1>5, FillNumbers DEF r

\* At the stop ...
LEMMA FillAtStop ==
  ASSUME NEW e, Running(e), NEW x \in Int,
         mode = "breakeven" /\ hit > 0 => x = e,
         ~(mode = "breakeven" /\ hit > 0) => FS!Gain(order.side, order.stop, x) >= 0
  PROVE  /\ Bounded(e, pnl + left * FS!Parts(FS!Gain(order.side, e, x) - Slip))
         /\ mode = "breakeven" /\ hit > 0 =>
              Scaled(e, pnl + left * FS!Parts(FS!Gain(order.side, e, x) - Slip))
<1> DEFINE r == FS!Parts(FS!Gain(order.side, order.stop, e))
           d == FS!Parts(FS!Gain(order.side, e, x))
           z == FS!Parts(Slip)
           out == FS!Parts(FS!Gain(order.side, e, x) - Slip)
           ahead == FS!Gain(order.side, order.stop, e) > 0
           g1 == FillGain(e, 1)
           g2 == FillGain(e, 2)
<1>1. /\ r \in Int /\ g1 \in Int /\ (ahead => g1 > -r /\ r > 0) /\ z \in Int /\ z >= 0
      /\ Len(order.targets) >= 2 => g2 \in Int /\ g2 > g1
  BY FillFigures
<1>2. /\ d \in Int /\ (FS!Gain(order.side, order.stop, x) >= 0 => d >= -r) /\ (x = e => d = 0)
      /\ out = d - z
  <2> DEFINE gx == FS!Gain(order.side, e, x)
             gr == FS!Gain(order.side, order.stop, e)
  <2>1. /\ gx \in Int /\ gr \in Int /\ Slip \in Int /\ order \in Orders
        /\ FS!Gain(order.side, order.stop, x) >= 0 => -gr =< gx
        /\ x = e => gx = 0
    BY FillNumbers, FillValues DEF FS!Gain, Running
  <2> HIDE DEF gx, gr
  <2>2. -gr \in Int
    BY <2>1
  <2>3. FS!Parts(gx) \in Int /\ FS!Parts(gx - Slip) = FS!Parts(gx) - FS!Parts(Slip) /\ FS!Parts(0) = 0
    BY <2>1, FillParts
  <2>4. FS!Parts(-gr) = -FS!Parts(gr) /\ (-gr =< gx => FS!Parts(-gr) =< FS!Parts(gx))
    BY <2>1, <2>2, FillParts
  <2>5. FS!Parts(gr) \in Int
    BY <2>1, FillParts
  <2>6. FS!Gain(order.side, order.stop, x) >= 0 => FS!Parts(gx) >= -FS!Parts(gr)
    BY <2>1, <2>3, <2>4, <2>5
  <2>7. x = e => FS!Parts(gx) = 0
    BY <2>1, <2>3
  <2> QED BY <2>3, <2>6, <2>7 DEF gx, gr
<1> HIDE DEF r, d, z, out, ahead, g1, g2
<1>3. CASE hit = 0
  <2>1. left = 4 /\ pnl = 0
    BY <1>3 DEF Running, Going
  <2>2. d >= -r
    BY <1>2, <1>3
  <2> DEFINE v == pnl + left * out
  <2>3. v = 4 * (d - z)
    BY <1>1, <1>2, <2>1
  <2> HIDE DEF v
  <2>4. v \in Int /\ (ahead => v >= -(4 * (r + z)))
    BY <1>1, <1>2, <2>2, <2>3
  <2>5. Bounded(e, v)
    BY <2>4, FillBounded DEF ahead, r, z
  <2> QED BY <1>3, <2>5 DEF v, out
<1>4. CASE hit = 1
  <2>1. left = 2 /\ pnl = 2 * g1 /\ mode = "breakeven"
    BY <1>4 DEF Running, Going, g1
  <2>2. d = 0
    BY <1>2, <1>4, <2>1
  <2> DEFINE v == pnl + left * out
  <2>3. v = 2 * g1 - 2 * z
    BY <1>1, <1>2, <2>1, <2>2
  <2> HIDE DEF v
  <2>4. v \in Int /\ (ahead => v >= -(4 * (r + z)))
    BY <1>1, <2>3
  <2>5. Bounded(e, v)
    BY <2>4, FillBounded DEF ahead, r, z
  <2>6. Scaled(e, v)
    BY <1>1, <2>3 DEF Scaled, g1, z
  <2> QED BY <2>5, <2>6 DEF v, out
<1>5. CASE hit = 2
  <2>1. left = 1 /\ pnl = 2 * g1 + g2 /\ mode = "breakeven" /\ Len(order.targets) >= 2
    BY <1>5 DEF Running, Going, g1, g2
  <2>2. d = 0
    BY <1>2, <1>5, <2>1
  <2> DEFINE v == pnl + left * out
  <2>3. v = 2 * g1 + g2 - z /\ g2 \in Int /\ g2 > g1
    BY <1>1, <1>2, <2>1, <2>2
  <2> HIDE DEF v
  <2>4. v \in Int /\ (ahead => v >= -(4 * (r + z)))
    BY <1>1, <2>3
  <2>5. Bounded(e, v)
    BY <2>4, FillBounded DEF ahead, r, z
  <2>6. Scaled(e, v)
    BY <1>1, <2>3 DEF Scaled, g1, z
  <2> QED BY <2>5, <2>6 DEF v, out
<1> QED BY <1>3, <1>4, <1>5 DEF Running, Going

\* The best price of a bar reaches the i-th target of a fill that has none nearer than the order's
\* only when it reaches the order's, and the other way round where it has none farther.
LEMMA FillReach ==
  ASSUME NEW e, Running(e), mode = "breakeven", NEW i \in 1..3, i =< Len(order.targets), NEW p \in Nat
  PROVE  /\ NoneNearer(e) /\ FS!Parts(FS!Gain(order.side, e, p)) >= FS!Reward(e, i) =>
              FS!Gain(order.side, order.targets[i], p) >= 0
         /\ NoneFarther(e) /\ FS!Gain(order.side, order.targets[i], p) >= 0 =>
              FS!Parts(FS!Gain(order.side, e, p)) >= FS!Reward(e, i)
<1> DEFINE t == order.targets[i]
           s == order.side
           f == order.entry
           u == FS!Gain(s, order.stop, f)
           a == FS!Gain(s, f, t)
           x == FS!Gain(s, f, e)
           k == FS!Gain(s, e, p)
           r == FS!Gain(s, order.stop, e)
           q == FS!RiskOf(e)
<1>1. order \in Orders /\ e \in Int /\ e # order.stop
  BY DEF Running
<1>2. /\ s \in {"LONG", "SHORT"} /\ order.stop \in Nat /\ f \in Nat /\ u > 0
  BY <1>1, FillOwnGains
<1>3. t \in Nat /\ a > 0
  <2>1. i = 1 \/ i = 2 \/ i = 3
    OBVIOUS
  <2>2. CASE i = 1
    BY <1>1, <2>2, FillTargets
  <2>3. CASE i = 2
    BY <1>1, <2>3, FillTargets, FillOwnGains
  <2>4. CASE i = 3
    <3>1. Len(order.targets) \in Nat /\ Len(order.targets) >= 3 /\ Len(order.targets) >= 2
      BY <1>1, <2>4, FillOwnGains
    <3>2. order.targets[3] \in Nat
      BY <1>1, <3>1, FillTargets
    <3>3. FS!Gain(s, f, order.targets[3]) > FS!Gain(s, f, order.targets[2])
      BY <1>1, <3>1, FillOwnGains
    <3>4. FS!Gain(s, f, order.targets[2]) > FS!Gain(s, f, order.targets[1])
      BY <1>1, <3>1, FillOwnGains
    <3>5. FS!Gain(s, f, order.targets[1]) > 0 /\ FS!Gain(s, f, order.targets[1]) \in Int
      BY <1>1, FillOwnGains
    <3>6. FS!Gain(s, f, order.targets[2]) \in Int /\ FS!Gain(s, f, order.targets[3]) \in Int
      BY <1>1, <3>1, FillOwnGains
    <3> HIDE DEF s, f
    <3>7. FS!Gain(s, f, order.targets[3]) > 0
      BY <3>3, <3>4, <3>5, <3>6
    <3> QED BY <2>4, <3>2, <3>7
  <2> QED BY <2>1, <2>2, <2>3, <2>4
<1>4. q \in Int /\ q > 0 /\ (r > 0 => q = r)
  BY <1>1, FillRisk
<1> DEFINE d == FS!Gain(s, t, p)
<1> HIDE DEF t, s, f
<1>5. /\ u \in Int /\ a \in Int /\ x \in Int /\ k \in Int /\ d \in Int
      /\ d = k + x - a /\ r = u + x
  BY <1>1, <1>2, <1>3 DEF FS!Gain
<1>6. CASE FS!Anchored
  <2>1. FS!Reward(e, i) = a * q /\ FS!Parts(k) = u * k
    BY <1>6 DEF FS!Reward, FS!Parts, FS!Unit, t, s, f
  <2>2. (NoneNearer(e) => x >= 0) /\ (NoneFarther(e) => r > 0 /\ x =< 0)
    BY <1>6 DEF FS!Anchored, NoneNearer, NoneFarther, s, f
  <2> HIDE DEF u, a, x, k, r, q, d
  <2>3. a * u \in Int /\ a * x \in Int /\ u * k \in Int /\ a * q \in Int
    BY <1>4, <1>5
  <2>4. x >= 0 \/ r > 0 => /\ (x >= 0 => r > 0)
    BY <1>2, <1>5
  <2>5. r > 0 => a * q = a * u + a * x
    <3>1. r > 0 => a * q = a * (u + x)
      BY <1>4, <1>5
    <3> QED BY <1>3, <1>5, <3>1, PositiveTimes
  <2>6. u * a = a * u
    BY <1>5
  <2>7. ASSUME x >= 0, u * k >= a * q PROVE d >= 0
    <3>1. r > 0
      BY <2>4, <2>7
    <3>2. a * x >= 0
      <4>1. 0 \in Int /\ 0 =< x
        BY <2>7
      <4>2. a * 0 =< a * x /\ a * 0 = 0
        BY <1>3, <1>5, <4>1, PositiveTimes
      <4> QED BY <4>2, <2>3
    <3>3. u * k >= u * a
      BY <2>3, <2>5, <2>6, <2>7, <3>1, <3>2
    <3>4. k < a => u * k < u * a
      BY <1>2, <1>5, PositiveTimes
    <3>5. u * a \in Int
      BY <1>5
    <3>6. k >= a
      BY <1>5, <2>3, <3>3, <3>4, <3>5
    <3> QED BY <1>5, <2>7, <3>6
  <2>8. ASSUME r > 0, x =< 0, d >= 0 PROVE u * k >= a * q
    <3>1. a - x =< k /\ a - x \in Int
      BY <1>5, <2>8
    <3>2. u * (a - x) =< u * k /\ u * (a - x) = u * a - u * x
      BY <1>2, <1>5, <3>1, PositiveTimes
    <3>3. a * x =< 0
      <4>1. 0 \in Int /\ x =< 0
        BY <2>8
      <4>2. a * x =< a * 0 /\ a * 0 = 0
        BY <1>3, <1>5, <4>1, PositiveTimes
      <4> QED BY <4>2, <2>3
    <3>4. u * x =< 0
      <4>1. 0 \in Int /\ x =< 0
        BY <2>8
      <4>2. u * x =< u * 0 /\ u * 0 = 0
        BY <1>2, <1>5, <4>1, PositiveTimes
      <4> QED BY <4>2
    <3>5. u * x \in Int /\ u * a \in Int
      BY <1>5
    <3> QED BY <2>3, <2>5, <2>6, <2>8, <3>2, <3>3, <3>4, <3>5
  <2> QED BY <2>1, <2>2, <2>7, <2>8 DEF k, d, s, t
<1>7. CASE ~FS!Anchored
  <2>1. FS!Reward(e, i) = FS!Gain(s, e, t)
    BY <1>7 DEF FS!Reward, s, t
  <2>2. FS!Gain(s, e, t) = a - x /\ FS!Parts(k) = k
    <3>1. FS!Gain(s, e, t) = a - x
      BY <1>1, <1>2, <1>3 DEF FS!Gain
    <3>2. FS!Parts(k) = 1 * k
      BY <1>1, <1>7, FillUnit DEF FS!Parts
    <3> HIDE DEF k
    <3> QED BY <1>5, <3>1, <3>2
  <2> HIDE DEF u, a, x, k, r, q, d
  <2>3. FS!Parts(k) >= FS!Reward(e, i) <=> d >= 0
    BY <1>5, <2>1, <2>2
  <2> QED BY <2>3 DEF k, d, s, t
<1> QED BY <1>6, <1>7

\* The engine stays beside a trade that goes on.
LEMMA FillBeside ==
  ASSUME NEW e, Running(e), NEW b \in FS!Bar
  PROVE  Beside(e, IF FS!HitTarget(e, b) THEN hit + 1 ELSE hit, FS!OnPrice(live, FS!Best(order.side, b)))
<1> DEFINE p == FS!Best(order.side, b)
           l == FS!OnPrice(live, p)
           h == IF FS!HitTarget(e, b) THEN hit + 1 ELSE hit
           m == Len(order.targets)
           engine == FS!Gain(order.side, order.targets[live.hit + 1], p) >= 0
           trader == FS!Parts(FS!Gain(order.side, e, p)) >= FS!Reward(e, hit + 1)
<1>1. order \in Orders /\ live \in FillLive /\ live.left = Rest(live.hit)
      /\ (live.breakeven <=> live.hit > 0)
  BY DEF Running, Beside
<1>2. l \in FillLive /\ l.left = Rest(l.hit) /\ (l.breakeven <=> l.hit > 0)
  BY <1>1, FillEngine
<1>3. ASSUME mode = "breakeven"
      PROVE  (NoneNearer(e) => l.hit >= h) /\ (NoneFarther(e) => h >= l.hit)
  <2>1. hit \in 0..2 /\ live.hit \in Nat /\ m \in Nat
    BY <1>1, <1>3, FillOwnGains DEF FillLive, Running, Going
  <2>2. p \in Nat
    BY FillValues DEF FS!Bar, FS!Best
  <2>3. /\ NoneNearer(e) => live.hit >= hit
        /\ NoneFarther(e) => hit >= live.hit
    BY <1>3 DEF Running, Beside
  <2>4. /\ live.hit < m /\ engine => l.hit = live.hit + 1
        /\ ~(live.hit < m /\ engine) => l.hit = live.hit
    BY DEF FS!OnPrice
  <2>5. FS!HitTarget(e, b) <=> hit < m /\ trader
    BY <1>3 DEF FS!HitTarget
  <2>6. live.hit = hit /\ hit < m =>
          (NoneNearer(e) /\ trader => engine) /\ (NoneFarther(e) /\ engine => trader)
    <3> SUFFICES ASSUME live.hit = hit, hit < m
                 PROVE  (NoneNearer(e) /\ trader => engine) /\ (NoneFarther(e) /\ engine => trader)
      OBVIOUS
    <3> DEFINE i == hit + 1
    <3>1. i \in 1..3 /\ i =< m
      BY <2>1
    <3>2. engine <=> FS!Gain(order.side, order.targets[i], p) >= 0
      OBVIOUS
    <3>3. trader <=> FS!Parts(FS!Gain(order.side, e, p)) >= FS!Reward(e, i)
      OBVIOUS
    <3> HIDE DEF i, p, engine, trader
    <3> QED BY <1>3, <2>2, <3>1, <3>2, <3>3, FillReach DEF m
  <2>7. h = IF hit < m /\ trader THEN hit + 1 ELSE hit
    BY <2>5
  <2> HIDE DEF p, l, h, m, engine, trader
  <2>8. ASSUME NoneNearer(e) PROVE l.hit >= h
    <3>1. CASE live.hit = hit
      BY <2>1, <2>4, <2>6, <2>7, <2>8, <3>1
    <3>2. CASE live.hit > hit
      BY <2>1, <2>4, <2>7, <3>2
    <3> QED BY <2>1, <2>3, <2>8, <3>1, <3>2
  <2>9. ASSUME NoneFarther(e) PROVE h >= l.hit
    <3>1. CASE live.hit = hit
      BY <2>1, <2>4, <2>6, <2>7, <2>9, <3>1
    <3>2. CASE live.hit < hit
      BY <2>1, <2>4, <2>7, <3>2
    <3> QED BY <2>1, <2>3, <2>9, <3>1, <3>2
  <2> QED BY <2>8, <2>9
<1> HIDE DEF l, h
<1>4. Beside(e, h, l)
  BY <1>2, <1>3 DEF Beside
<1> QED BY <1>4 DEF h, l, p

\* What one bar makes of the trade, before the rest is closed at its end: it is over within its
\* bounds, or goes on and would be within them at the bar's close.
Booked(e, b, w) ==
  /\ w.left = 0 => Bounded(e, w.pnl) /\ (mode = "breakeven" /\ w.hit > 0 => Scaled(e, w.pnl))
  /\ w.left # 0 => /\ w.left \in 1..4
                   /\ Going(e, w.hit, w.left, w.pnl, w.stop)
                   /\ Beside(e, w.hit, FS!OnPrice(live, FS!Best(order.side, b)))
                   /\ Bounded(e, w.pnl + w.left * FS!Parts(FS!Gain(order.side, e, b.cl)))
                   /\ w.reason \in {reason, "target"}

\* ... when it reaches the stop,
LEMMA FillWalkedStop ==
  ASSUME NEW e, Running(e), NEW b \in FS!Bar, FS!HitStop(b)
  PROVE  Booked(e, b, FS!Walked(e, b))
<1>1. /\ FS!Walked(e, b).left = 0 /\ FS!Walked(e, b).hit = hit
      /\ FS!Walked(e, b).pnl = pnl + left * FS!Parts(FS!Gain(order.side, e, FS!StopOf(b)) - Slip)
  BY DEF FS!Walked
<1>2. /\ Bounded(e, FS!Walked(e, b).pnl)
      /\ mode = "breakeven" /\ hit > 0 => Scaled(e, FS!Walked(e, b).pnl)
  BY <1>1, FillStop, FillAtStop
<1> QED BY <1>1, <1>2 DEF Booked

\* ... when it reaches neither stop nor target,
LEMMA FillWalkedOn ==
  ASSUME NEW e, Running(e), NEW b \in FS!Bar, ~FS!HitStop(b), ~FS!HitTarget(e, b)
  PROVE  Booked(e, b, FS!Walked(e, b))
<1> DEFINE w == FS!Walked(e, b)
           c == FS!Parts(FS!Gain(order.side, e, b.cl))
           r == FS!Parts(FS!Gain(order.side, order.stop, e))
           z == FS!Parts(Slip)
           ahead == FS!Gain(order.side, order.stop, e) > 0
           g1 == FillGain(e, 1)
           g2 == FillGain(e, 2)
<1>1. w = [stop |-> FS!StopOf(b), left |-> left, hit |-> hit, pnl |-> pnl, reason |-> reason]
  BY DEF FS!Walked
<1>2. w.stop = FS!StopOf(b) /\ w.left = left /\ w.hit = hit /\ w.pnl = pnl /\ w.reason = reason
  BY <1>1
<1>3. left \in 1..4
  BY DEF Running, Going
<1>4. /\ c \in Int /\ (mode = "breakeven" /\ hit > 0 => c > 0)
      /\ (~(mode = "breakeven" /\ hit > 0) => c > -r)
  BY FillCloseGain
<1>5. /\ r \in Int /\ g1 \in Int /\ (ahead => g1 > -r /\ r > 0) /\ z \in Int /\ z >= 0
      /\ Len(order.targets) >= 2 => g2 \in Int /\ g2 > g1
  BY FillFigures
<1>6. Beside(e, hit, FS!OnPrice(live, FS!Best(order.side, b)))
  BY FillBeside
<1>7. Going(e, hit, left, pnl, FS!StopOf(b))
  <2>1. CASE mode = "breakeven"
    BY <2>1, FillStop DEF Running, Going
  <2>2. CASE mode = "full_target"
    BY <2>2, FillStop DEF Running, Going
  <2>3. CASE mode = "atr_trail"
    BY <2>3, FillStop DEF Running, Going
  <2> QED BY <2>1, <2>2, <2>3 DEF Running, Going
<1> HIDE DEF w, c, r, z, ahead, g1, g2
<1>8. Bounded(e, pnl + left * c)
  <2> DEFINE v == pnl + left * c
  <2>1. \/ v = 4 * c /\ c > -r
        \/ v = 2 * g1 + 2 * c /\ c > 0
        \/ v = 2 * g1 + g2 + c /\ c > 0 /\ g2 \in Int /\ g2 > g1
    BY <1>4, <1>5 DEF Running, Going, g1, g2
  <2> HIDE DEF v
  <2>2. v \in Int /\ (ahead => v >= -(4 * (r + z)))
    BY <2>1, <1>4, <1>5
  <2> QED BY <2>2, FillBounded DEF ahead, r, z, v
<1> QED BY <1>2, <1>3, <1>6, <1>7, <1>8 DEF Booked, w, c

\* ... and when it reaches a target.
LEMMA FillWalkedTarget ==
  ASSUME NEW e, Running(e), NEW b \in FS!Bar, ~FS!HitStop(b), FS!HitTarget(e, b)
  PROVE  Booked(e, b, FS!Walked(e, b))
<1> DEFINE w == FS!Walked(e, b)
           q == IF mode = "full_target" THEN left ELSE FS!Fraction(hit, left)
           c == FS!Parts(FS!Gain(order.side, e, b.cl))
           r == FS!Parts(FS!Gain(order.side, order.stop, e))
           z == FS!Parts(Slip)
           ahead == FS!Gain(order.side, order.stop, e) > 0
           g1 == FillGain(e, 1)
           g2 == FillGain(e, 2)
           g3 == FillGain(e, 3)
           l == FS!OnPrice(live, FS!Best(order.side, b))
           m == Len(order.targets)
<1>1. w = [stop |-> IF mode = "breakeven" /\ hit = 0 THEN e ELSE stop,
           left |-> left - q, hit |-> hit + 1, reason |-> "target",
           pnl |-> pnl + q * FS!Reward(e, hit + 1)]
  BY DEF FS!Walked
<1>2. /\ w.stop = (IF mode = "breakeven" /\ hit = 0 THEN e ELSE stop)
      /\ w.left = left - q /\ w.hit = hit + 1 /\ w.reason = "target"
      /\ w.pnl = pnl + q * FillGain(e, hit + 1)
  BY <1>1 DEF FillGain
<1>3. mode # "atr_trail" /\ hit < m
  BY DEF FS!HitTarget
<1>4. /\ c \in Int /\ (mode = "breakeven" /\ hit > 0 => c > 0)
      /\ (~(mode = "breakeven" /\ hit > 0) => c > -r)
  BY FillCloseGain
<1>5. /\ r \in Int /\ g1 \in Int /\ (ahead => g1 > -r /\ r > 0) /\ z \in Int /\ z >= 0
      /\ m >= 2 => g2 \in Int /\ g2 > g1
      /\ m >= 3 => g3 \in Int /\ g3 > g2
      /\ m \in Nat
  BY FillFigures
<1>6. Beside(e, hit + 1, l)
  BY FillBeside
<1>7. /\ FS!Fraction(0, 4) = 2 /\ FS!Fraction(1, 2) = 1 /\ FS!Fraction(2, 1) = 1
  BY DEF FS!Fraction, FS!scale_fractions
<1> HIDE DEF w, c, r, z, ahead, l, m
<1>8. CASE mode = "full_target"
  <2>1. hit = 0 /\ left = 4 /\ pnl = 0 /\ q = 4
    BY <1>8 DEF Running, Going
  <2>2. w.left = 0 /\ w.pnl = 4 * g1
    BY <1>2, <1>5, <2>1
  <2> HIDE DEF g1
  <2>3. w.pnl \in Int /\ (ahead => w.pnl >= -(4 * (r + z)))
    BY <1>5, <2>2
  <2>4. Bounded(e, w.pnl)
    BY <2>3, FillBounded DEF ahead, r, z
  <2> QED BY <1>8, <2>2, <2>4 DEF Booked, w
<1>9. CASE mode = "breakeven" /\ hit = 0
  <2>1. left = 4 /\ pnl = 0 /\ q = 2
    BY <1>7, <1>9 DEF Running, Going
  <2>2. w.left = 2 /\ w.hit = 1 /\ w.pnl = 2 * g1 /\ w.stop = e
    BY <1>2, <1>5, <1>9, <2>1
  <2>3. Beside(e, w.hit, l)
    BY <1>6, <1>9, <2>2
  <2>4. Going(e, w.hit, w.left, w.pnl, w.stop)
    BY <1>9, <2>2 DEF Going
  <2> HIDE DEF g1
  <2> DEFINE v == w.pnl + w.left * c
  <2>5. v = 2 * g1 + 2 * c
    BY <1>4, <1>5, <2>2
  <2> HIDE DEF v
  <2>6. v \in Int /\ (ahead => v >= -(4 * (r + z)))
    BY <1>4, <1>5, <1>9, <2>5
  <2>7. Bounded(e, v)
    BY <2>6, FillBounded DEF ahead, r, z
  <2> QED BY <1>2, <2>2, <2>3, <2>4, <2>7 DEF Booked, w, c, l, v
<1>10. CASE mode = "breakeven" /\ hit = 1
  <2>1. left = 2 /\ pnl = 2 * g1 /\ q = 1 /\ stop = e /\ m >= 2
    BY <1>3, <1>5, <1>7, <1>10 DEF Running, Going
  <2>2. w.left = 1 /\ w.hit = 2 /\ w.pnl = 2 * g1 + g2 /\ w.stop = e
    BY <1>2, <1>5, <1>10, <2>1
  <2>3. Beside(e, w.hit, l)
    BY <1>6, <1>10, <2>2
  <2>4. Going(e, w.hit, w.left, w.pnl, w.stop)
    BY <1>10, <2>1, <2>2 DEF Going, m
  <2> HIDE DEF g1, g2
  <2> DEFINE v == w.pnl + w.left * c
  <2>5. v = 2 * g1 + g2 + c
    BY <1>4, <1>5, <2>1, <2>2
  <2> HIDE DEF v
  <2>6. v \in Int /\ (ahead => v >= -(4 * (r + z)))
    BY <1>4, <1>5, <1>10, <2>1, <2>5
  <2>7. Bounded(e, v)
    BY <2>6, FillBounded DEF ahead, r, z
  <2> QED BY <1>2, <2>2, <2>3, <2>4, <2>7 DEF Booked, w, c, l, v
<1>11. CASE mode = "breakeven" /\ hit = 2
  <2>1. left = 1 /\ pnl = 2 * g1 + g2 /\ q = 1 /\ m >= 3
    BY <1>3, <1>5, <1>7, <1>11 DEF Running, Going
  <2>2. w.left = 0 /\ w.pnl = 2 * g1 + g2 + g3
    BY <1>2, <1>5, <1>11, <2>1
  <2> HIDE DEF g1, g2, g3
  <2>3. g2 \in Int /\ g2 > g1 /\ g3 \in Int /\ g3 > g2
    BY <1>5, <2>1
  <2>4. w.pnl \in Int /\ (ahead => w.pnl >= -(4 * (r + z)))
    BY <1>5, <2>2, <2>3
  <2>5. Bounded(e, w.pnl)
    BY <2>4, FillBounded DEF ahead, r, z
  <2>6. Scaled(e, w.pnl)
    BY <1>5, <2>2, <2>3 DEF Scaled, g1, z
  <2> QED BY <2>2, <2>5, <2>6 DEF Booked, w
<1> QED BY <1>3, <1>8, <1>9, <1>10, <1>11 DEF Running, Going

LEMMA FillWalked ==
  ASSUME NEW e, Running(e), NEW b \in FS!Bar
  PROVE  Booked(e, b, FS!Walked(e, b))
BY FillWalkedStop, FillWalkedOn, FillWalkedTarget

\* What the targets and the parts are worth does not change while the order and the modes stay.
LEMMA FillSame ==
  ASSUME order' = order, mode' = mode, aim' = aim
  PROVE  /\ \A x : FS!Parts(x)' = FS!Parts(x)
         /\ \A x, i : FS!Reward(x, i)' = FS!Reward(x, i)
BY DEF FS!Parts, FS!Unit, FS!Reward, FS!RiskOf, FS!Anchored

\* A bar of a trade keeps the invariant.
LEMMA FillWalk ==
  ASSUME FillInv, NEW e, Running(e), reason \in {"none", "target"}, NEW b \in FS!Bar,
         NEW due \in BOOLEAN, FS!Walk(e, b, due), since' \in 0..MinGap
  PROVE  FillInv'
<1> DEFINE w == FS!Walked(e, b)
<1>1. Booked(e, b, w)
  BY FillWalked
<1>2. /\ entry' = e /\ stop' = w.stop /\ hit' = w.hit
      /\ left' = (IF due THEN 0 ELSE w.left)
      /\ pnl' = (IF due /\ w.left > 0 THEN w.pnl + w.left * FS!Parts(FS!Gain(order.side, e, b.cl)) ELSE w.pnl)
      /\ reason' = (IF due /\ w.left > 0 THEN "session_close" ELSE w.reason)
      /\ phase' = (IF left' = 0 THEN "busy" ELSE "open")
      /\ live' = FS!OnPrice(live, FS!Best(order.side, b))
      /\ UNCHANGED <<mode, aim, order>>
  BY DEF FS!Walk
<1> HIDE DEF w
<1>3. live' \in FillLive
  BY <1>2, FillEngine DEF FillInv
<1>4. live'.left \in 0..4
  BY <1>3 DEF FillLive
<1>5. order' = order /\ mode' = mode /\ aim' = aim
  BY <1>2
<1>6. w.left = 0 \/ w.left \in 1..4
  BY <1>1 DEF Booked
<1>7. left' \in 0..4 /\ (phase' = "open" <=> ~due /\ w.left # 0) /\ phase' \in {"open", "busy"}
  BY <1>2, <1>6
<1>8. FS!TypeOK'
  <2>1. /\ mode \in {"breakeven", "full_target", "atr_trail"} /\ order \in Orders \cup {FS!NoOrder}
        /\ aim \in {"structural", "r_multiple"}
    BY DEF FillInv, FS!TypeOK
  <2> QED BY <1>4, <1>5, <1>7, <2>1 DEF FS!TypeOK, FS!NoOrder
<1>9. (phase = "open" => Running(entry) /\ reason \in {"none", "target"})'
  <2> SUFFICES ASSUME phase' = "open" PROVE Running(entry)' /\ reason' \in {"none", "target"}
    OBVIOUS
  <2>1. ~due /\ w.left # 0
    BY <1>7
  <2>2. left' = w.left /\ pnl' = w.pnl /\ reason' = w.reason
    BY <1>2, <2>1
  <2>3. /\ Going(e, w.hit, w.left, w.pnl, w.stop) /\ Beside(e, w.hit, live')
        /\ w.reason \in {"none", "target"}
    BY <1>1, <1>2, <2>1 DEF Booked
  <2>4. Going(entry, hit, left, pnl, stop)'
    BY <1>2, <1>5, <2>2, <2>3, FillSame DEF Going, FillGain
  <2>5. Beside(entry, hit, live)'
    BY <1>2, <1>5, <2>3 DEF Beside, NoneNearer, NoneFarther
  <2> QED BY <1>2, <1>5, <2>2, <2>3, <2>4, <2>5 DEF Running
<1>10. FS!LossIsBounded'
  <2> SUFFICES ASSUME reason' # "none", left' = 0, FS!Gain(order.side, order.stop, e) > 0
               PROVE  /\ Bounded(e, pnl')
                      /\ mode = "breakeven" /\ hit' > 0 /\ reason' \in {"target", "breakeven_stop"}
                           => Scaled(e, pnl')
    BY <1>2, <1>5, FillSame DEF FS!LossIsBounded, FS!Over, FS!Orderly, Bounded, Scaled, FillGain
  <2>1. CASE w.left = 0
    <3>1. pnl' = w.pnl
      BY <1>2, <2>1
    <3> QED BY <1>1, <1>2, <2>1, <3>1 DEF Booked
  <2>2. CASE w.left # 0
    <3>1. due
      BY <1>2, <2>2
    <3>2. pnl' = w.pnl + w.left * FS!Parts(FS!Gain(order.side, e, b.cl)) /\ reason' = "session_close"
      BY <1>2, <1>6, <2>2, <3>1
    <3> QED BY <1>1, <2>2, <3>2 DEF Booked
  <2> QED BY <2>1, <2>2
<1> QED BY <1>3, <1>7, <1>8, <1>9, <1>10 DEF FillInv

LEMMA FillSignal ==
  ASSUME FillInv, NEW o \in Orders, FS!Signal(o)
  PROVE  FillInv'
<1>1. /\ phase' = "entering" /\ order' = o /\ live' = FS!Fresh /\ stop' = o.stop /\ left' = 4
      /\ hit' = 0 /\ pnl' = 0 /\ reason' = "none" /\ mode' = mode /\ aim' = aim /\ since' = since
  BY DEF FS!Signal
<1>2. FS!TypeOK' /\ live' \in FillLive
  BY <1>1 DEF FillInv, FS!TypeOK, FS!Fresh, FillLive
<1>3. FS!LossIsBounded'
  BY <1>1 DEF FS!LossIsBounded, FS!Over
<1> QED BY <1>1, <1>2, <1>3 DEF FillInv

LEMMA FillIdle ==
  ASSUME FillInv, NEW final \in BOOLEAN, FS!IdleBar(final)
  PROVE  FillInv'
<1>1. /\ phase' \in {"asking", "busy"} /\ since' \in 0..MinGap
      /\ UNCHANGED <<mode, aim, order, entry, stop, left, hit, pnl, reason, live>>
  BY FillValues DEF FillInv, FS!TypeOK, FS!IdleBar, FS!Longer, FS!trade
<1>2. FS!TypeOK' /\ live' \in FillLive
  BY <1>1 DEF FillInv, FS!TypeOK, FS!NoOrder
<1>3. FS!LossIsBounded'
  BY <1>1, FillSame DEF FillInv, FS!LossIsBounded, FS!Over, FS!Orderly
<1> QED BY <1>1, <1>2, <1>3 DEF FillInv

LEMMA FillEnter ==
  ASSUME FillInv, NEW b \in FS!Bar, NEW due \in BOOLEAN, NEW final \in BOOLEAN,
         FS!EnterBar(b, due, final)
  PROVE  FillInv'
<1> DEFINE e == FS!FillAt(b)
<1>1. /\ order \in Orders /\ stop = order.stop /\ left = 4 /\ hit = 0
      /\ pnl = 0 /\ reason = "none" /\ live = FS!Fresh
  BY DEF FillInv, FS!EnterBar
<1>2. e \in Int /\ order.stop \in Int /\ order.side \in {"LONG", "SHORT"} /\ MinGap \in Nat
  <2>1. b.op \in Nat
    BY FillValues DEF FS!Bar
  <2>2. order.stop \in Int /\ order.side \in {"LONG", "SHORT"} /\ MinGap \in Nat /\ Slip \in Nat
    BY <1>1, FillValues
  <2> QED BY <2>1, <2>2 DEF FS!FillAt, FS!Along
<1>3. CASE e = order.stop
  <2>1. /\ phase' \in {"asking", "busy"} /\ since' \in 0..MinGap
        /\ UNCHANGED <<mode, aim, order, entry, stop, left, hit, pnl, reason, live>>
    BY <1>2, <1>3 DEF FillInv, FS!TypeOK, FS!EnterBar, FS!trade
  <2>2. FS!TypeOK' /\ live' \in FillLive
    BY <2>1 DEF FillInv, FS!TypeOK, FS!NoOrder
  <2>3. FS!LossIsBounded'
    BY <2>1, FillSame DEF FillInv, FS!LossIsBounded, FS!Over, FS!Orderly
  <2> QED BY <2>1, <2>2, <2>3 DEF FillInv
<1>4. CASE e # order.stop
  <2>1. FS!Walk(e, b, due) /\ since' \in 0..MinGap
    BY <1>2, <1>4 DEF FS!EnterBar
  <2> HIDE DEF e
  <2>2. FS!Gain(order.side, order.stop, order.stop) = 0
    BY <1>2 DEF FS!Gain
  <2>3. mode \in {"breakeven", "full_target", "atr_trail"}
    BY DEF FillInv, FS!TypeOK
  <2>4. Going(e, hit, left, pnl, stop)
    BY <1>1, <1>2, <2>2, <2>3 DEF Going
  <2>5. Beside(e, hit, live)
    BY <1>1 DEF Beside, FS!Fresh, FillLive, Rest
  <2>6. Running(e)
    BY <1>1, <1>2, <1>4, <2>4, <2>5 DEF Running
  <2> QED BY <1>1, <2>1, <2>6, FillWalk
<1> QED BY <1>3, <1>4

LEMMA FillHold ==
  ASSUME FillInv, NEW b \in FS!Bar, NEW due \in BOOLEAN, NEW final \in BOOLEAN,
         FS!HoldBar(b, due, final)
  PROVE  FillInv'
<1>1. Running(entry) /\ reason \in {"none", "target"} /\ FS!Walk(entry, b, due)
  BY DEF FillInv, FS!HoldBar
<1>2. since' \in 0..MinGap
  BY FillValues DEF FillInv, FS!TypeOK, FS!HoldBar, FS!Longer
<1> QED BY <1>1, <1>2, FillWalk

LEMMA FillStep == FillInv /\ [Next]_vars => FillInv'
<1> SUFFICES ASSUME FillInv, [Next]_vars PROVE FillInv'
  OBVIOUS
<1>1. CASE FS!Next
  <2>1. CASE \E o \in Orders : FS!Signal(o)
    BY <2>1, FillSignal
  <2>2. CASE \E final \in BOOLEAN : FS!IdleBar(final)
    BY <2>2, FillIdle
  <2>3. ASSUME NEW b \in FS!Bar, NEW due \in BOOLEAN, NEW final \in BOOLEAN,
               FS!EnterBar(b, due, final) \/ FS!HoldBar(b, due, final)
        PROVE  FillInv'
    BY <2>3, FillEnter, FillHold
  <2> QED BY <1>1, <2>1, <2>2, <2>3 DEF FS!Next
<1>2. CASE UNCHANGED replay
  <2>1. UNCHANGED <<mode, aim, phase, order, entry, stop, left, hit, pnl, reason, since, live>>
    BY <1>2 DEF replay
  <2>2. FS!TypeOK' /\ live' \in FillLive
    BY <2>1 DEF FillInv, FS!TypeOK, FS!NoOrder
  <2>3. FS!LossIsBounded'
    BY <2>1, FillSame DEF FillInv, FS!LossIsBounded, FS!Over, FS!Orderly
  <2>4. Running(entry) => Running(entry)'
    BY <2>1, FillSame DEF Running, Going, FillGain, Beside, NoneNearer, NoneFarther
  <2> QED BY <2>1, <2>2, <2>3, <2>4 DEF FillInv
<1> QED BY <1>1, <1>2 DEF Next, vars, replay

LEMMA FillAlways == Spec => []FillInv
BY FillInit, FillStep, PTL DEF Spec

\* The simulated trade and the engine's position are as far as their targets let them, in every
\* state of the invariant.
LEMMA FillMirrors == FillInv => FS!MirrorsExecution
<1> SUFFICES ASSUME FillInv, phase = "open", mode = "breakeven"
             PROVE  FS!MirrorsExecution
  BY DEF FS!MirrorsExecution
<1>1. Running(entry)
  BY DEF FillInv
<1>2. /\ hit \in 0..2 /\ left = Rest(hit)
      /\ \/ hit = 0 /\ stop # entry
         \/ hit > 0 /\ stop = entry
  BY <1>1 DEF Running, Going, Rest
<1>3. /\ live.hit \in Nat /\ live.left = Rest(live.hit) /\ (live.breakeven <=> live.hit > 0)
      /\ NoneNearer(entry) => live.hit >= hit
      /\ NoneFarther(entry) => hit >= live.hit
  BY <1>1 DEF Running, Beside, FillLive
<1>4. (live.hit >= hit => live.left =< left) /\ (hit >= live.hit => left =< live.left)
  BY <1>2, <1>3 DEF Rest
<1>5. NoneNearer(entry) => live.hit >= hit /\ live.left =< left /\ (stop = entry => live.breakeven)
  BY <1>2, <1>3, <1>4
<1>6. NoneFarther(entry) => hit >= live.hit /\ left =< live.left /\ (live.breakeven => stop = entry)
  BY <1>2, <1>3, <1>4
<1>7. (FS!NoneNearer <=> NoneNearer(entry)) /\ (FS!NoneFarther <=> NoneFarther(entry))
  BY DEF FS!NoneNearer, FS!NoneFarther, FS!Orderly, NoneNearer, NoneFarther
<1> QED BY <1>5, <1>6, <1>7 DEF FS!MirrorsExecution

----------------------------------------------------------------------------
\* TrailingBuyStrat

LEMMA TrailValues == TB!TrailingAssumption
BY ReplayAssumption

\* Products grow with their factors, and the lesser of two products is the product
\* of the lesser.
LEMMA LesserProduct ==
  ASSUME NEW a \in Nat, NEW b \in Nat, NEW c \in Nat
  PROVE  TB!Lesser(a, b) * c = TB!Lesser(a * c, b * c)
<1>1. ASSUME NEW x \in Nat, NEW y \in Nat, x <= y PROVE x * c <= y * c
  <2>1. PICK d \in Nat : y = x + d  BY <1>1
  <2>2. y * c = x * c + d * c  BY <2>1
  <2>3. d * c \in Nat /\ x * c \in Nat  OBVIOUS
  <2> QED  BY <2>2, <2>3
<1>2. a * c \in Nat /\ b * c \in Nat  OBVIOUS
<1>3. CASE a <= b  BY <1>1, <1>2, <1>3 DEF TB!Lesser
<1>4. CASE ~(a <= b)
  <2>1. b <= a  BY <1>4
  <2>2. b * c <= a * c  BY <1>1, <2>1
  <2>3. TB!Lesser(a * c, b * c) = b * c
    BY <1>2, <2>2 DEF TB!Lesser
  <2> QED  BY <1>4, <2>3 DEF TB!Lesser
<1> QED  BY <1>3, <1>4

\* The inductive invariant.
TrailingInv == which = "trailing" => TB!TypeOK /\ TB!TrailingBuysLow

BuyType == [price : BuyPrices \cup {0}, start : BuyPrices \cup {0}, lowest : BuyPrices \cup {0}]

\* No buy is one of the values the last buy may have.
LEMMA NoBuyTyped == TB!NoBuy \in BuyType
BY DEF TB!NoBuy, BuyType

\* The types are kept.
LEMMA TrailTypes ==
  ASSUME TB!TypeOK, [TB!Next]_(TB!vars)
  PROVE  TB!TypeOK'
<1>1. ASSUME NEW price \in BuyPrices,
             TB!Start(price) \/ TB!Follow(price) \/ TB!Buy(price) \/ TB!Idle(price)
      PROVE  TB!TypeOK'
  <2>1. price \in Nat /\ price * 1000 \in Nat /\ price * (1000 + Offset) \in Nat
    BY TrailValues DEF TB!TrailingAssumption
  <2>2. uplimit \in Nat /\ lowest \in BuyPrices \cup {0} /\ start \in BuyPrices \cup {0}
    BY DEF TB!TypeOK
  <2>3. TB!Lesser(price * (1000 + Offset), uplimit) \in Nat
    BY <2>1, <2>2 DEF TB!Lesser
  <2>4. TB!Lesser(lowest, price) \in BuyPrices \cup {0}  BY <2>2 DEF TB!Lesser
  <2>5. started' \in BOOLEAN
    <3>1. started' = started \/ started' = TRUE \/ started' = FALSE
      BY <1>1 DEF TB!Start, TB!Follow, TB!Buy, TB!Idle
    <3> QED BY <3>1, Zenon DEF TB!TypeOK
  <2>6. uplimit' \in Nat
    BY <1>1, <2>1, <2>2, <2>3 DEF TB!Start, TB!Follow, TB!Buy, TB!Idle
  <2>7. start' \in BuyPrices \cup {0} /\ lowest' \in BuyPrices \cup {0}
    BY <1>1, <2>2, <2>4 DEF TB!Start, TB!Follow, TB!Buy, TB!Idle
  <2>8. bought' \in BuyType
    BY <1>1, <2>2, NoBuyTyped DEF TB!Start, TB!Follow, TB!Buy, TB!Idle, BuyType
  <2> QED  BY <2>5, <2>6, <2>7, <2>8 DEF TB!TypeOK, BuyType
<1>2. CASE TB!ConfirmExit  BY <1>2, NoBuyTyped DEF TB!ConfirmExit, TB!TypeOK, BuyType
<1>3. CASE UNCHANGED TB!vars  BY <1>3 DEF TB!vars, TB!TypeOK
<1> QED  BY <1>1, <1>2, <1>3 DEF TB!Next

\* The limit follows the lowest price in every step.
LEMMA TrailLimit ==
  ASSUME TB!TypeOK, TB!TrailingBuysLow, [TB!Next]_(TB!vars)
  PROVE  TB!LimitFollowsTheLowest'
<1>1. /\ uplimit \in Nat /\ start \in Nat /\ lowest \in Nat
      /\ Offset \in Nat /\ 1000 + Offset \in Nat
  BY TrailValues DEF TB!TypeOK, TB!TrailingAssumption
<1>2. ASSUME NEW price \in BuyPrices, TB!Start(price) PROVE TB!LimitFollowsTheLowest'
  <2>1. price \in Nat /\ price * Offset \in Nat  BY <1>1, TrailValues DEF TB!TrailingAssumption
  <2>2. price * (1000 + Offset) = price * 1000 + price * Offset  BY <1>1, <2>1
  <2>3. price * 1000 = TB!Lesser(price * 1000, price * (1000 + Offset))
    BY <2>1, <2>2 DEF TB!Lesser
  <2> QED  BY <1>2, <2>3 DEF TB!Start, TB!LimitFollowsTheLowest
<1>3. ASSUME NEW price \in BuyPrices, TB!Follow(price) PROVE TB!LimitFollowsTheLowest'
  <2> DEFINE c == 1000 + Offset
  <2>1. price \in Nat  BY TrailValues DEF TB!TrailingAssumption
  <2>2. uplimit = TB!Lesser(start * 1000, lowest * c)
    BY <1>3 DEF TB!Follow, TB!TrailingBuysLow, TB!LimitFollowsTheLowest
  <2>3. /\ uplimit' = TB!Lesser(price * c, uplimit)
        /\ lowest' = TB!Lesser(lowest, price)
        /\ start' = start
    BY <1>3 DEF TB!Follow
  <2>4. lowest' * c = TB!Lesser(lowest * c, price * c)
    BY <1>1, <2>1, <2>3, LesserProduct
  <2>5. start * 1000 \in Nat /\ lowest * c \in Nat /\ price * c \in Nat
    BY <1>1, <2>1
  <2> HIDE DEF c
  <2>6. TB!Lesser(price * c, TB!Lesser(start * 1000, lowest * c))
          = TB!Lesser(start * 1000, TB!Lesser(lowest * c, price * c))
    BY <2>5 DEF TB!Lesser
  <2>7. uplimit' = TB!Lesser(start' * 1000, lowest' * c)
    BY <2>2, <2>3, <2>4, <2>6
  <2> QED  BY <2>7 DEF TB!LimitFollowsTheLowest, c
<1>4. ASSUME NEW price \in BuyPrices, TB!Buy(price) PROVE TB!LimitFollowsTheLowest'
  BY <1>4 DEF TB!Buy, TB!LimitFollowsTheLowest
<1>5. ASSUME NEW price \in BuyPrices, TB!Idle(price) PROVE TB!LimitFollowsTheLowest'
  BY <1>5 DEF TB!Idle, TB!TrailingBuysLow, TB!LimitFollowsTheLowest
<1>6. CASE TB!ConfirmExit  BY <1>6 DEF TB!ConfirmExit, TB!LimitFollowsTheLowest
<1>7. CASE UNCHANGED TB!vars
  BY <1>7 DEF TB!vars, TB!TrailingBuysLow, TB!LimitFollowsTheLowest
<1> QED  BY <1>2, <1>3, <1>4, <1>5, <1>6, <1>7 DEF TB!Next

\* A buy is made on a rebound.
LEMMA TrailBuys ==
  ASSUME TB!TypeOK, TB!TrailingBuysLow, [TB!Next]_(TB!vars)
  PROVE  TB!BoughtOnARebound'
<1>1. ASSUME NEW price \in BuyPrices, TB!Buy(price) PROVE TB!BoughtOnARebound'
  <2>1. /\ bought'.price = price
        /\ bought'.start = start
        /\ bought'.lowest = lowest
        /\ started /\ price * 1000 >= uplimit /\ price < start
    BY <1>1 DEF TB!Buy
  <2>2. /\ price \in Nat /\ start \in Nat /\ lowest \in Nat
        /\ lowest * (1000 + Offset) \in Nat
    BY TrailValues DEF TB!TypeOK, TB!TrailingAssumption
  <2>3. uplimit = TB!Lesser(start * 1000, lowest * (1000 + Offset))
    BY <2>1 DEF TB!TrailingBuysLow, TB!LimitFollowsTheLowest
  <2>4. price * 1000 < start * 1000  BY <2>1, <2>2
  <2>5. price * 1000 >= lowest * (1000 + Offset)
    BY <2>1, <2>2, <2>3, <2>4 DEF TB!Lesser
  <2> QED  BY <2>1, <2>5 DEF TB!BoughtOnARebound
<1>2. ASSUME NEW price \in BuyPrices, TB!Start(price) \/ TB!Follow(price) \/ TB!Idle(price)
      PROVE  TB!BoughtOnARebound'
  BY <1>2 DEF TB!Start, TB!Follow, TB!Idle, TB!BoughtOnARebound
<1>3. CASE TB!ConfirmExit  BY <1>3 DEF TB!ConfirmExit, TB!BoughtOnARebound
<1>4. CASE UNCHANGED TB!vars  BY <1>4 DEF TB!vars, TB!TrailingBuysLow, TB!BoughtOnARebound
<1> QED  BY <1>1, <1>2, <1>3, <1>4 DEF TB!Next

LEMMA TrailInit == Init => TrailingInv
<1> SUFFICES ASSUME Init, which = "trailing" PROVE TB!TypeOK /\ TB!TrailingBuysLow
  BY DEF TrailingInv
<1>1. TB!Init
  BY DEF Init
<1>2. TB!TypeOK
  BY <1>1, NoBuyTyped DEF TB!Init, TB!TypeOK, BuyType
<1>3. TB!TrailingBuysLow
  BY <1>1 DEF TB!Init, TB!TrailingBuysLow, TB!BoughtOnARebound, TB!LimitFollowsTheLowest
<1> QED BY <1>2, <1>3

LEMMA TrailStep == TrailingInv /\ [Next]_vars => TrailingInv'
<1> SUFFICES ASSUME TrailingInv, [Next]_vars, which' = "trailing"
             PROVE  TB!TypeOK' /\ TB!TrailingBuysLow'
  BY DEF TrailingInv
<1>1. which = "trailing" /\ [TB!Next]_(TB!vars)
  BY DEF Next, vars, trailing, TB!vars
<1>2. TB!TypeOK /\ TB!TrailingBuysLow
  BY <1>1 DEF TrailingInv
<1> QED BY <1>1, <1>2, TrailTypes, TrailLimit, TrailBuys DEF TB!TrailingBuysLow

LEMMA TrailAlways == Spec => []TrailingInv
BY TrailInit, TrailStep, PTL DEF Spec

THEOREM BuysLowForAllPrices == Spec => []TrailingBuysLow
<1>1. TrailingInv => TrailingBuysLow
  BY DEF TrailingInv, TrailingBuysLow
<1> QED BY <1>1, TrailAlways, PTL

----------------------------------------------------------------------------
\* The NASOS strategies

LEMMA NasosValues ==
  /\ NasosRates \subseteq Nat \ {0}
  /\ \A c \in NasosCandles : c.sell \in Int /\ c.close \in Int
BY ReplayAssumption DEF NA!NasosAssumption

NasosVariants == {NA!V4, NA!V5, NA!V5HO, NA!V5PD, NA!V5SL}

\* The numbers of a variant that its stop and its signals depend on.
LEMMA NasosVariantValues ==
  ASSUME NEW v \in NasosVariants
  PROVE  /\ v.stop \in {700, 850, 900} /\ v.high \in Int /\ v.high2 \in Int /\ v.high < v.high2
         /\ v.trail \in BOOLEAN /\ (~v.trail <=> v = NA!V5SL)
         /\ v.from \in {16, 30} /\ (v.trail => v.stop \in {700, 850, 900})
         /\ v = NA!V5SL => v.stop = 700
<1>1. CASE v = NA!V4
  BY <1>1 DEF NA!V4, NA!V5, NA!V5SL
<1>2. CASE v = NA!V5
  BY <1>2 DEF NA!V5, NA!V5SL
<1>3. CASE v = NA!V5HO
  <2>1. /\ NA!V5HO.high = 1012 /\ NA!V5HO.high2 = 1431 /\ NA!V5HO.stop = 900
        /\ NA!V5HO.trail = TRUE /\ NA!V5HO.from = 30
    BY DEF NA!V5, NA!V5HO
  <2>2. NA!V5SL.trail = FALSE
    BY DEF NA!V5, NA!V5SL
  <2>3. v.trail = TRUE /\ v # NA!V5SL
    BY <1>3, <2>1, <2>2
  <2>4. v.trail \in BOOLEAN /\ (~v.trail <=> v = NA!V5SL) /\ (v = NA!V5SL => v.stop = 700)
    BY <2>3
  <2>5. /\ v.stop \in {700, 850, 900} /\ v.high \in Int /\ v.high2 \in Int /\ v.high < v.high2
        /\ v.from \in {16, 30}
    BY <1>3, <2>1
  <2> QED BY <2>4, <2>5
<1>4. CASE v = NA!V5PD
  <2>1. /\ NA!V5PD.high = 1010 /\ NA!V5PD.high2 = 1142 /\ NA!V5PD.stop = 700
        /\ NA!V5PD.trail = TRUE /\ NA!V5PD.from = 30
    BY DEF NA!V5, NA!V5PD
  <2>2. NA!V5SL.trail = FALSE
    BY DEF NA!V5, NA!V5SL
  <2>3. v.trail = TRUE /\ v # NA!V5SL
    BY <1>4, <2>1, <2>2
  <2>4. v.trail \in BOOLEAN /\ (~v.trail <=> v = NA!V5SL) /\ (v = NA!V5SL => v.stop = 700)
    BY <2>3
  <2>5. /\ v.stop \in {700, 850, 900} /\ v.high \in Int /\ v.high2 \in Int /\ v.high < v.high2
        /\ v.from \in {16, 30}
    BY <1>4, <2>1
  <2> QED BY <2>4, <2>5
<1>5. CASE v = NA!V5SL
  BY <1>5 DEF NA!V5, NA!V5SL
<1> QED BY <1>1, <1>2, <1>3, <1>4, <1>5 DEF NasosVariants

NasosTrades ==
  [tag : {"ewolow", "ewo2", "ewo1"}, rate : Nat, peak : Nat, stop : Int, age : Nat]

\* A record is not the empty sequence.
LEMMA NasosIsTrade == ASSUME NEW t \in NasosTrades PROVE t # <<>>
<1>1. DOMAIN t = {"tag", "rate", "peak", "stop", "age"}
  BY DEF NasosTrades
<1>2. Len(<<>>) = 0 /\ DOMAIN <<>> = 1..Len(<<>>)
  OBVIOUS
<1>3. "tag" \in DOMAIN t
  BY <1>1
<1>4. \A x : x \notin DOMAIN <<>>
  BY <1>2
<1> QED BY <1>3, <1>4

\* The counter of the pair, and what the trade's stop has locked in.
NasosInv ==
  which = "nasos" =>
    /\ variant \in NasosVariants /\ candle \in NasosCandles
    /\ memory \in 0..3 /\ outcome.done \in {"none", "signal", "stop_loss", "roi", "trailing_stop_loss"}
    /\ trade = <<>> \/ trade \in NasosTrades
    /\ trade = <<>> \/ outcome.done # "none" => memory = 0
    /\ NA!ProfitIsLockedIn /\ NA!StopsAreLossOrProfit

LEMMA NasosInit == Init => NasosInv
<1> SUFFICES ASSUME Init, which = "nasos" PROVE NasosInv
  BY DEF NasosInv
<1>1. NA!Init
  BY DEF Init
<1> QED BY <1>1 DEF NA!Init, NA!F!Init, NasosInv, NasosVariants, NA!F!NoExit, NA!ProfitIsLockedIn,
             NA!StopsAreLossOrProfit

NasosExits == {"signal", "stop_loss", "roi", "trailing_stop_loss"}

\* An answer to the exits asked for so far: the counter is spent by an exit that goes through.
NasosAnswer(a) ==
  /\ a.memory \in 0..3 /\ a.done \in NasosExits \cup {"none"}
  /\ a.done # "none" => a.memory = 0

\* One exit put to the strategy.
LEMMA NasosPut ==
  ASSUME NEW a, NasosAnswer(a), NEW due, NEW exit \in NasosExits, NEW t, NEW c
  PROVE  /\ NasosAnswer(NA!F!Put(a, due, exit, t, c))
         /\ ~due \/ a.done # "none" => NA!F!Put(a, due, exit, t, c) = a
         /\ due /\ a.done = "none" =>
              /\ NA!F!Put(a, due, exit, t, c).asked = Append(a.asked, exit)
              /\ a.memory = 3 => \/ NA!F!Put(a, due, exit, t, c).done = exit
                                 \/ /\ exit = "signal" /\ NA!F!Put(a, due, exit, t, c).memory = 3
                                    /\ NA!F!Put(a, due, exit, t, c).done = "none"
<1> DEFINE r == NA!F!Put(a, due, exit, t, c)
<1>1. CASE ~due \/ a.done # "none"
  <2>1. r = a
    BY <1>1 DEF NA!F!Put
  <2> QED BY <1>1, <2>1
<1>2. CASE due /\ a.done = "none"
  <2> DEFINE holding == exit = "signal" /\ NA!SignalHeld(c)
             slipped == NA!Slipped(t, c)
  <2>1. /\ r.memory = NA!After(a.memory, exit, t, c) /\ r.asked = Append(a.asked, exit)
        /\ r.done = IF NA!Confirm(a.memory, exit, t, c) THEN exit ELSE "none"
    BY <1>2 DEF NA!F!Put
  <2>2. NA!Confirm(a.memory, exit, t, c) <=> ~holding /\ (slipped => a.memory >= 3)
    BY DEF NA!Confirm, NA!Retries
  <2>3. NA!After(a.memory, exit, t, c)
          = IF holding THEN a.memory ELSE IF slipped /\ a.memory < 3 THEN a.memory + 1 ELSE 0
    BY DEF NA!After, NA!Retries
  <2>4. a.memory \in 0..3 /\ exit # "none"
    BY DEF NasosAnswer, NasosExits
  <2>5. holding => exit = "signal"
    OBVIOUS
  <2> HIDE DEF holding, slipped, r
  <2>6. r.memory \in 0..3 /\ (r.done # "none" => r.memory = 0) /\ r.done \in NasosExits \cup {"none"}
    BY <2>1, <2>2, <2>3, <2>4
  <2>7. a.memory = 3 => r.done = exit \/ (exit = "signal" /\ r.memory = 3 /\ r.done = "none")
    BY <2>1, <2>2, <2>3, <2>4, <2>5
  <2> QED BY <1>2, <2>1, <2>6, <2>7 DEF NasosAnswer, r
<1> QED BY <1>1, <1>2

\* All of them.
LEMMA NasosAsk ==
  ASSUME which = "nasos", NasosInv, outcome.done = "none", NEW t, NEW c
  PROVE  /\ NasosAnswer(NA!F!Ask(t, c))
         /\ memory = 3 /\ NA!F!Ask(t, c).asked # <<>> =>
              NA!F!Ask(t, c).done # "none" \/ NA!F!Ask(t, c).asked = <<"signal">>
<1> DEFINE stopped == t.rate <= t.stop
           paid == NA!F!Profit(t) > NA!Roi(variant, t.age) /\ ~NA!IgnoreRoi(variant, t, c)
           none == [memory |-> memory, asked |-> <<>>, done |-> "none"]
           sig == NA!F!Signal(t, c)
           d1 == sig # "none"
           d2 == stopped /\ t.stop = NA!Stop0(variant)
           d4 == stopped /\ t.stop # NA!Stop0(variant)
           a1 == NA!F!Put(none, d1, sig, t, c)
           a2 == NA!F!Put(a1, d2, "stop_loss", t, c)
           a3 == NA!F!Put(a2, paid, "roi", t, c)
           a4 == NA!F!Put(a3, d4, "trailing_stop_loss", t, c)
<1>1. NA!F!Ask(t, c) = a4
  BY DEF NA!F!Ask
<1>2. sig \in {"signal", "none"}
  BY DEF NA!F!Signal, NA!NoCustomSell
<1>3. NasosAnswer(none) /\ none.asked = <<>> /\ none.done = "none" /\ none.memory = memory
  BY DEF NasosAnswer, NasosInv
<1>4. "signal" \in NasosExits /\ "stop_loss" \in NasosExits /\ "roi" \in NasosExits
      /\ "trailing_stop_loss" \in NasosExits
  BY DEF NasosExits
<1> HIDE DEF stopped, paid, none, d2, d4
<1>5. /\ NasosAnswer(a1)
      /\ a1 = none \/ (a1.asked = Append(<<>>, "signal")
           /\ (memory = 3 => a1.done = "signal" \/ (a1.memory = 3 /\ a1.done = "none")))
  <2>1. CASE d1
    <3>1. sig = "signal"
      BY <1>2, <2>1
    <3> HIDE DEF d1, sig
    <3>2. sig \in NasosExits
      BY <1>4, <3>1
    <3>3. /\ NasosAnswer(a1)
          /\ d1 /\ none.done = "none" => a1.asked = Append(none.asked, sig)
          /\ d1 /\ none.done = "none" /\ none.memory = 3 =>
               a1.done = sig \/ (a1.memory = 3 /\ a1.done = "none")
      BY <1>3, <3>2, NasosPut
    <3> HIDE DEF a1
    <3> QED BY <1>3, <2>1, <3>1, <3>3
  <2>2. CASE ~d1
    <3>1. a1 = none
      BY <2>2 DEF NA!F!Put
    <3> QED BY <1>3, <3>1
  <2> QED BY <2>1, <2>2
<1> HIDE DEF d1, sig
<1> HIDE DEF a1
<1>6. /\ NasosAnswer(a2)
      /\ memory = 3 => a2 = a1 \/ a2.done # "none"
  <2>1. memory = 3 /\ a1.done = "none" => a1.memory = 3
    BY <1>3, <1>5
  <2> QED BY <1>4, <1>5, <2>1, NasosPut DEF NasosExits
<1> HIDE DEF a2
<1>7. /\ NasosAnswer(a3)
      /\ memory = 3 => a3 = a1 \/ a3.done # "none"
  <2>1. memory = 3 /\ a1.done = "none" => a1.memory = 3
    BY <1>3, <1>5
  <2>2. /\ NasosAnswer(a3)
        /\ ~paid \/ a2.done # "none" => a3 = a2
        /\ paid /\ a2.done = "none" /\ a2.memory = 3 => a3.done = "roi"
    BY <1>4, <1>6, NasosPut
  <2> HIDE DEF a3
  <2>3. memory = 3 => a3 = a1 \/ a3.done # "none"
    BY <1>6, <2>1, <2>2
  <2> QED BY <2>2, <2>3
<1> HIDE DEF a3
<1>8. /\ NasosAnswer(a4)
      /\ memory = 3 => a4 = a1 \/ a4.done # "none"
  <2>1. memory = 3 /\ a1.done = "none" => a1.memory = 3
    BY <1>3, <1>5
  <2>2. /\ NasosAnswer(a4)
        /\ ~d4 \/ a3.done # "none" => a4 = a3
        /\ d4 /\ a3.done = "none" /\ a3.memory = 3 => a4.done = "trailing_stop_loss"
    BY <1>4, <1>7, NasosPut
  <2> HIDE DEF a4
  <2>3. memory = 3 => a4 = a1 \/ a4.done # "none"
    BY <1>7, <2>1, <2>2
  <2> QED BY <2>2, <2>3
<1> HIDE DEF a4
<1>9. memory = 3 /\ a4.asked # <<>> => a4.done # "none" \/ a4.asked = <<"signal">>
  <2>1. Append(<<>>, "signal") = <<"signal">>
    OBVIOUS
  <2> QED BY <1>3, <1>5, <1>8, <2>1
<1> QED BY <1>1, <1>8, <1>9

\* The stop of a trade with its peak.
NasosStops(v, peak, s) ==
  /\ v = NA!V5SL => (peak > 1019 => s >= 1019) /\ (peak > 1065 => s >= peak - 3)
  /\ s > 1000 \/ s \in {v.stop, 822}

\* The stop asked for at a rate.
LEMMA NasosStopFor ==
  ASSUME NEW v \in NasosVariants, NEW t, t.rate \in Nat
  PROVE  /\ NA!StopFor(v, t) \in Int
         /\ v = NA!V5SL => /\ t.rate > 1019 => NA!StopFor(v, t) >= 1019
                           /\ t.rate > 1065 => NA!StopFor(v, t) >= t.rate - 3
         /\ NA!StopFor(v, t) > 1000 \/ NA!StopFor(v, t) \in {v.stop, 822} \/ NA!StopFor(v, t) <= 8
<1> DEFINE p == t.rate - 1000
           k == NA!SlProfit(p)
           s == NA!StopFor(v, t)
<1>1. CASE ~v.trail
  <2>1. v = NA!V5SL
    BY <1>1, NasosVariantValues
  <2>2. s = IF k >= p THEN t.rate \div 100 ELSE 1000 + k
    BY <1>1 DEF NA!StopFor
  <2>3. k = CASE p > 65 -> 62 + (p - 65)
              [] p > 19 /\ p <= 65 -> 19 + ((p - 19) * 43) \div 46
              [] OTHER -> -178
    BY DEF NA!SlProfit
  <2>4. p \in Int /\ t.rate = p + 1000
    OBVIOUS
  <2> HIDE DEF p, k, s
  <2>5. CASE p > 65
    <3>1. k = p - 3
      BY <2>3, <2>4, <2>5
    <3>2. s = 1000 + k
      BY <2>2, <2>4, <3>1
    <3>3. s \in Int /\ s = t.rate - 3 /\ s > 1000 /\ s >= 1019
      BY <2>4, <2>5, <3>1, <3>2
    <3> QED BY <3>3 DEF s
  <2>6. CASE p > 19 /\ p <= 65
    <3>1. k = 19 + ((p - 19) * 43) \div 46
      BY <2>3, <2>6, <2>4
    <3> DEFINE q == ((p - 19) * 43) \div 46
    <3>2. q \in Int /\ 46 * q <= (p - 19) * 43 /\ (p - 19) * 43 < 46 * q + 46
      BY <2>4
    <3> HIDE DEF q
    <3>3. q >= 0 /\ q < p - 19
      BY <2>4, <2>6, <3>2
    <3>4. s = 1000 + 19 + q
      BY <2>2, <2>4, <3>1, <3>2, <3>3 DEF q
    <3>5. s \in Int /\ s >= 1019 /\ s > 1000 /\ ~(t.rate > 1065)
      BY <2>4, <2>6, <3>2, <3>3, <3>4
    <3> QED BY <3>5 DEF s
  <2>7. CASE p <= 19
    <3>1. k = -178
      BY <2>3, <2>4, <2>7
    <3>2. CASE k >= p
      <4>1. t.rate <= 822 /\ s = t.rate \div 100
        BY <2>2, <2>4, <3>1, <3>2
      <4>2. s \in Int /\ s <= 8
        BY <4>1
      <4> QED BY <4>1, <4>2 DEF s
    <3>3. CASE ~(k >= p)
      <4>1. s = 822 /\ t.rate <= 1019
        BY <2>2, <2>4, <2>7, <3>1, <3>3
      <4> QED BY <4>1 DEF s
    <3> QED BY <3>2, <3>3
  <2> QED BY <2>4, <2>5, <2>6, <2>7
<1>2. CASE v.trail /\ p > v.from
  <2>1. s = (t.rate * 999) \div 1000 /\ v # NA!V5SL /\ v.from >= 16
    BY <1>2, NasosVariantValues DEF NA!StopFor
  <2>2. t.rate >= 1017
    BY <1>2, NasosVariantValues
  <2> HIDE DEF s
  <2>3. s \in Int /\ s > 1000
    BY <2>1, <2>2
  <2> QED BY <2>1, <2>3 DEF s
<1>3. CASE v.trail /\ ~(p > v.from)
  <2>1. s = v.stop /\ v # NA!V5SL
    BY <1>3, NasosVariantValues DEF NA!StopFor
  <2> QED BY <2>1, NasosVariantValues
<1> QED BY <1>1, <1>2, <1>3, NasosVariantValues

\* The stop of the trade moves to it if that is tighter.
LEMMA NasosStopMoves ==
  ASSUME NEW v \in NasosVariants, NEW rate \in Nat, NEW peak \in Nat, NEW s \in Int, NEW ask \in Int,
         NasosStops(v, peak, s), v = NA!V5SL => (rate > 1019 => ask >= 1019) /\ (rate > 1065 => ask >= rate - 3),
         ask > 1000 \/ ask \in {v.stop, 822} \/ ask <= 8
  PROVE  NasosStops(v, NA!F!Larger(peak, rate), NA!F!Larger(s, ask))
<1>1. v.stop \in {700, 850, 900}
  BY NasosVariantValues
<1> QED BY <1>1 DEF NasosStops, NA!F!Larger

\* A rate keeps the invariant, and asks for no fourth time.
LEMMA NasosTick ==
  ASSUME which = "nasos", NasosInv, NEW rate \in NasosRates, NEW c \in NasosCandles,
         NEW age \in NasosAges, NA!F!Tick(rate, c, age), which' = which
  PROVE  NasosInv' /\ NA!AskIsGranted
<1> DEFINE seen == [trade EXCEPT !.rate = rate, !.peak = NA!F!Larger(@, rate), !.age = age]
           t == [seen EXCEPT !.stop = NA!F!Larger(@, NA!StopFor(variant, seen))]
           answer == NA!F!Ask(t, c)
<1>1. /\ trade # <<>> /\ outcome.done = "none" /\ trade' = t /\ candle' = c
      /\ memory' = answer.memory /\ outcome' = [asked |-> answer.asked, done |-> answer.done]
      /\ variant' = variant
  BY DEF NA!F!Tick
<1>2. /\ trade \in NasosTrades /\ variant \in NasosVariants /\ NasosStops(variant, trade.peak, trade.stop)
  BY <1>1 DEF NasosInv, NA!ProfitIsLockedIn, NA!StopsAreLossOrProfit, NasosStops
<1>3. rate \in Nat /\ age \in Nat
  BY ReplayAssumption DEF NA!NasosAssumption
<1>4. seen \in NasosTrades /\ seen.rate = rate /\ seen.stop = trade.stop
      /\ seen.peak = NA!F!Larger(trade.peak, rate)
  BY <1>2, <1>3 DEF NasosTrades, NA!F!Larger
<1> HIDE DEF seen
<1> DEFINE ask == NA!StopFor(variant, seen)
<1>5. /\ ask \in Int
      /\ variant = NA!V5SL => (rate > 1019 => ask >= 1019) /\ (rate > 1065 => ask >= rate - 3)
      /\ ask > 1000 \/ ask \in {variant.stop, 822} \/ ask <= 8
  BY <1>2, <1>3, <1>4, NasosStopFor
<1> HIDE DEF ask
<1>6. NasosStops(variant, NA!F!Larger(trade.peak, rate), NA!F!Larger(trade.stop, ask))
  <2>1. trade.peak \in Nat /\ trade.stop \in Int
    BY <1>2 DEF NasosTrades
  <2> QED BY <1>2, <1>3, <1>5, <2>1, NasosStopMoves
<1>7. t \in NasosTrades /\ t.peak = NA!F!Larger(trade.peak, rate)
      /\ t.stop = NA!F!Larger(trade.stop, ask)
  BY <1>4, <1>5 DEF NasosTrades, NA!F!Larger, ask
<1> HIDE DEF t
<1>8. /\ NasosAnswer(answer)
      /\ memory = 3 /\ answer.asked # <<>> => answer.done # "none" \/ answer.asked = <<"signal">>
  BY <1>1, NasosAsk
<1> HIDE DEF answer
<1>9. outcome'.asked = answer.asked /\ outcome'.done = answer.done
  BY <1>1
<1>10. NA!AskIsGranted
  BY <1>8, <1>9 DEF NA!AskIsGranted, NA!Retries
<1>11. trade' # <<>>
  BY <1>1, <1>7, NasosIsTrade
<1>12. NA!ProfitIsLockedIn' /\ NA!StopsAreLossOrProfit'
  BY <1>1, <1>6, <1>7 DEF NasosStops, NA!ProfitIsLockedIn, NA!StopsAreLossOrProfit
<1>13. memory' \in 0..3 /\ outcome'.done \in {"none", "signal", "stop_loss", "roi", "trailing_stop_loss"}
       /\ (outcome'.done # "none" => memory' = 0)
  BY <1>1, <1>8, <1>9 DEF NasosAnswer, NasosExits
<1> QED BY <1>1, <1>2, <1>7, <1>10, <1>11, <1>12, <1>13 DEF NasosInv

LEMMA NasosOpen ==
  ASSUME which = "nasos", NasosInv, NA!F!Open, which' = which
  PROVE  NasosInv' /\ NA!AskIsGranted
<1> DEFINE t == [tag |-> NA!Entry(variant, candle), rate |-> 1000, peak |-> 1000,
                 stop |-> NA!Stop0(variant), age |-> 0]
<1>1. /\ trade = <<>> /\ NA!Entry(variant, candle) # "none" /\ trade' = t
      /\ outcome' = [asked |-> <<>>, done |-> "none"]
      /\ UNCHANGED <<variant, candle, memory>>
  BY DEF NA!F!Open, NA!F!NoExit
<1>2. NA!Entry(variant, candle) \in {"none", "ewolow", "ewo2", "ewo1"}
  BY DEF NA!Entry
<1>3. variant \in NasosVariants /\ memory = 0
  BY <1>1 DEF NasosInv
<1>4. NA!Stop0(variant) = variant.stop /\ variant.stop \in Int
  BY <1>3, NasosVariantValues DEF NA!Stop0
<1>5. t \in NasosTrades /\ t.peak = 1000 /\ t.stop = variant.stop
  BY <1>1, <1>2, <1>4 DEF NasosTrades
<1> HIDE DEF t
<1>6. NA!ProfitIsLockedIn' /\ NA!StopsAreLossOrProfit'
  BY <1>1, <1>5 DEF NA!ProfitIsLockedIn, NA!StopsAreLossOrProfit
<1>7. outcome'.done = "none" /\ outcome'.asked = <<>>
  BY <1>1
<1> QED BY <1>1, <1>3, <1>5, <1>6, <1>7 DEF NasosInv, NA!AskIsGranted

LEMMA NasosStep == NasosInv /\ [Next]_vars => NasosInv' /\ (which = "nasos" /\ ~UNCHANGED <<which, loop>> => NA!AskIsGranted)
<1> SUFFICES ASSUME NasosInv, [Next]_vars
             PROVE NasosInv' /\ (which = "nasos" /\ ~UNCHANGED <<which, loop>> => NA!AskIsGranted)
  OBVIOUS
<1>1. which' = which
  BY DEF Next, vars
<1>2. CASE which # "nasos"
  BY <1>1, <1>2 DEF NasosInv
<1>3. CASE which = "nasos" /\ UNCHANGED loop
  <2>1. UNCHANGED <<variant, trade, candle, memory, outcome>>
    BY <1>3 DEF loop
  <2> QED BY <1>1, <1>3, <2>1 DEF NasosInv, NA!ProfitIsLockedIn, NA!StopsAreLossOrProfit
<1>4. CASE which = "nasos" /\ NA!Next
  <2>1. CASE NA!F!Open
    BY <1>1, <1>4, <2>1, NasosOpen
  <2>2. CASE NA!F!Wait
    <3>1. trade = <<>> /\ candle' \in NasosCandles /\ UNCHANGED <<variant, trade, memory, outcome>>
      BY <2>2 DEF NA!F!Wait
    <3> QED BY <1>1, <1>4, <3>1 DEF NasosInv, NA!ProfitIsLockedIn, NA!StopsAreLossOrProfit, NA!AskIsGranted
  <2>3. CASE NA!F!Close
    <3>1. /\ outcome.done # "none" /\ trade' = <<>> /\ outcome' = [asked |-> <<>>, done |-> "none"]
          /\ UNCHANGED <<variant, candle, memory>>
      BY <2>3 DEF NA!F!Close, NA!F!NoExit
    <3>2. outcome'.asked = <<>> /\ outcome'.done = "none" /\ memory = 0
      BY <1>4, <3>1 DEF NasosInv
    <3> QED BY <1>1, <1>4, <3>1, <3>2 DEF NasosInv, NA!ProfitIsLockedIn, NA!StopsAreLossOrProfit, NA!AskIsGranted
  <2>4. ASSUME NEW rate \in NasosRates, NEW c \in NasosCandles, NEW age \in NasosAges,
               NA!F!Tick(rate, c, age)
        PROVE  NasosInv' /\ NA!AskIsGranted
    BY <1>1, <1>4, <2>4, NasosTick
  <2> QED BY <1>4, <2>1, <2>2, <2>3, <2>4 DEF NA!Next, NA!F!Next
<1> QED BY <1>2, <1>3, <1>4 DEF Next, vars, loop

LEMMA NasosAlways == Spec => []NasosInv
<1>1. NasosInv /\ [Next]_vars => NasosInv'
  BY NasosStep
<1> QED BY <1>1, NasosInit, PTL DEF Spec

LEMMA NasosGrants == Spec => [][which = "nasos" => NA!AskIsGranted]_<<which, loop>>
<1>1. NasosInv /\ [Next]_vars => [which = "nasos" => NA!AskIsGranted]_<<which, loop>>
  BY NasosStep
<1> QED BY <1>1, NasosAlways, PTL DEF Spec

\* BuyExcludesSell: a buy asks for a close below the second offset, a sell for one above.
LEMMA NasosBuyExcludesSell ==
  ASSUME which = "nasos", NasosInv
  PROVE  NA!BuyExcludesSell
<1>1. /\ variant.high \in Int /\ variant.high2 \in Int /\ variant.high < variant.high2
      /\ candle.sell \in Int
  BY NasosVariantValues, NasosValues DEF NasosInv
<1>2. NA!Entry(variant, candle) # "none" => candle.sell < variant.high
  BY DEF NA!Entry, NA!Near
<1>3. NA!ExitTag(variant, candle) # "none" => candle.sell > variant.high
  BY <1>1 DEF NA!ExitTag
<1> QED BY <1>1, <1>2, <1>3 DEF NA!BuyExcludesSell

----------------------------------------------------------------------------
\* The strategies that only give signals

SignalCandle ==
  [buy : Int, sell : Int, ewo : Int, rsi : Int, rsiFast : Int, overHma : BOOLEAN,
   rising : BOOLEAN, inflows : SUBSET Int, mood : SUBSET Int]

LEMMA SignalValues ==
  SignalRates \subseteq Nat \ {0} /\ SignalAges \subseteq Nat /\ SignalCandles \subseteq SignalCandle
BY ReplayAssumption DEF SG!SignalAssumption, SignalCandle

SignalVariants == {SG!V5, SG!LongShort, SG!V8, SG!StatArb}

\* The numbers of the variants that their exits depend on.
LEMMA SignalVariantValues ==
  /\ /\ SG!V5.name = "V5" /\ SG!V5.from = 30 /\ SG!V5.trail = 5 /\ SG!V5.stop = 811
     /\ SG!V5.low = 978 /\ SG!V5.high = 1019 /\ SG!V5.ignoreRoi = TRUE
     /\ SG!V5.ewo = 3340 /\ SG!V5.ewoLow = -17457 /\ SG!V5.rsi = 650
     /\ SG!V5.roi = {<<0, 215>>, <<40, 132>>, <<87, 86>>, <<201, 30>>}
  /\ /\ SG!V8.name = "V8" /\ SG!V8.from = 20 /\ SG!V8.trail = 1 /\ SG!V8.stop = 800
     /\ SG!V8.roi = {<<0, 990>>, <<200, -1000>>} /\ SG!V8.ignoreRoi = FALSE
  /\ /\ SG!StatArb.name = "StatArb" /\ SG!StatArb.trail = 0 /\ SG!StatArb.stop = 900
     /\ SG!StatArb.roi = {<<0, 100>>, <<30, 50>>, <<60, 10>>} /\ SG!StatArb.ignoreRoi = FALSE
BY DEF SG!V5, SG!V8, SG!StatArb

LEMMA LongShortValues ==
  /\ SG!LongShort.name = "LongShort" /\ SG!LongShort.from = 30 /\ SG!LongShort.trail = 5
  /\ SG!LongShort.stop = 811 /\ SG!LongShort.low = 978 /\ SG!LongShort.high = 1019
  /\ SG!LongShort.ignoreRoi = TRUE
  /\ SG!LongShort.ewo = 3340 /\ SG!LongShort.ewoLow = -17457 /\ SG!LongShort.rsi = 650
  /\ SG!LongShort.roi = {<<0, 215>>, <<40, 132>>, <<87, 86>>, <<201, 30>>}
<1>1. /\ SG!LongShort.name = "LongShort" /\ SG!LongShort.from = SG!V5.from
      /\ SG!LongShort.trail = SG!V5.trail
      /\ SG!LongShort.stop = SG!V5.stop /\ SG!LongShort.low = SG!V5.low
      /\ SG!LongShort.high = SG!V5.high /\ SG!LongShort.ignoreRoi = SG!V5.ignoreRoi
      /\ SG!LongShort.ewo = SG!V5.ewo /\ SG!LongShort.ewoLow = SG!V5.ewoLow
      /\ SG!LongShort.rsi = SG!V5.rsi /\ SG!LongShort.roi = SG!V5.roi
  BY DEF SG!LongShort, SG!V5
<1> QED BY <1>1, SignalVariantValues

\* The last row of the table that the trade is old enough for.
LEMMA SignalRoi ==
  ASSUME NEW v \in SignalVariants, NEW age \in Nat
  PROVE  /\ age >= 201 => SG!Roi(v, age) <= 30 /\ SG!Roi(v, age) \in Int
         /\ v.name = "V8" /\ age >= 200 => SG!Roi(v, age) = -1000
<1> DEFINE old == {row \in v.roi : row[1] <= age}
           row == CHOOSE r \in old : \A other \in old : other[1] <= r[1]
<1>1. SG!Roi(v, age) = row[2]
  BY DEF SG!Roi
<1>2. ASSUME NEW r \in old, \A other \in old : other[1] <= r[1],
             \A q \in old : q[1] = r[1] => q = r,
             \A q \in old : q[1] \in Nat
      PROVE  row = r
  <2>1. row \in old /\ \A other \in old : other[1] <= row[1]
    BY <1>2
  <2>2. row[1] <= r[1] /\ r[1] <= row[1] /\ row[1] \in Nat /\ r[1] \in Nat
    BY <1>2, <2>1
  <2>3. row[1] = r[1]
    BY <2>2
  <2> QED BY <1>2, <2>1, <2>3
<1> HIDE DEF row
<1>3. ASSUME age >= 201, v.roi = {<<0, 215>>, <<40, 132>>, <<87, 86>>, <<201, 30>>}
      PROVE  row = <<201, 30>>
  <2>1. old = {<<0, 215>>, <<40, 132>>, <<87, 86>>, <<201, 30>>}
    BY <1>3
  <2> HIDE DEF old
  <2> QED BY <1>2, <2>1
<1>4. ASSUME age >= 200, v.roi = {<<0, 990>>, <<200, -1000>>}
      PROVE  row = <<200, -1000>>
  <2>1. old = {<<0, 990>>, <<200, -1000>>}
    BY <1>4
  <2> HIDE DEF old
  <2> QED BY <1>2, <2>1
<1>5. ASSUME age >= 201, v.roi = {<<0, 100>>, <<30, 50>>, <<60, 10>>}
      PROVE  row = <<60, 10>>
  <2>1. old = {<<0, 100>>, <<30, 50>>, <<60, 10>>}
    BY <1>5
  <2> HIDE DEF old
  <2> QED BY <1>2, <2>1
<1> HIDE DEF old
<1>6. CASE v = SG!V5 \/ v = SG!LongShort
  BY <1>1, <1>3, <1>6, SignalVariantValues, LongShortValues
<1>7. CASE v = SG!V8
  BY <1>1, <1>4, <1>7, SignalVariantValues
<1>8. CASE v = SG!StatArb
  BY <1>1, <1>5, <1>8, SignalVariantValues
<1> QED BY <1>6, <1>7, <1>8 DEF SignalVariants

\* Where the stop trails, it is above the entry.
LEMMA SignalStopFor ==
  ASSUME NEW v \in SignalVariants, NEW t, t.rate \in Nat
  PROVE  /\ SG!StopFor(v, t) \in Int
         /\ v.name # "StatArb" => v.from \in Nat /\ (t.rate > 1000 + v.from => SG!StopFor(v, t) > 1000)
<1>1. v.stop \in Int
  BY SignalVariantValues, LongShortValues DEF SignalVariants
<1>2. \/ v.name = "StatArb" /\ v.trail = 0
      \/ v.name # "StatArb" /\ v.trail = 5 /\ v.from = 30
      \/ v.name # "StatArb" /\ v.trail = 1 /\ v.from = 20
  BY SignalVariantValues, LongShortValues DEF SignalVariants
<1>3. SG!Price(t) = t.rate \/ SG!Price(t) = 2000 - t.rate
  BY DEF SG!Price
<1> DEFINE s == SG!StopFor(v, t)
           x == SG!Price(t)
<1>4. s = IF v.trail > 0 /\ t.rate - 1000 > v.from THEN t.rate - (x * v.trail) \div 1000 ELSE v.stop
  BY DEF SG!StopFor
<1> HIDE DEF s, x
<1>5. CASE v.trail = 0
  BY <1>1, <1>2, <1>4, <1>5 DEF s
<1>6. CASE v.trail = 5 /\ v.from = 30
  <2>1. (x * 5) \div 1000 \in Int /\ 1000 * ((x * 5) \div 1000) <= x * 5
    BY <1>3 DEF x
  <2>2. t.rate > 1030 => t.rate - (x * 5) \div 1000 > 1000
    BY <1>3, <2>1 DEF x
  <2> QED BY <1>1, <1>2, <1>4, <1>6, <2>1, <2>2 DEF s
<1>7. CASE v.trail = 1 /\ v.from = 20
  <2>1. (x * 1) \div 1000 \in Int /\ 1000 * ((x * 1) \div 1000) <= x * 1
    BY <1>3 DEF x
  <2>2. t.rate > 1020 => t.rate - (x * 1) \div 1000 > 1000
    BY <1>3, <2>1 DEF x
  <2> QED BY <1>1, <1>2, <1>4, <1>7, <2>1, <2>2 DEF s
<1> QED BY <1>2, <1>5, <1>6, <1>7

\* What says enter on one side of the two-sided strategy is an exit of the other.
LEMMA SignalSides ==
  ASSUME NEW c \in SignalCandles
  PROVE  /\ SG!Entry(SG!LongShort, c) \in {"none", "long", "short"}
         /\ SG!Entry(SG!LongShort, c) = "short" => "long" \in SG!Exits(SG!LongShort, c)
         /\ SG!Entry(SG!LongShort, c) = "long" => "short" \in SG!Exits(SG!LongShort, c)
<1> DEFINE v == SG!LongShort
<1>1. v.name = "LongShort"
  BY LongShortValues
<1>2. /\ SG!Enters(v, c) = {side \in {"long", "short"} : IF side = "long" THEN SG!LongSide(v, c) ELSE SG!ShortSide(v, c)}
      /\ SG!Exits(v, c) = {side \in {"long", "short"} : IF side = "long" THEN SG!V5Exits(v, c) ELSE SG!ShortExits(v, c)}
  BY <1>1 DEF SG!Enters, SG!Exits
<1> HIDE DEF v
<1>3. SG!Entry(v, c) = "short" => SG!ShortSide(v, c)
  <2>1. SG!Entry(v, c) = "short" => SG!Enters(v, c) = {"short"}
    BY DEF SG!Entry
  <2>2. "short" \in SG!Enters(v, c) => SG!ShortSide(v, c)
    BY <1>2
  <2> QED BY <2>1, <2>2
<1>4. SG!Entry(v, c) = "long" => SG!LongSide(v, c)
  <2>1. SG!Entry(v, c) = "long" => SG!Enters(v, c) = {"long"}
    BY DEF SG!Entry
  <2>2. "long" \in SG!Enters(v, c) => SG!LongSide(v, c)
    BY <1>2
  <2> QED BY <2>1, <2>2
<1>5. SG!ShortSide(v, c) => SG!V5Exits(v, c)
  BY DEF SG!ShortSide, SG!V5Exits
<1>6. SG!LongSide(v, c) => SG!ShortExits(v, c)
  BY DEF SG!LongSide, SG!ShortExits
<1>7. SG!Entry(v, c) \in {"none", "long", "short"}
  BY DEF SG!Entry
<1> QED BY <1>2, <1>3, <1>4, <1>5, <1>6, <1>7 DEF v

\* ShortIsMirrored.
LEMMA SignalMirror ==
  ASSUME variant \in SignalVariants, candle \in SignalCandles
  PROVE  SG!ShortIsMirrored
<1> SUFFICES ASSUME variant.name = "LongShort", candle.sell > variant.high,
                    SG!Mirrored(candle).buy < variant.low
             PROVE  SG!ShortSide(variant, candle) <=> SG!LongSide(variant, SG!Mirrored(candle))
  BY DEF SG!ShortIsMirrored, SG!Is
<1>1. variant = SG!LongShort
  BY SignalVariantValues DEF SignalVariants
<1>2. candle \in SignalCandle
  BY SignalValues
<1> DEFINE m == SG!Mirrored(candle)
<1>3. m.ewo = -candle.ewo /\ m.rsi = 1000 - candle.rsi
  BY <1>2 DEF SignalCandle, SG!Mirrored
<1>4. candle.ewo \in Int /\ candle.rsi \in Int
  BY <1>2 DEF SignalCandle
<1> HIDE DEF m
<1>5. SG!LongSide(variant, m) <=> (m.ewo > variant.ewo /\ m.rsi < variant.rsi) \/ m.ewo < variant.ewoLow
  BY DEF SG!LongSide, m
<1>6. SG!ShortSide(variant, candle) <=>
        (candle.ewo < -variant.ewo /\ candle.rsi > 1000 - variant.rsi) \/ candle.ewo > -variant.ewoLow
  BY DEF SG!ShortSide
<1>7. variant.ewo = 3340 /\ variant.ewoLow = -17457 /\ variant.rsi = 650
  BY <1>1, LongShortValues
<1>8. /\ m.ewo > 3340 <=> candle.ewo < -3340
      /\ m.rsi < 650 <=> candle.rsi > 1000 - 650
      /\ m.ewo < -17457 <=> candle.ewo > -(-17457)
  BY <1>3, <1>4
<1> QED BY <1>5, <1>6, <1>7, <1>8 DEF m

SignalExits == {"signal", "stop_loss", "roi", "trailing_stop_loss"}

\* No exit is refused: one goes through as soon as one is due.
LEMMA SignalAsk ==
  ASSUME NEW t, NEW c
  PROVE  /\ SG!F!Ask(t, c).done \in SignalExits \cup {"none"}
         /\ SG!F!Ask(t, c).done = "none" =>
              /\ ~SG!Leaves(variant, t, c)
              /\ ~(t.rate - 1000 > SG!Roi(variant, t.age) /\ ~SG!IgnoreRoi(variant, t, c))
         /\ SG!F!Ask(t, c).done = "signal" => SG!Leaves(variant, t, c)
<1> DEFINE stopped == t.rate <= t.stop
           paid == SG!F!Profit(t) > SG!Roi(variant, t.age) /\ ~SG!IgnoreRoi(variant, t, c)
           none == [memory |-> memory, asked |-> <<>>, done |-> "none"]
           sig == SG!F!Signal(t, c)
           d1 == sig # "none"
           d2 == stopped /\ t.stop = SG!Stop0(variant)
           d4 == stopped /\ t.stop # SG!Stop0(variant)
           a1 == SG!F!Put(none, d1, sig, t, c)
           a2 == SG!F!Put(a1, d2, "stop_loss", t, c)
           a3 == SG!F!Put(a2, paid, "roi", t, c)
           a4 == SG!F!Put(a3, d4, "trailing_stop_loss", t, c)
<1>1. SG!F!Ask(t, c) = a4
  BY DEF SG!F!Ask
<1>2. /\ SG!Leaves(variant, t, c) => sig = "signal"
      /\ ~SG!Leaves(variant, t, c) => sig = "none"
  BY DEF SG!F!Signal, SG!NoCustomSell
<1>3. none.done = "none"
  OBVIOUS
<1> HIDE DEF stopped, none, d2, d4, sig
<1>4. /\ SG!Leaves(variant, t, c) => a1.done = "signal"
      /\ ~SG!Leaves(variant, t, c) => a1.done = "none"
  <2>1. d1 => a1.done = sig
    BY <1>3 DEF SG!F!Put, SG!Granted
  <2>2. ~d1 => a1 = none
    BY DEF SG!F!Put
  <2> HIDE DEF a1
  <2> QED BY <1>2, <1>3, <2>1, <2>2
<1> HIDE DEF a1, d1
<1>5. a2 = a1 \/ (a1.done = "none" /\ a2.done = "stop_loss")
  BY DEF SG!F!Put, SG!Granted
<1> HIDE DEF a2
<1>6. /\ a3 = a2 \/ (a2.done = "none" /\ a3.done = "roi")
      /\ paid => a3.done # "none"
  BY DEF SG!F!Put, SG!Granted
<1> HIDE DEF a3, paid
<1>7. a4 = a3 \/ (a3.done = "none" /\ a4.done = "trailing_stop_loss")
  BY DEF SG!F!Put, SG!Granted
<1> HIDE DEF a4
<1>8. a4.done \in SignalExits \cup {"none"}
  BY <1>4, <1>5, <1>6, <1>7 DEF SignalExits
<1>9. a4.done = "none" => ~SG!Leaves(variant, t, c) /\ ~paid
  BY <1>4, <1>5, <1>6, <1>7
<1>10. a4.done = "signal" => SG!Leaves(variant, t, c)
  BY <1>4, <1>5, <1>6, <1>7
<1> QED BY <1>1, <1>8, <1>9, <1>10 DEF paid, SG!F!Profit

SignalTrades ==
  [tag : {"long", "short"}, rate : Nat \ {0}, peak : Nat, stop : Int, age : Nat]

LEMMA SignalIsTrade == ASSUME NEW t \in SignalTrades PROVE t # <<>>
<1>1. "tag" \in DOMAIN t
  BY DEF SignalTrades
<1>2. Len(<<>>) = 0 /\ DOMAIN <<>> = 1..Len(<<>>)
  OBVIOUS
<1>3. \A x : x \notin DOMAIN <<>>
  BY <1>2
<1> QED BY <1>1, <1>3

SignalInv ==
  which = "signals" =>
    /\ variant \in SignalVariants /\ candle \in SignalCandles
    /\ trade = <<>> \/ trade \in SignalTrades
    /\ outcome.done # "none" => trade # <<>>
    /\ SG!NeverAgainstASignal /\ SG!TrailedTradesWin /\ SG!V8LeavesInTime /\ SG!AgeTakesProfit

LEMMA SignalInit == Init => SignalInv
<1> SUFFICES ASSUME Init, which = "signals" PROVE SignalInv
  BY DEF SignalInv
<1>1. SG!Init
  BY DEF Init
<1>2. /\ variant \in SignalVariants /\ candle \in SignalCandles /\ trade = <<>>
      /\ outcome = [asked |-> <<>>, done |-> "none"]
  BY <1>1 DEF SG!Init, SG!F!Init, SG!F!NoExit, SignalVariants
<1> QED BY <1>2 DEF SignalInv, SG!NeverAgainstASignal, SG!TrailedTradesWin, SG!V8LeavesInTime,
             SG!AgeTakesProfit, SG!Standing

\* What an answer says of the trade it was asked for.
LEMMA SignalAnswer ==
  ASSUME variant \in SignalVariants, NEW t \in SignalTrades, NEW c \in SignalCandles
  PROVE  LET done == SG!F!Ask(t, c).done
         IN  /\ variant.name = "LongShort" /\ done = "none" => SG!Entry(variant, c) \in {"none", t.tag}
             /\ variant.name = "V8" /\ done = "none" => t.age < 200
             /\ variant.name = "V8" /\ done = "signal" => t.rate > 1010
             /\ done = "none" /\ t.age >= 201 /\ SG!Entry(variant, c) # t.tag => t.rate <= 1030
<1> DEFINE done == SG!F!Ask(t, c).done
<1>1. /\ done = "none" => ~SG!Leaves(variant, t, c)
      /\ done = "none" => ~(t.rate - 1000 > SG!Roi(variant, t.age) /\ ~SG!IgnoreRoi(variant, t, c))
      /\ done = "signal" => SG!Leaves(variant, t, c)
  BY SignalAsk
<1> HIDE DEF done
<1>2. t.tag \in {"long", "short"} /\ t.rate \in Nat \ {0} /\ t.age \in Nat
  BY DEF SignalTrades
<1>3. variant.name = "LongShort" /\ done = "none" => SG!Entry(variant, c) \in {"none", t.tag}
  <2> SUFFICES ASSUME variant.name = "LongShort", ~SG!Leaves(variant, t, c)
               PROVE  SG!Entry(variant, c) \in {"none", t.tag}
    BY <1>1
  <2>1. variant = SG!LongShort
    BY SignalVariantValues DEF SignalVariants
  <2>2. SG!ProfitOnly(variant, t)
    BY DEF SG!ProfitOnly
  <2>3. t.tag \notin SG!Exits(variant, c) \/ SG!Entry(variant, c) = t.tag
    BY <2>2 DEF SG!Leaves
  <2> QED BY <1>2, <2>1, <2>3, SignalSides
<1>4. variant.name = "V8" /\ done = "none" => t.age < 200
  <2> SUFFICES ASSUME variant.name = "V8", done = "none", t.age >= 200 PROVE FALSE
    BY <1>2
  <2>1. SG!Roi(variant, t.age) = -1000
    BY <1>2, SignalRoi
  <2>2. variant = SG!V8
    BY SignalVariantValues, LongShortValues DEF SignalVariants
  <2>3. ~SG!IgnoreRoi(variant, t, c)
    BY <2>2, SignalVariantValues DEF SG!IgnoreRoi
  <2> QED BY <1>1, <1>2, <2>1, <2>3
<1>5. variant.name = "V8" /\ done = "signal" => t.rate > 1010
  <2>1. variant.name = "V8" /\ SG!Leaves(variant, t, c) => t.rate - 1000 > 10
    BY DEF SG!Leaves, SG!ProfitOnly
  <2> QED BY <1>1, <1>2, <2>1
<1>6. done = "none" /\ t.age >= 201 /\ SG!Entry(variant, c) # t.tag => t.rate <= 1030
  <2> SUFFICES ASSUME done = "none", t.age >= 201, SG!Entry(variant, c) # t.tag PROVE t.rate <= 1030
    OBVIOUS
  <2>1. ~SG!IgnoreRoi(variant, t, c)
    BY DEF SG!IgnoreRoi
  <2>2. SG!Roi(variant, t.age) <= 30 /\ SG!Roi(variant, t.age) \in Int
    BY <1>2, SignalRoi
  <2> QED BY <1>1, <1>2, <2>1, <2>2
<1> QED BY <1>3, <1>4, <1>5, <1>6 DEF done

LEMMA SignalTick ==
  ASSUME which = "signals", SignalInv, NEW rate \in SignalRates, NEW c \in SignalCandles,
         NEW age \in SignalAges, SG!F!Tick(rate, c, age), which' = which
  PROVE  SignalInv'
<1> DEFINE seen == [trade EXCEPT !.rate = rate, !.peak = SG!F!Larger(@, rate), !.age = age]
           t == [seen EXCEPT !.stop = SG!F!Larger(@, SG!StopFor(variant, seen))]
           answer == SG!F!Ask(t, c)
<1>1. /\ trade # <<>> /\ outcome.done = "none" /\ trade' = t /\ candle' = c
      /\ outcome' = [asked |-> answer.asked, done |-> answer.done]
      /\ variant' = variant
  BY DEF SG!F!Tick
<1>2. trade \in SignalTrades /\ variant \in SignalVariants
  BY <1>1 DEF SignalInv
<1>3. rate \in Nat \ {0} /\ age \in Nat
  BY SignalValues
<1>4. seen \in SignalTrades /\ seen.rate = rate /\ seen.stop = trade.stop
      /\ seen.peak = SG!F!Larger(trade.peak, rate)
  BY <1>2, <1>3 DEF SignalTrades, SG!F!Larger
<1> HIDE DEF seen
<1> DEFINE ask == SG!StopFor(variant, seen)
<1>5. /\ ask \in Int
      /\ variant.name # "StatArb" => variant.from \in Nat /\ (rate > 1000 + variant.from => ask > 1000)
  BY <1>2, <1>3, <1>4, SignalStopFor
<1> HIDE DEF ask
<1>6. t \in SignalTrades /\ t.peak = SG!F!Larger(trade.peak, rate)
      /\ t.stop = SG!F!Larger(trade.stop, ask)
  BY <1>4, <1>5 DEF SignalTrades, SG!F!Larger, ask
<1>7. variant.name # "StatArb" /\ t.peak > 1000 + variant.from => t.stop > 1000
  <2>1. variant.name # "StatArb" /\ trade.peak > 1000 + variant.from => trade.stop > 1000
    BY <1>1 DEF SignalInv, SG!TrailedTradesWin, SG!Is
  <2>2. trade.peak \in Nat /\ trade.stop \in Int
    BY <1>2 DEF SignalTrades
  <2> HIDE DEF t
  <2> QED BY <1>3, <1>5, <1>6, <2>1, <2>2 DEF SG!F!Larger
<1> HIDE DEF t
<1>8. LET done == answer.done
      IN  /\ variant.name = "LongShort" /\ done = "none" => SG!Entry(variant, c) \in {"none", t.tag}
          /\ variant.name = "V8" /\ done = "none" => t.age < 200
          /\ variant.name = "V8" /\ done = "signal" => t.rate > 1010
          /\ done = "none" /\ t.age >= 201 /\ SG!Entry(variant, c) # t.tag => t.rate <= 1030
  BY <1>2, <1>6, SignalAnswer
<1> HIDE DEF answer
<1>9. outcome'.done = answer.done /\ trade' # <<>>
  BY <1>1, <1>6, SignalIsTrade
<1>10. SG!NeverAgainstASignal'
  BY <1>1, <1>8, <1>9 DEF SG!NeverAgainstASignal, SG!Is, SG!Standing, SG!Entry
<1>11. SG!TrailedTradesWin'
  BY <1>1, <1>7 DEF SG!TrailedTradesWin, SG!Is
<1>12. SG!V8LeavesInTime'
  BY <1>1, <1>8, <1>9 DEF SG!V8LeavesInTime, SG!Is, SG!Standing
<1>13. SG!AgeTakesProfit'
  BY <1>1, <1>8, <1>9 DEF SG!AgeTakesProfit, SG!Standing
<1> QED BY <1>1, <1>2, <1>6, <1>9, <1>10, <1>11, <1>12, <1>13 DEF SignalInv

LEMMA SignalOpen ==
  ASSUME which = "signals", SignalInv, SG!F!Open, which' = which
  PROVE  SignalInv'
<1> DEFINE t == [tag |-> SG!Entry(variant, candle), rate |-> 1000, peak |-> 1000,
                 stop |-> SG!Stop0(variant), age |-> 0]
<1>1. /\ trade = <<>> /\ SG!Entry(variant, candle) # "none" /\ trade' = t
      /\ outcome' = [asked |-> <<>>, done |-> "none"]
      /\ UNCHANGED <<variant, candle>>
  BY DEF SG!F!Open, SG!F!NoExit
<1>2. SG!Entry(variant, candle) \in {"none", "long", "short"}
  BY DEF SG!Entry
<1>3. variant \in SignalVariants /\ candle \in SignalCandles
  BY DEF SignalInv
<1>4. SG!Stop0(variant) \in Int /\ (variant.name # "StatArb" => variant.from \in Nat)
  BY <1>3, SignalVariantValues, LongShortValues DEF SG!Stop0, SignalVariants
<1>5. /\ t \in SignalTrades /\ t.tag = SG!Entry(variant, candle)
      /\ t.rate = 1000 /\ t.peak = 1000 /\ t.age = 0
  BY <1>1, <1>2, <1>4 DEF SignalTrades
<1> HIDE DEF t
<1>6. outcome'.done = "none" /\ trade' # <<>>
  BY <1>1, <1>5, SignalIsTrade
<1>7. SG!NeverAgainstASignal'
  BY <1>1, <1>5 DEF SG!NeverAgainstASignal, SG!Entry
<1>8. SG!TrailedTradesWin' /\ SG!V8LeavesInTime' /\ SG!AgeTakesProfit'
  BY <1>1, <1>4, <1>5, <1>6
     DEF SG!TrailedTradesWin, SG!V8LeavesInTime, SG!AgeTakesProfit, SG!Is, SG!Standing
<1> QED BY <1>1, <1>3, <1>5, <1>6, <1>7, <1>8 DEF SignalInv

LEMMA SignalStep == SignalInv /\ [Next]_vars => SignalInv'
<1> SUFFICES ASSUME SignalInv, [Next]_vars PROVE SignalInv'
  OBVIOUS
<1>1. which' = which
  BY DEF Next, vars
<1>2. CASE which # "signals"
  BY <1>1, <1>2 DEF SignalInv
<1>3. CASE which = "signals" /\ UNCHANGED loop
  <2>1. UNCHANGED <<variant, trade, candle, memory, outcome>>
    BY <1>3 DEF loop
  <2>2. SG!NeverAgainstASignal' /\ SG!TrailedTradesWin' /\ SG!V8LeavesInTime' /\ SG!AgeTakesProfit'
    BY <1>3, <2>1 DEF SignalInv, SG!NeverAgainstASignal, SG!TrailedTradesWin, SG!V8LeavesInTime,
         SG!AgeTakesProfit, SG!Standing, SG!Is
  <2> QED BY <1>1, <1>3, <2>1, <2>2 DEF SignalInv
<1>4. CASE which = "signals" /\ SG!Next
  <2>1. CASE SG!F!Open
    BY <1>1, <1>4, <2>1, SignalOpen
  <2>2. CASE trade' = <<>> /\ outcome'.done = "none" /\ variant' = variant /\ candle' \in SignalCandles
    <3>1. SG!NeverAgainstASignal' /\ SG!TrailedTradesWin' /\ SG!V8LeavesInTime' /\ SG!AgeTakesProfit'
      BY <2>2 DEF SG!NeverAgainstASignal, SG!TrailedTradesWin, SG!V8LeavesInTime,
           SG!AgeTakesProfit, SG!Standing
    <3> QED BY <1>1, <1>4, <2>2, <3>1 DEF SignalInv
  <2>3. CASE SG!F!Wait
    <3>1. trade = <<>> /\ candle' \in SignalCandles /\ UNCHANGED <<variant, trade, outcome>>
      BY <2>3 DEF SG!F!Wait
    <3>2. outcome.done = "none"
      BY <1>4, <3>1 DEF SignalInv
    <3> QED BY <2>2, <3>1, <3>2
  <2>4. CASE SG!F!Close
    <3>1. /\ trade' = <<>> /\ outcome' = [asked |-> <<>>, done |-> "none"]
          /\ UNCHANGED <<variant, candle>>
      BY <2>4 DEF SG!F!Close, SG!F!NoExit
    <3>2. outcome'.done = "none" /\ candle \in SignalCandles
      BY <1>4, <3>1 DEF SignalInv
    <3> QED BY <2>2, <3>1, <3>2
  <2>5. ASSUME NEW rate \in SignalRates, NEW c \in SignalCandles, NEW age \in SignalAges,
               SG!F!Tick(rate, c, age)
        PROVE  SignalInv'
    BY <1>1, <1>4, <2>5, SignalTick
  <2> QED BY <1>4, <2>1, <2>3, <2>4, <2>5 DEF SG!Next, SG!F!Next
<1> QED BY <1>2, <1>3, <1>4 DEF Next, vars, loop

LEMMA SignalAlways == Spec => []SignalInv
BY SignalInit, SignalStep, PTL DEF Spec

----------------------------------------------------------------------------
\* NFI5MOHO_WIP

LEMMA Nfi5Values == Nfi5Rates \subseteq Nat \ {0} /\ Nfi5Ages \subseteq Nat
BY ReplayAssumption DEF N5!Nfi5Assumption

\* The custom exits take a profit, but for the one just below the average.
LEMMA Nfi5CustomSells ==
  ASSUME NEW p \in Int, NEW peak \in Int, NEW c
  PROVE  \A r \in N5!CustomSells(p, peak, c) :
           /\ r.at \in 1..15 /\ r.tag # "none"
           /\ p > 0 \/ r.tag = "signal_stoploss_u_1"
<1> DEFINE Fine(r) == r.at \in 1..15 /\ r.tag # "none" /\ (p > 0 \/ r.tag = "signal_stoploss_u_1")
<1>1. \A r \in N5!Tiers : p > r.over => Fine(r)
  BY DEF N5!Tiers, N5!Weak
<1>2. \A r \in N5!UnderTiers : p > r.over => Fine(r)
  BY DEF N5!UnderTiers, N5!Weak
<1>3. p > 50 => Fine(N5!Other(9, "signal_profit_d_1"))
  BY DEF N5!Other
<1>4. p > 70 => Fine(N5!Other(10, "signal_profit_d_2"))
  BY DEF N5!Other
<1>5. \A r \in N5!Trails : N5!TrailedBy(p, peak, r) => Fine(r)
  BY DEF N5!Trails, N5!Descent, N5!TrailedBy
<1>6. N5!TrailedBy(p, peak, N5!UnderTrail) => Fine(N5!UnderTrail)
  BY DEF N5!UnderTrail, N5!Descent, N5!TrailedBy
<1>7. N5!Edge(p, c) => Fine(N5!Other(14, "signal_profit_u_e_1"))
  BY DEF N5!Other, N5!Edge
<1>8. Fine(N5!Other(15, "signal_stoploss_u_1"))
  BY DEF N5!Other
<1> HIDE DEF Fine
<1>9. \A r \in N5!CustomSells(p, peak, c) : Fine(r)
  BY <1>1, <1>2, <1>3, <1>4, <1>5, <1>6, <1>7, <1>8 DEF N5!CustomSells
<1> QED BY <1>9 DEF Fine

\* The one asked for first is one of them.
LEMMA Nfi5CustomSell ==
  ASSUME NEW t, t.rate \in Int, t.peak \in Int, NEW c
  PROVE  /\ N5!CustomSell(t, c) # "none" /\ t.rate - 1000 <= 0 => N5!CustomSell(t, c) = "signal_stoploss_u_1"
         /\ N5!CustomSell(t, c) = "none" => N5!CustomSells(t.rate - 1000, t.peak - 1000, c) = {}
<1> DEFINE due == N5!CustomSells(t.rate - 1000, t.peak - 1000, c)
           first == CHOOSE r \in due : \A other \in due : r.at <= other.at
           S == {r.at : r \in due}
<1>1. N5!CustomSell(t, c) = IF due = {} THEN "none" ELSE first.tag
  BY DEF N5!CustomSell
<1>2. \A r \in due : /\ r.at \in 1..15 /\ r.tag # "none"
                     /\ t.rate - 1000 > 0 \/ r.tag = "signal_stoploss_u_1"
  <2>1. t.rate - 1000 \in Int /\ t.peak - 1000 \in Int
    OBVIOUS
  <2> QED BY <2>1, Nfi5CustomSells
<1> HIDE DEF due
<1>3. due # {} => first \in due
  <2> SUFFICES ASSUME due # {} PROVE first \in due
    OBVIOUS
  <2>1. S \in SUBSET (1..15) /\ S # {} /\ 15 \in Nat
    BY <1>2
  <2>2. SC!Least(S) \in S /\ \A i \in S : SC!Least(S) =< i
    <3> HIDE DEF S
    <3> QED BY <2>1, LeastExists
  <2>3. PICK r \in due : r.at = SC!Least(S)
    BY <2>2
  <2>4. \A other \in due : other.at \in S
    OBVIOUS
  <2>5. \A other \in due : r.at <= other.at
    BY <2>2, <2>3, <2>4
  <2> QED BY <2>5
<1> HIDE DEF first
<1> QED BY <1>1, <1>2, <1>3 DEF due

\* No exit is refused: one goes through as soon as one is due.
LEMMA Nfi5Ask ==
  ASSUME NEW t, NEW c, t.stop = N5!Stop0(variant)
  PROVE  LET done == N5!F!Ask(t, c).done
         IN  /\ done = "none" => /\ ~N5!Leaves(variant, t, c) /\ N5!CustomSell(t, c) = "none"
             /\ \/ done \in {"none", "signal", "stop_loss"}
                \/ done = "roi" /\ t.rate - 1000 > N5!Roi(variant, t.age)
                \/ done = N5!CustomSell(t, c) /\ done # "none"
<1> DEFINE stopped == t.rate <= t.stop
           paid == N5!F!Profit(t) > N5!Roi(variant, t.age) /\ ~N5!IgnoreRoi(variant, t, c)
           none == [memory |-> memory, asked |-> <<>>, done |-> "none"]
           sig == N5!F!Signal(t, c)
           d1 == sig # "none"
           d2 == stopped /\ t.stop = N5!Stop0(variant)
           d4 == stopped /\ t.stop # N5!Stop0(variant)
           a1 == N5!F!Put(none, d1, sig, t, c)
           a2 == N5!F!Put(a1, d2, "stop_loss", t, c)
           a3 == N5!F!Put(a2, paid, "roi", t, c)
           a4 == N5!F!Put(a3, d4, "trailing_stop_loss", t, c)
<1>1. N5!F!Ask(t, c) = a4
  BY DEF N5!F!Ask
<1>2. /\ N5!Leaves(variant, t, c) => sig = "signal"
      /\ ~N5!Leaves(variant, t, c) => sig = N5!CustomSell(t, c)
  BY DEF N5!F!Signal
<1>3. none.done = "none"
  OBVIOUS
<1> HIDE DEF stopped, none, d2, sig
<1>4. a1.done = sig
  <2>1. d1 => a1.done = sig
    BY <1>3 DEF N5!F!Put, N5!Granted
  <2>2. ~d1 => a1 = none
    BY DEF N5!F!Put
  <2> HIDE DEF a1
  <2> QED BY <1>2, <1>3, <2>1, <2>2
<1> HIDE DEF a1, d1
<1>5. a2 = a1 \/ (a1.done = "none" /\ a2.done = "stop_loss")
  BY DEF N5!F!Put, N5!Granted
<1> HIDE DEF a2
<1>6. a3 = a2 \/ (a2.done = "none" /\ a3.done = "roi" /\ paid)
  BY DEF N5!F!Put, N5!Granted
<1> HIDE DEF a3, paid
<1>7. a4 = a3
  BY DEF N5!F!Put
<1> HIDE DEF a4, d4
<1>8. a4.done = "none" => ~N5!Leaves(variant, t, c) /\ N5!CustomSell(t, c) = "none"
  BY <1>2, <1>4, <1>5, <1>6, <1>7
<1>9. \/ a4.done \in {"none", "signal", "stop_loss"}
      \/ a4.done = "roi" /\ paid
      \/ a4.done = N5!CustomSell(t, c) /\ a4.done # "none"
  BY <1>2, <1>4, <1>5, <1>6, <1>7
<1> QED BY <1>1, <1>8, <1>9 DEF paid, N5!F!Profit

Nfi5Trades ==
  [tag : {"buy"}, rate : Nat \ {0}, peak : Nat, stop : {10}, age : Nat]

Nfi5Inv ==
  which = "nfi5" =>
    /\ trade = <<>> \/ trade \in Nfi5Trades
    /\ N5!PeakIsGuarded /\ N5!LossesAreMeant

LEMMA Nfi5Init == Init => Nfi5Inv
<1> SUFFICES ASSUME Init, which = "nfi5" PROVE Nfi5Inv
  BY DEF Nfi5Inv
<1>1. N5!Init
  BY DEF Init
<1>2. trade = <<>> /\ outcome.done = "none"
  BY <1>1 DEF N5!Init, N5!F!Init, N5!F!NoExit
<1> QED BY <1>2 DEF Nfi5Inv, N5!PeakIsGuarded, N5!LossesAreMeant, N5!Standing

LEMMA Nfi5Tick ==
  ASSUME which = "nfi5", Nfi5Inv, NEW rate \in Nfi5Rates, NEW c \in Nfi5Candles,
         NEW age \in Nfi5Ages, N5!F!Tick(rate, c, age), which' = which
  PROVE  Nfi5Inv'
<1> DEFINE seen == [trade EXCEPT !.rate = rate, !.peak = N5!F!Larger(@, rate), !.age = age]
           t == [seen EXCEPT !.stop = N5!F!Larger(@, N5!NoTrail(variant, seen))]
           answer == N5!F!Ask(t, c)
<1>1. /\ trade # <<>> /\ trade' = t
      /\ outcome' = [asked |-> answer.asked, done |-> answer.done]
  BY DEF N5!F!Tick
<1>2. trade \in Nfi5Trades /\ rate \in Nat \ {0} /\ age \in Nat
  BY <1>1, Nfi5Values DEF Nfi5Inv
<1>3. seen \in Nfi5Trades
  BY <1>2 DEF Nfi5Trades, N5!F!Larger
<1> HIDE DEF seen
<1>4. t \in Nfi5Trades
  BY <1>3 DEF Nfi5Trades, N5!F!Larger, N5!NoTrail, N5!Stop0
<1> HIDE DEF t
<1> DEFINE p == t.rate - 1000
           peak == t.peak - 1000
<1>5. p \in Int /\ peak \in Int /\ t.rate \in Int /\ t.peak \in Int /\ t.stop = N5!Stop0(variant) /\ t.age \in Nat
  BY <1>4 DEF Nfi5Trades, N5!Stop0
<1>6. /\ answer.done = "none" => N5!CustomSell(t, c) = "none"
      /\ \/ answer.done \in {"none", "signal", "stop_loss"}
         \/ answer.done = "roi" /\ p > N5!Roi(variant, t.age)
         \/ answer.done = N5!CustomSell(t, c) /\ answer.done # "none"
  BY <1>5, Nfi5Ask
<1> HIDE DEF answer
<1>7. outcome'.done = answer.done
  BY <1>1
<1>8. answer.done = "none" =>
        /\ p > 10 /\ p < 120 => peak <= p + 140
        /\ p > 150 /\ p < 460 => peak <= p + 180
  <2> SUFFICES ASSUME answer.done = "none"
               PROVE  /\ p > 10 /\ p < 120 => peak <= p + 140
                      /\ p > 150 /\ p < 460 => peak <= p + 180
    OBVIOUS
  <2>1. N5!CustomSells(p, peak, c) = {}
    BY <1>5, <1>6, Nfi5CustomSell
  <2>2. \A r \in N5!Trails : ~N5!TrailedBy(p, peak, r)
    BY <2>1 DEF N5!CustomSells
  <2>3. /\ ~N5!TrailedBy(p, peak, N5!Descent(11, "signal_profit_t_1", 150, 460, 180))
        /\ ~N5!TrailedBy(p, peak, N5!Descent(12, "signal_profit_t_2", 10, 120, 140))
    BY <2>2 DEF N5!Trails
  <2> HIDE DEF p, peak
  <2> QED BY <1>5, <2>3 DEF N5!TrailedBy, N5!Descent
<1>9. answer.done \notin {"none", "signal", "signal_stoploss_u_1", "stop_loss"} => p > 0
  <2> SUFFICES ASSUME answer.done \notin {"none", "signal", "signal_stoploss_u_1", "stop_loss"}, p <= 0
               PROVE  FALSE
    BY <1>5
  <2>1. CASE answer.done = "roi" /\ p > N5!Roi(variant, t.age)
    <3>1. N5!Roi(variant, t.age) \in {10, 15, 48, 111}
      BY DEF N5!Roi
    <3> QED BY <1>5, <2>1, <3>1
  <2>2. CASE answer.done = N5!CustomSell(t, c) /\ answer.done # "none"
    BY <1>5, <2>2, Nfi5CustomSell
  <2> QED BY <1>6, <2>1, <2>2
<1>10. N5!PeakIsGuarded'
  BY <1>1, <1>7, <1>8 DEF N5!PeakIsGuarded, N5!Standing, N5!Now, N5!Peak, N5!F!Profit
<1>11. N5!LossesAreMeant'
  BY <1>1, <1>7, <1>9 DEF N5!LossesAreMeant, N5!Now, N5!F!Profit
<1> QED BY <1>1, <1>4, <1>10, <1>11 DEF Nfi5Inv

LEMMA Nfi5Step == Nfi5Inv /\ [Next]_vars => Nfi5Inv'
<1> SUFFICES ASSUME Nfi5Inv, [Next]_vars PROVE Nfi5Inv'
  OBVIOUS
<1>1. which' = which
  BY DEF Next, vars
<1>2. CASE which # "nfi5"
  BY <1>1, <1>2 DEF Nfi5Inv
<1>3. ASSUME which = "nfi5", UNCHANGED <<trade, outcome>> PROVE Nfi5Inv'
  BY <1>1, <1>3 DEF Nfi5Inv, N5!PeakIsGuarded, N5!LossesAreMeant, N5!Standing, N5!Now, N5!Peak, N5!F!Profit
<1>4. CASE which = "nfi5" /\ N5!Next
  <2>1. CASE N5!F!Open
    <3> DEFINE t == [tag |-> N5!Entry(variant, candle), rate |-> 1000, peak |-> 1000,
                     stop |-> N5!Stop0(variant), age |-> 0]
    <3>1. N5!Entry(variant, candle) # "none" /\ trade' = t /\ outcome'.done = "none"
      BY <2>1 DEF N5!F!Open, N5!F!NoExit
    <3>2. N5!Entry(variant, candle) = "buy"
      BY <3>1 DEF N5!Entry
    <3>3. t \in Nfi5Trades /\ t.age = 0
      BY <3>2 DEF Nfi5Trades, N5!Stop0
    <3> HIDE DEF t
    <3>4. N5!PeakIsGuarded' /\ N5!LossesAreMeant'
      BY <3>1, <3>3 DEF N5!PeakIsGuarded, N5!LossesAreMeant, N5!Standing
    <3> QED BY <3>1, <3>3, <3>4 DEF Nfi5Inv
  <2>2. CASE N5!F!Wait
    BY <1>3, <1>4, <2>2 DEF N5!F!Wait
  <2>3. CASE N5!F!Close
    <3>1. trade' = <<>> /\ outcome'.done = "none"
      BY <2>3 DEF N5!F!Close, N5!F!NoExit
    <3> QED BY <3>1 DEF Nfi5Inv, N5!PeakIsGuarded, N5!LossesAreMeant, N5!Standing
  <2>4. ASSUME NEW rate \in Nfi5Rates, NEW c \in Nfi5Candles, NEW age \in Nfi5Ages,
               N5!F!Tick(rate, c, age)
        PROVE  Nfi5Inv'
    BY <1>1, <1>4, <2>4, Nfi5Tick
  <2> QED BY <1>4, <2>1, <2>2, <2>3, <2>4 DEF N5!Next, N5!F!Next
<1>5. CASE UNCHANGED loop
  BY <1>2, <1>3, <1>5 DEF loop
<1> QED BY <1>2, <1>4, <1>5 DEF Next, vars, loop

LEMMA Nfi5Always == Spec => []Nfi5Inv
BY Nfi5Init, Nfi5Step, PTL DEF Spec

----------------------------------------------------------------------------
\* ArcaneLiM2

LEMMA ArcaneValues == ArcaneRates \subseteq Nat \ {0} /\ ArcaneAges \subseteq Nat
BY ReplayAssumption DEF AR!ArcaneAssumption

\* Every row of the table asks for a percent or more.
LEMMA ArcaneRoi ==
  ASSUME NEW v, NEW age \in Nat
  PROVE  AR!Roi(v, age) \in Int /\ AR!Roi(v, age) >= 10
<1> DEFINE old == {row \in AR!RoiTable : age >= row[1]}
           row == CHOOSE r \in old : \A other \in old : other[1] <= r[1]
<1>1. AR!Roi(v, age) = row[2]
  BY DEF AR!Roi
<1>2. \E r \in old : \A other \in old : other[1] <= r[1]
  <2>1. ASSUME age < 60 PROVE old = {<<0, 125>>}
    BY <2>1 DEF AR!RoiTable
  <2>2. ASSUME age >= 60, age < 120 PROVE old = {<<0, 125>>, <<60, 100>>}
    BY <2>2 DEF AR!RoiTable
  <2>3. ASSUME age >= 120, age < 180 PROVE old = {<<0, 125>>, <<60, 100>>, <<120, 75>>}
    BY <2>3 DEF AR!RoiTable
  <2>4. ASSUME age >= 180, age < 240
        PROVE  old = {<<0, 125>>, <<60, 100>>, <<120, 75>>, <<180, 50>>}
    BY <2>4 DEF AR!RoiTable
  <2>5. ASSUME age >= 240, age < 320
        PROVE  old = {<<0, 125>>, <<60, 100>>, <<120, 75>>, <<180, 50>>, <<240, 25>>}
    BY <2>5 DEF AR!RoiTable
  <2>6. ASSUME age >= 320
        PROVE  old = {<<0, 125>>, <<60, 100>>, <<120, 75>>, <<180, 50>>, <<240, 25>>, <<320, 10>>}
    BY <2>6 DEF AR!RoiTable
  <2> HIDE DEF old
  <2>7. CASE age < 60
    <3>1. \A other \in old : other[1] <= <<0, 125>>[1]
      BY <2>1, <2>7
    <3> QED BY <2>1, <2>7, <3>1
  <2>8. CASE age >= 60 /\ age < 120
    <3>1. \A other \in old : other[1] <= <<60, 100>>[1]
      BY <2>2, <2>8
    <3> QED BY <2>2, <2>8, <3>1
  <2>9. CASE age >= 120 /\ age < 180
    <3>1. \A other \in old : other[1] <= <<120, 75>>[1]
      BY <2>3, <2>9
    <3> QED BY <2>3, <2>9, <3>1
  <2>10. CASE age >= 180 /\ age < 240
    <3>1. \A other \in old : other[1] <= <<180, 50>>[1]
      BY <2>4, <2>10
    <3> QED BY <2>4, <2>10, <3>1
  <2>11. CASE age >= 240 /\ age < 320
    <3>1. \A other \in old : other[1] <= <<240, 25>>[1]
      BY <2>5, <2>11
    <3> QED BY <2>5, <2>11, <3>1
  <2>12. CASE age >= 320
    <3>1. \A other \in old : other[1] <= <<320, 10>>[1]
      BY <2>6, <2>12
    <3> QED BY <2>6, <2>12, <3>1
  <2> QED BY <2>7, <2>8, <2>9, <2>10, <2>11, <2>12
<1>3. row \in AR!RoiTable
  BY <1>2
<1> HIDE DEF row
<1> QED BY <1>1, <1>3 DEF AR!RoiTable

\* What it says of a trade that no exit of goes through.
LEMMA ArcaneAsk ==
  ASSUME NEW t, NEW c, AR!F!Ask(t, c).done = "none"
  PROVE  /\ t.rate <= t.stop =>
              t.stop # AR!Stop0(variant) /\ ~AR!Confirm(memory, "trailing_stop_loss", t, c)
         /\ t.rate - 1000 > AR!Roi(variant, t.age) => ~AR!Confirm(memory, "roi", t, c)
<1> DEFINE stopped == t.rate <= t.stop
           paid == AR!F!Profit(t) > AR!Roi(variant, t.age) /\ ~AR!IgnoreRoi(variant, t, c)
           none == [memory |-> memory, asked |-> <<>>, done |-> "none"]
           sig == AR!F!Signal(t, c)
           d1 == sig # "none"
           d2 == stopped /\ t.stop = AR!Stop0(variant)
           d4 == stopped /\ t.stop # AR!Stop0(variant)
           a1 == AR!F!Put(none, d1, sig, t, c)
           a2 == AR!F!Put(a1, d2, "stop_loss", t, c)
           a3 == AR!F!Put(a2, paid, "roi", t, c)
           a4 == AR!F!Put(a3, d4, "trailing_stop_loss", t, c)
<1>1. AR!F!Ask(t, c) = a4
  BY DEF AR!F!Ask
<1>2. none.memory = memory
  OBVIOUS
<1> HIDE DEF stopped, none, d1, sig
<1>3. a1.memory = none.memory
  BY DEF AR!F!Put, AR!Kept
<1> HIDE DEF a1
<1>4. /\ a2.memory = a1.memory
      /\ d2 => a2.done # "none"
  BY DEF AR!F!Put, AR!Kept, AR!Confirm
<1> HIDE DEF a2
<1>5. /\ a3.memory = a2.memory
      /\ a2.done # "none" => a3.done # "none"
      /\ paid /\ a3.done = "none" => ~AR!Confirm(a2.memory, "roi", t, c)
  BY DEF AR!F!Put, AR!Kept
<1> HIDE DEF a3
<1>6. /\ a3.done # "none" => a4.done # "none"
      /\ d4 /\ a4.done = "none" => ~AR!Confirm(a3.memory, "trailing_stop_loss", t, c)
  BY DEF AR!F!Put, AR!Kept
<1> HIDE DEF a4
<1>7. a4.done = "none"
  BY <1>1
<1>8. a3.done = "none" /\ a2.done = "none" /\ a3.memory = memory /\ a2.memory = memory
  BY <1>2, <1>3, <1>4, <1>5, <1>6, <1>7
<1>9. ~d2 /\ (d4 => ~AR!Confirm(memory, "trailing_stop_loss", t, c))
  BY <1>4, <1>6, <1>7, <1>8
<1>10. paid => ~AR!Confirm(memory, "roi", t, c)
  BY <1>5, <1>8
<1>11. t.rate <= t.stop => d2 \/ d4
  BY DEF stopped
<1>12. t.rate - 1000 > AR!Roi(variant, t.age) => paid
  BY DEF AR!F!Profit, AR!IgnoreRoi
<1> HIDE DEF paid
<1>13. t.rate <= t.stop =>
         t.stop # AR!Stop0(variant) /\ ~AR!Confirm(memory, "trailing_stop_loss", t, c)
  BY <1>9, <1>11
<1> QED BY <1>10, <1>12, <1>13

\* confirm_trade_exit: what is refused.
LEMMA ArcaneRefused ==
  ASSUME NEW m, NEW t, t.rate \in Int, NEW c
  PROVE  /\ ~AR!Confirm(m, "trailing_stop_loss", t, c) => t.tag = "bull_momentum" /\ t.age < 120
         /\ ~AR!Confirm(m, "roi", t, c) => AR!Active(c) \/ t.tag = "bull_momentum"
         /\ ~AR!Confirm(m, "roi", t, c) => ~(AR!detect_market_regime(c) = "BEAR" /\ t.rate - 1000 > 50)
<1>1. ~AR!Confirm(m, "trailing_stop_loss", t, c) => AR!HeldThroughStop(t, c)
  BY DEF AR!Confirm
<1>2. ~AR!Confirm(m, "roi", t, c) => AR!HeldForTrend(c) \/ t.tag = "bull_momentum"
  BY DEF AR!Confirm
<1>3. ~AR!Confirm(m, "roi", t, c) => ~(AR!detect_market_regime(c) = "BEAR" /\ AR!BearPays(t.rate - 1000))
  BY DEF AR!Confirm
<1> QED BY <1>1, <1>2, <1>3 DEF AR!HeldThroughStop, AR!HeldForTrend, AR!BearPays

\* A trade, whatever its tag.
ArcaneTrade(t) ==
  /\ t = [tag |-> t.tag, rate |-> t.rate, peak |-> t.peak, stop |-> t.stop, age |-> t.age]
  /\ t.rate \in Nat \ {0} /\ t.peak \in Nat /\ t.stop \in Nat /\ t.age \in Nat
  /\ t.stop >= 10

ArcaneInv ==
  which = "arcane" =>
    /\ trade = <<>> \/ ArcaneTrade(trade)
    /\ outcome.done # "none" => trade # <<>>
    /\ AR!StopIsHonoured /\ AR!ProfitIsTrailed /\ AR!RoiWaitsForATrend /\ AR!BearTakesProfit

LEMMA ArcaneInit == Init => ArcaneInv
<1> SUFFICES ASSUME Init, which = "arcane" PROVE ArcaneInv
  BY DEF ArcaneInv
<1>1. AR!Init
  BY DEF Init
<1>2. trade = <<>> /\ outcome.done = "none"
  BY <1>1 DEF AR!Init, AR!F!Init, AR!F!NoExit
<1> QED BY <1>2 DEF ArcaneInv, AR!StopIsHonoured, AR!ProfitIsTrailed, AR!RoiWaitsForATrend,
             AR!BearTakesProfit, AR!Standing

LEMMA ArcaneTick ==
  ASSUME which = "arcane", ArcaneInv, NEW rate \in ArcaneRates, NEW c \in ArcaneCandles,
         NEW age \in ArcaneAges, AR!F!Tick(rate, c, age), which' = which
  PROVE  ArcaneInv'
<1> DEFINE seen == [trade EXCEPT !.rate = rate, !.peak = AR!F!Larger(@, rate), !.age = age]
           t == [seen EXCEPT !.stop = AR!F!Larger(@, AR!StopFor(variant, seen))]
           answer == AR!F!Ask(t, c)
<1>1. /\ trade # <<>> /\ trade' = t /\ candle' = c /\ variant' = variant
      /\ outcome' = [asked |-> answer.asked, done |-> answer.done]
  BY DEF AR!F!Tick
<1>2. ArcaneTrade(trade) /\ rate \in Nat \ {0} /\ age \in Nat
  BY <1>1, ArcaneValues DEF ArcaneInv
<1>3. /\ seen = [tag |-> trade.tag, rate |-> rate, peak |-> AR!F!Larger(trade.peak, rate),
                 stop |-> trade.stop, age |-> age]
  <2> DEFINE g == trade.tag
             k == trade.peak
             s == trade.stop
             r0 == trade.rate
             a0 == trade.age
  <2>1. trade = [tag |-> g, rate |-> r0, peak |-> k, stop |-> s, age |-> a0]
    BY <1>2 DEF ArcaneTrade
  <2> HIDE DEF g, k, s, r0, a0
  <2>2. seen = [[tag |-> g, rate |-> r0, peak |-> k, stop |-> s, age |-> a0]
                  EXCEPT !.rate = rate, !.peak = AR!F!Larger(@, rate), !.age = age]
    BY <2>1
  <2>3. seen = [tag |-> g, rate |-> rate, peak |-> AR!F!Larger(k, rate), stop |-> s, age |-> age]
    <3> HIDE DEF seen
    <3> QED BY <2>2
  <2> QED BY <2>3 DEF g, k, s
<1> DEFINE ask == IF rate - 1000 > 25 THEN (rate * 998) \div 1000 ELSE 10
           peak == AR!F!Larger(trade.peak, rate)
           stop1 == AR!F!Larger(trade.stop, ask)
<1>4. AR!StopFor(variant, seen) = ask
  BY <1>3 DEF AR!StopFor
<1> HIDE DEF seen
<1>5. t = [tag |-> trade.tag, rate |-> rate, peak |-> peak, stop |-> stop1, age |-> age]
  BY <1>3, <1>4
<1> HIDE DEF t
<1>6. trade.peak \in Nat /\ trade.stop \in Nat /\ trade.stop >= 10
  BY <1>2 DEF ArcaneTrade
<1>7. ask \in Nat
  BY <1>2
<1>8. peak \in Nat /\ stop1 \in Nat /\ stop1 >= 10
  BY <1>2, <1>6, <1>7 DEF AR!F!Larger
<1>9. peak > 1025 => stop1 >= (peak * 998) \div 1000
  <2>1. trade.peak > 1025 => trade.stop >= (trade.peak * 998) \div 1000
    BY <1>1 DEF ArcaneInv, AR!ProfitIsTrailed
  <2>2. CASE trade.peak >= rate
    <3>1. peak = trade.peak
      BY <2>2 DEF AR!F!Larger
    <3> QED BY <1>6, <1>7, <2>1, <3>1 DEF AR!F!Larger
  <2>3. CASE ~(trade.peak >= rate)
    <3>1. peak = rate
      BY <2>3 DEF AR!F!Larger
    <3>2. peak > 1025 => ask = (peak * 998) \div 1000
      BY <1>2, <3>1
    <3> HIDE DEF ask
    <3> QED BY <1>6, <1>7, <3>2 DEF AR!F!Larger
  <2> QED BY <2>2, <2>3
<1> HIDE DEF peak, stop1, ask
<1>10. /\ t.tag = trade.tag /\ t.rate = rate /\ t.peak = peak /\ t.stop = stop1 /\ t.age = age
  BY <1>5
<1>11. ArcaneTrade(t)
  BY <1>2, <1>5, <1>8, <1>10 DEF ArcaneTrade
<1>12. answer.done = "none" =>
         /\ t.rate <= t.stop => /\ t.tag = "bull_momentum" /\ t.age < 120
                                /\ t.stop # AR!Stop0(variant)
         /\ t.rate - 1000 > AR!Roi(variant, t.age) =>
              /\ AR!Active(c) \/ t.tag = "bull_momentum"
              /\ ~(AR!detect_market_regime(c) = "BEAR" /\ t.rate - 1000 > 50)
  <2>1. t.rate \in Int
    BY <1>2, <1>10
  <2> QED BY <2>1, ArcaneAsk, ArcaneRefused
<1> HIDE DEF answer
<1>13. outcome'.done = answer.done
  BY <1>1
<1>14. AR!StopIsHonoured'
  BY <1>1, <1>8, <1>10, <1>12, <1>13 DEF AR!StopIsHonoured, AR!Standing, AR!Stop0
<1>15. AR!ProfitIsTrailed'
  BY <1>1, <1>9, <1>10 DEF AR!ProfitIsTrailed
<1>16. AR!RoiWaitsForATrend'
  BY <1>1, <1>12, <1>13 DEF AR!RoiWaitsForATrend, AR!Standing, AR!F!Profit, AR!Roi, AR!RoiTable, AR!Active
<1>17. AR!BearTakesProfit'
  <2>1. AR!Roi(variant, t.age) \in Int /\ t.rate - 1000 \in Int
    BY <1>2, <1>10, ArcaneRoi
  <2>2. answer.done = "none" /\ AR!detect_market_regime(c) = "BEAR" /\ t.rate - 1000 > 50
          => t.rate - 1000 <= AR!Roi(variant, t.age)
    BY <1>12, <2>1
  <2> QED BY <1>1, <1>13, <2>2 DEF AR!BearTakesProfit, AR!Standing, AR!F!Profit
<1>18. trade' # <<>>
  <2>1. "tag" \in DOMAIN t
    BY <1>5
  <2>2. Len(<<>>) = 0 /\ DOMAIN <<>> = 1..Len(<<>>)
    OBVIOUS
  <2>3. \A x : x \notin DOMAIN <<>>
    BY <2>2
  <2> QED BY <1>1, <2>1, <2>3
<1> QED BY <1>1, <1>11, <1>14, <1>15, <1>16, <1>17, <1>18 DEF ArcaneInv

LEMMA ArcaneOpen ==
  ASSUME AR!F!Open
  PROVE  ArcaneInv'
<1> DEFINE t == [tag |-> AR!Entry(variant, candle), rate |-> 1000, peak |-> 1000,
                 stop |-> AR!Stop0(variant), age |-> 0]
<1>1. trade' = t /\ outcome'.done = "none" /\ variant' = variant /\ candle' = candle
  BY DEF AR!F!Open, AR!F!NoExit
<1>2. t.rate = 1000 /\ t.peak = 1000 /\ t.stop = 10 /\ t.age = 0
  BY DEF AR!Stop0
<1>3. ArcaneTrade(t)
  BY <1>2 DEF ArcaneTrade
<1> HIDE DEF t
<1>4. AR!StopIsHonoured' /\ AR!ProfitIsTrailed' /\ AR!BearTakesProfit'
  BY <1>1, <1>2 DEF AR!StopIsHonoured, AR!ProfitIsTrailed, AR!BearTakesProfit, AR!F!Profit
<1>5. AR!RoiWaitsForATrend'
  <2>1. AR!Roi(variant, 0) \in Int /\ AR!Roi(variant, 0) >= 10
    BY ArcaneRoi
  <2>2. ~(t.rate - 1000 > AR!Roi(variant, t.age))
    BY <1>2, <2>1
  <2> QED BY <1>1, <2>2 DEF AR!RoiWaitsForATrend, AR!F!Profit
<1> QED BY <1>1, <1>3, <1>4, <1>5 DEF ArcaneInv

LEMMA ArcaneStep == ArcaneInv /\ [Next]_vars => ArcaneInv'
<1> SUFFICES ASSUME ArcaneInv, [Next]_vars PROVE ArcaneInv'
  OBVIOUS
<1>1. which' = which
  BY DEF Next, vars
<1>2. CASE which # "arcane"
  BY <1>1, <1>2 DEF ArcaneInv
<1>3. CASE which = "arcane" /\ UNCHANGED loop
  <2>1. UNCHANGED <<variant, trade, candle, outcome>>
    BY <1>3 DEF loop
  <2>2. AR!StopIsHonoured' /\ AR!ProfitIsTrailed' /\ AR!RoiWaitsForATrend' /\ AR!BearTakesProfit'
    BY <1>3, <2>1 DEF ArcaneInv, AR!StopIsHonoured, AR!ProfitIsTrailed, AR!RoiWaitsForATrend,
         AR!BearTakesProfit, AR!Standing
  <2> QED BY <1>1, <1>3, <2>1, <2>2 DEF ArcaneInv
<1>4. ASSUME trade' = <<>>, outcome'.done = "none" PROVE ArcaneInv'
  BY <1>4 DEF ArcaneInv, AR!StopIsHonoured, AR!ProfitIsTrailed, AR!RoiWaitsForATrend,
       AR!BearTakesProfit, AR!Standing
<1>5. CASE which = "arcane" /\ AR!Next
  <2>1. CASE AR!F!Open
    BY <2>1, ArcaneOpen
  <2>2. CASE AR!F!Wait
    BY <1>4, <1>5, <2>2 DEF AR!F!Wait, ArcaneInv
  <2>3. CASE AR!F!Close
    BY <1>4, <2>3 DEF AR!F!Close, AR!F!NoExit
  <2>4. ASSUME NEW rate \in ArcaneRates, NEW c \in ArcaneCandles, NEW age \in ArcaneAges,
               AR!F!Tick(rate, c, age)
        PROVE  ArcaneInv'
    BY <1>1, <1>5, <2>4, ArcaneTick
  <2> QED BY <1>5, <2>1, <2>2, <2>3, <2>4 DEF AR!Next, AR!F!Next
<1> QED BY <1>2, <1>3, <1>5 DEF Next, vars, loop

LEMMA ArcaneAlways == Spec => []ArcaneInv
BY ArcaneInit, ArcaneStep, PTL DEF Spec

----------------------------------------------------------------------------
\* The entries of NFI5MOHO_WIP and of ArcaneLiM2

LEMMA Nfi5CandleValues ==
  ASSUME NEW c \in Nfi5Candles
  PROVE  /\ \A w \in {1, 2, 12, 144} : c.fall[w] \in Int
         /\ \A w \in {24, 36, 48} : c.rise[w] \in Int /\ c.now[w] \in Nat
BY ReplayAssumption DEF N5!Nfi5Assumption

\* The wider a protection is called, the more it lets through.
LEMMA Nfi5Nested ==
  ASSUME candle \in Nfi5Candles
  PROVE  N5!ProtectionsAreNested
<1> DEFINE f == candle.fall
           r == candle.rise
           b == candle.now
<1>1. /\ f[1] \in Int /\ f[2] \in Int /\ f[12] \in Int /\ f[144] \in Int
      /\ \A w \in {24, 36, 48} : r[w] \in Int /\ b[w] \in Nat
  BY Nfi5CandleValues
<1> HIDE DEF f, r, b
<1>2. /\ N5!Dip["strict"][1] = 15 /\ N5!Dip["normal"][1] = 20 /\ N5!Dip["loose"][1] = 26
      /\ N5!Dip["strict"][2] = 60 /\ N5!Dip["normal"][2] = 140 /\ N5!Dip["loose"][2] = 240
      /\ N5!Dip["strict"][12] = 240 /\ N5!Dip["normal"][12] = 320 /\ N5!Dip["loose"][12] = 420
      /\ N5!Dip["strict"][144] = 400 /\ N5!Dip["normal"][144] = 500 /\ N5!Dip["loose"][144] = 660
  BY DEF N5!Dip, N5!LooseDip, N5!Falls
<1>3. /\ N5!Pump["strict"][24] = <<400, 220>> /\ N5!Pump["normal"][24] = <<500, 175>>
      /\ N5!Pump["strict"][36] = <<560, 200>> /\ N5!Pump["normal"][36] = <<560, 175>>
      /\ N5!Pump["strict"][48] = <<680, 200>> /\ N5!Pump["normal"][48] = <<850, 175>>
      /\ N5!Pump["loose"][24] = <<660, 170>> /\ N5!Pump["loose"][36] = <<700, 170>>
      /\ N5!Pump["loose"][48] = <<1300, 140>>
  BY DEF N5!Pump, N5!Rises
<1>4. /\ N5!G!SafeDips(f, "strict") => N5!G!SafeDips(f, "normal")
      /\ N5!G!SafeDips(f, "normal") => N5!G!SafeDips(f, "loose")
  BY <1>1, <1>2 DEF N5!G!SafeDips, N5!G!DipWindows
<1>5. \A w \in {24, 36, 48} :
        /\ N5!G!SafePump(r, b, w, "strict") => N5!G!SafePump(r, b, w, "normal")
        /\ N5!G!SafePump(r, b, w, "normal") => N5!G!SafePump(r, b, w, "loose")
  <2>1. /\ N5!G!SafePump(r, b, 24, "strict") => N5!G!SafePump(r, b, 24, "normal")
        /\ N5!G!SafePump(r, b, 24, "normal") => N5!G!SafePump(r, b, 24, "loose")
    BY <1>1, <1>3 DEF N5!G!SafePump
  <2>2. /\ N5!G!SafePump(r, b, 36, "strict") => N5!G!SafePump(r, b, 36, "normal")
        /\ N5!G!SafePump(r, b, 36, "normal") => N5!G!SafePump(r, b, 36, "loose")
    BY <1>1, <1>3 DEF N5!G!SafePump
  <2>3. /\ N5!G!SafePump(r, b, 48, "strict") => N5!G!SafePump(r, b, 48, "normal")
        /\ N5!G!SafePump(r, b, 48, "normal") => N5!G!SafePump(r, b, 48, "loose")
    BY <1>1, <1>3 DEF N5!G!SafePump
  <2> QED BY <2>1, <2>2, <2>3
<1> QED BY <1>4, <1>5 DEF N5!ProtectionsAreNested, N5!G!PumpWindows, f, r, b

LEMMA ArcaneCandleValues ==
  ASSUME NEW c \in ArcaneCandles
  PROVE  c.c50 \in Int /\ c.momentum \in Int
BY ReplayAssumption DEF AR!ArcaneAssumption

\* The tables of the port are those of its original, and so is what they protect.
LEMMA ArcaneTables ==
  /\ AR!Dip = AR!N!Dip /\ AR!Pump = AR!N!Pump /\ AR!Guard = AR!N!Guard
<1>1. AR!Dip = AR!N!Dip
  BY DEF AR!Dip, AR!N!Dip, AR!N!LooseDip, AR!Falls, AR!N!Falls
<1>2. AR!Pump = AR!N!Pump
  BY DEF AR!Pump, AR!N!Pump, AR!Rises, AR!N!Rises
<1>3. AR!Guard1 = AR!N!Guard1
  BY DEF AR!Guard1, AR!N!Guard1, AR!Needs, AR!N!Needs
<1>4. AR!Guard8 = AR!N!Guard8
  BY DEF AR!Guard8, AR!N!Guard8, AR!Guard11, AR!Needs, AR!N!Needs
<1>5. AR!Guard15 = AR!N!Guard15
  BY DEF AR!Guard15, AR!N!Guard15, AR!Needs, AR!N!Needs
<1> QED BY <1>1, <1>2, <1>3, <1>4, <1>5 DEF AR!Guard, AR!N!Guard

LEMMA ArcaneProtected ==
  \A c, k : AR!G!Protected(c, k) <=> AR!N!G!Protected(c, k)
<1>1. \A fall, level : AR!G!SafeDips(fall, level) <=> AR!N!G!SafeDips(fall, level)
  BY ArcaneTables DEF AR!G!SafeDips, AR!N!G!SafeDips, AR!G!DipWindows, AR!N!G!DipWindows
<1>2. \A rise, now, w, level : AR!G!SafePump(rise, now, w, level) <=> AR!N!G!SafePump(rise, now, w, level)
  BY ArcaneTables DEF AR!G!SafePump, AR!N!G!SafePump
<1> QED BY <1>1, <1>2, ArcaneTables DEF AR!G!Protected, AR!N!G!Protected

\* A rising market shows in the price or in the averages.
LEMMA ArcaneBull ==
  ASSUME candle \in ArcaneCandles
  PROVE  AR!BullIsSeenInThePrice
<1> DEFINE c == candle
           pace == CASE c.momentum > 50 -> 2 [] c.momentum > 20 /\ c.momentum <= 50 -> 1 [] OTHER -> 0
           lines == IF c.aligned THEN 2 ELSE 0
           s1 == IF c.stack = "up" THEN 1 ELSE 0
           s2 == IF c.volume > 110 THEN 1 ELSE 0
           s3 == IF c.sslShare > 70 THEN 1 ELSE 0
           s4 == IF AR!Active(c) THEN 1 ELSE 0
<1> SUFFICES ASSUME ~(c.momentum > 20), ~c.aligned PROVE AR!detect_market_regime(c) # "BULL"
  BY DEF AR!BullIsSeenInThePrice
<1>1. c.momentum \in Int
  BY ArcaneCandleValues
<1>2. pace = 0 /\ lines = 0
  BY <1>1
<1>3. s1 \in {0, 1} /\ s2 \in {0, 1} /\ s3 \in {0, 1} /\ s4 \in {0, 1}
  OBVIOUS
<1>4. AR!BullScore(c) = pace + lines + s1 + s2 + s3 + s4
  BY DEF AR!BullScore
<1> HIDE DEF pace, lines, s1, s2, s3, s4
<1>5. ~(AR!BullScore(c) >= 5)
  BY <1>2, <1>3, <1>4
<1> QED BY <1>5 DEF AR!detect_market_regime

\* The last rule that holds is one of them.
LEMMA ArcaneLatest ==
  ASSUME NEW n \in Nat, NEW rules, DOMAIN rules = 1..n, AR!Latest(rules) # "none"
  PROVE  \E i \in 1..n : rules[i][2] /\ AR!Latest(rules) = rules[i][1]
<1> DEFINE due == {i \in DOMAIN rules : rules[i][2]}
           k == CHOOSE i \in due : \A j \in due : i >= j
<1>1. due \in SUBSET (1..n)
  OBVIOUS
<1>2. AR!Latest(rules) = IF due = {} THEN "none" ELSE rules[k][1]
  BY DEF AR!Latest
<1>3. due # {}
  BY <1>2
<1>4. SC!Greatest(due) \in due /\ \A i \in due : SC!Greatest(due) >= i
  <2> HIDE DEF due
  <2> QED BY <1>1, <1>3, GreatestExists
<1>5. k \in due
  <2> HIDE DEF due
  <2> QED BY <1>4
<1> QED BY <1>2, <1>3, <1>5

\* A function of 1..n lists elements of a set.
LEMMA ListOf ==
  ASSUME NEW n \in Nat, NEW U, NEW f \in [1..n -> U]
  PROVE  f \in Seq(U) /\ Len(f) = n
OBVIOUS

LEMMA ArcaneOrder ==
  /\ DOMAIN AR!ConditionOrder = 1..21 /\ \A i \in 1..21 : AR!ConditionOrder[i] \in 1..21
  /\ \A n \in 1..21 : AR!Condition[n] # "ewo_momentum"
<1> DEFINE U == 1..21
           first == [n \in 1..18 |-> n]
           rest == <<20, 21, 19>>
<1>1. first \in Seq(U) /\ Len(first) = 18
  <2>1. first \in [1..18 -> U] /\ 18 \in Nat
    OBVIOUS
  <2> HIDE DEF first, U
  <2> QED BY <2>1, ListOf
<1>2. rest \in Seq(U) /\ Len(rest) = 3
  OBVIOUS
<1>3. AR!ConditionOrder = first \o rest
  BY DEF AR!ConditionOrder
<1> HIDE DEF first, rest, U
<1>4. first \o rest \in Seq(U) /\ Len(first \o rest) = Len(first) + Len(rest)
  BY <1>1, <1>2, ConcatProperties
<1> DEFINE numbers == AR!ConditionOrder
<1>5. numbers \in Seq(U) /\ Len(numbers) = 21
  BY <1>1, <1>2, <1>3, <1>4
<1> HIDE DEF numbers
<1>7. DOMAIN numbers = 1..21 /\ \A i \in 1..21 : numbers[i] \in U
  BY <1>5, LenProperties, ElementOfSeq
<1>6. \A n \in 1..21 : AR!Condition[n] # "ewo_momentum"
  BY DEF AR!Condition
<1> QED BY <1>6, <1>7 DEF U, numbers

LEMMA ArcaneMethods ==
  ASSUME NEW c
  PROVE  /\ DOMAIN AR!Methods(c) = 1..10
         /\ \A i \in 1..10 : AR!Methods(c)[i][1] = "ewo_momentum" /\ AR!Methods(c)[i][3] => AR!Pullback(c)
<1> DEFINE ms == AR!Methods(c)
<1>1. DOMAIN ms = 1..10
  BY DEF AR!Methods
<1>2. /\ ms[1][1] # "ewo_momentum" /\ ms[2][1] # "ewo_momentum" /\ ms[4][1] # "ewo_momentum"
      /\ ms[5][1] # "ewo_momentum" /\ ms[6][1] # "ewo_momentum" /\ ms[7][1] # "ewo_momentum"
      /\ ms[8][1] # "ewo_momentum" /\ ms[9][1] # "ewo_momentum" /\ ms[10][1] # "ewo_momentum"
  BY DEF AR!Methods
<1>3. ms[3][3] = AR!Pullback(c)
  BY DEF AR!Methods
<1> HIDE DEF ms
<1>4. \A i \in 1..10 : i = 3 \/ ms[i][1] # "ewo_momentum"
  BY <1>2
<1> QED BY <1>1, <1>3, <1>4 DEF ms

\* An entry of a candle is called ewo_momentum for a pullback only.
LEMMA ArcaneAsked ==
  ASSUME NEW c
  PROVE  \E U : /\ AR!Asked(c) \in Seq(U)
                /\ \A e \in U : e[1] = "ewo_momentum" /\ e[2] => AR!Pullback(c)
<1> DEFINE ms == AR!Methods(c)
           numbers == AR!ConditionOrder
           as == [i \in DOMAIN ms |-> <<ms[i][1], ms[i][1] \in c.own /\ ms[i][2] \subseteq c.trend /\ ms[i][3]>>]
           bs == [i \in DOMAIN numbers |->
                    LET n == numbers[i] IN <<AR!Condition[n], AR!Condition[n] \in c.own /\ AR!G!Protected(c, n)>>]
           offset == <<"nfi5_multi_offset", "nfi5_multi_offset" \in c.own>>
           Fine(e) == e[1] = "ewo_momentum" /\ e[2] => AR!Pullback(c)
           A == {as[i] : i \in 1..10}
           B == {bs[i] : i \in 1..21}
           U == (A \cup B) \cup {offset}
<1>1. AR!Asked(c) = as \o bs \o <<offset>>
  BY DEF AR!Asked
<1>2. DOMAIN ms = 1..10 /\ DOMAIN numbers = 1..21
  BY ArcaneMethods, ArcaneOrder
<1>3. as \in Seq(U)
  <2>1. as \in [1..10 -> U] /\ 10 \in Nat
    BY <1>2
  <2> HIDE DEF as, U
  <2> QED BY <2>1, ListOf
<1>4. bs \in Seq(U)
  <2>1. bs \in [1..21 -> U] /\ 21 \in Nat
    BY <1>2
  <2> HIDE DEF bs, U
  <2> QED BY <2>1, ListOf
<1>5. \A e \in A : Fine(e)
  <2> SUFFICES ASSUME NEW i \in 1..10 PROVE Fine(as[i])
    OBVIOUS
  <2>1. as[i][1] = ms[i][1] /\ (as[i][2] => ms[i][3])
    BY <1>2
  <2>2. ms[i][1] = "ewo_momentum" /\ ms[i][3] => AR!Pullback(c)
    BY ArcaneMethods
  <2> HIDE DEF ms, as
  <2> QED BY <2>1, <2>2
<1>6. \A e \in B : Fine(e)
  <2> SUFFICES ASSUME NEW i \in 1..21 PROVE Fine(bs[i])
    OBVIOUS
  <2>1. bs[i][1] = AR!Condition[numbers[i]] /\ numbers[i] \in 1..21
    BY <1>2, ArcaneOrder
  <2> HIDE DEF bs
  <2> QED BY <2>1, ArcaneOrder
<1>7. Fine(offset)
  OBVIOUS
<1> HIDE DEF Fine, A, B
<1>8. \A e \in U : Fine(e)
  BY <1>5, <1>6, <1>7
<1>9. <<offset>> \in Seq(U)
  OBVIOUS
<1> HIDE DEF as, bs, offset, U
<1>10. AR!Asked(c) \in Seq(U)
  BY <1>1, <1>3, <1>4, <1>9, ConcatProperties
<1> QED BY <1>8, <1>10 DEF Fine

\* ... so none is.
LEMMA ArcaneNoEwo ==
  ASSUME NEW v, NEW c \in ArcaneCandles
  PROVE  AR!Entry(v, c) # "ewo_momentum"
<1> DEFINE asked == AR!Asked(c)
           rules == [i \in DOMAIN asked |-> <<asked[i][1], asked[i][2] /\ asked[i][1] \in v>>]
<1> SUFFICES ASSUME AR!Entry(v, c) = "ewo_momentum" PROVE FALSE
  OBVIOUS
<1>1. AR!Latest(rules) = "ewo_momentum"
  BY DEF AR!Entry
<1>2. PICK U : /\ asked \in Seq(U)
               /\ \A e \in U : e[1] = "ewo_momentum" /\ e[2] => AR!Pullback(c)
  BY ArcaneAsked
<1>3. Len(asked) \in Nat /\ DOMAIN asked = 1..Len(asked) /\ \A i \in 1..Len(asked) : asked[i] \in U
  <2> HIDE DEF asked
  <2> QED BY <1>2, LenProperties, ElementOfSeq
<1>4. PICK i \in 1..Len(asked) : rules[i][2] /\ rules[i][1] = "ewo_momentum"
  <2>1. DOMAIN rules = 1..Len(asked)
    BY <1>3
  <2> HIDE DEF rules, asked
  <2> QED BY <1>1, <1>3, <2>1, ArcaneLatest
<1>5. asked[i][1] = "ewo_momentum" /\ asked[i][2]
  BY <1>3, <1>4
<1>6. AR!Pullback(c)
  BY <1>2, <1>3, <1>5
<1> QED BY <1>6, ArcaneCandleValues DEF AR!Pullback

\* No exit is the one of the ichimoku entry where the candle says no entry.
LEMMA ArcaneNoIchimoku ==
  ASSUME NEW v, NEW c, AR!Entry(v, c) = "none"
  PROVE  AR!ExitTag(v, c) # "ichimoku_dema_exit"
<1> DEFINE rules == <<
             <<"ichimoku_dema_exit", AR!IchimokuExit(v, c)>>,
             <<"nfi5_sell_1", c.rsi > 795 /\ c.above >= 6>>,
             <<"nfi5_sell_2", c.rsi > 810 /\ c.above >= 3>>,
             <<"nfi5_sell_3", c.rsi > 820>>,
             <<"nfi5_sell_4", c.rsi > 734 /\ c.rsi1h > 796>>,
             <<"nfi5_sell_6", c.under200 /\ c.over50 /\ c.rsi > 790>>,
             <<"nfi5_sell_7", c.rsi1h > 817 /\ c.crossed>>,
             <<"nfi5_sell_8", c.overBand>> >>
<1> SUFFICES ASSUME AR!ExitTag(v, c) = "ichimoku_dema_exit" PROVE FALSE
  OBVIOUS
<1>1. AR!Latest(rules) = "ichimoku_dema_exit"
  BY DEF AR!ExitTag
<1>2. DOMAIN rules = 1..8 /\ 8 \in Nat
  OBVIOUS
<1>3. ~rules[1][2]
  BY DEF AR!IchimokuExit
<1>4. /\ rules[2][1] # "ichimoku_dema_exit" /\ rules[3][1] # "ichimoku_dema_exit"
      /\ rules[4][1] # "ichimoku_dema_exit" /\ rules[5][1] # "ichimoku_dema_exit"
      /\ rules[6][1] # "ichimoku_dema_exit" /\ rules[7][1] # "ichimoku_dema_exit"
      /\ rules[8][1] # "ichimoku_dema_exit"
  OBVIOUS
<1> HIDE DEF rules
<1>5. \A i \in 1..8 : ~(rules[i][2] /\ rules[i][1] = "ichimoku_dema_exit")
  BY <1>3, <1>4
<1> QED BY <1>1, <1>2, <1>5, ArcaneLatest

\* The custom exits of the original, in the order they are asked for.
PortedExits == <<
  AR!N!Weak(1, "signal_profit_4", 250, 500), AR!N!Weak(2, "signal_profit_3", 80, 480),
  AR!N!Weak(3, "signal_profit_2", 50, 430), AR!N!Weak(4, "signal_profit_1", 30, 380),
  AR!N!Weak(5, "signal_profit_0", 10, 330),
  AR!N!Weak(6, "signal_profit_u_1", 20, 560), AR!N!Weak(7, "signal_profit_u_2", 40, 600),
  AR!N!Weak(8, "signal_profit_u_3", 600, 620),
  AR!N!Other(9, "signal_profit_d_1"), AR!N!Other(10, "signal_profit_d_2"),
  AR!N!Descent(11, "signal_profit_t_1", 150, 460, 180), AR!N!Descent(12, "signal_profit_t_2", 10, 120, 140),
  AR!N!Descent(13, "signal_profit_u_t_1", 50, 100, 10),
  AR!N!Other(14, "signal_profit_u_e_1"), AR!N!Other(15, "signal_stoploss_u_1") >>

\* The rules of the port.
PortedRules(p, peak, c) ==
  LET weak(profit, rsi) == p > profit /\ c.rsi < rsi
      trailed(from, to, down) == p > from /\ p < to /\ peak > p + down
      near(gap, diff) == c.under200 /\ c.gap < gap /\ c.rsi > c.rsi1h + diff
  IN  <<
        <<"signal_profit_4", weak(250, 500)>>, <<"signal_profit_3", weak(80, 480)>>,
        <<"signal_profit_2", weak(50, 430)>>, <<"signal_profit_1", weak(30, 380)>>,
        <<"signal_profit_0", weak(10, 330)>>,
        <<"signal_profit_u_1", c.under200 /\ weak(20, 560)>>,
        <<"signal_profit_u_2", c.under200 /\ weak(40, 600)>>,
        <<"signal_profit_u_3", c.under200 /\ weak(600, 620)>>,
        <<"signal_profit_d_1", AR!Decline(p, c)>>,
        <<"signal_profit_d_2", p > 70 /\ c.under100>>,
        <<"signal_profit_t_1", trailed(150, 460, 180)>>,
        <<"signal_profit_t_2", trailed(10, 120, 140)>>,
        <<"signal_profit_u_t_1", c.under200 /\ trailed(50, 100, 10)>>,
        <<"signal_profit_u_e_1", p > 0 /\ near(24, 44)>>,
        <<"signal_stoploss_u_1", p < 0 /\ near(4, 80)>> >>

\* The n-th of either is called the same.
LEMMA PortedNames ==
  ASSUME NEW p, NEW peak, NEW c
  PROVE  /\ DOMAIN PortedRules(p, peak, c) = 1..15
         /\ \A i \in 1..15 : /\ PortedExits[i].at = i
                             /\ PortedExits[i].tag = PortedRules(p, peak, c)[i][1]
                             /\ PortedRules(p, peak, c)[i][1] \notin {"none", "signal"}
<1>1. DOMAIN PortedRules(p, peak, c) = 1..15
  BY DEF PortedRules
<1> DEFINE Same(i) == /\ PortedExits[i].at = i
                      /\ PortedExits[i].tag = PortedRules(p, peak, c)[i][1]
                      /\ PortedRules(p, peak, c)[i][1] \notin {"none", "signal"}
<1>2. Same(1) /\ Same(2) /\ Same(3) /\ Same(4) /\ Same(5) /\ Same(6) /\ Same(7) /\ Same(8)
  BY DEF PortedRules, PortedExits, AR!N!Weak
<1>3. Same(9) /\ Same(10) /\ Same(14) /\ Same(15)
  BY DEF PortedRules, PortedExits, AR!N!Other
<1>4. Same(11) /\ Same(12) /\ Same(13)
  BY DEF PortedRules, PortedExits, AR!N!Descent
<1> HIDE DEF Same
<1>5. \A i \in 1..15 : Same(i)
  BY <1>2, <1>3, <1>4
<1> QED BY <1>1, <1>5 DEF Same

\* A rule of the port holds for the exits of the original that are due.
LEMMA PortedDue ==
  ASSUME NEW p, NEW peak, NEW c
  PROVE  LET due == {i \in 1..15 : PortedRules(p, peak, c)[i][2]}
         IN  AR!N!CustomSells(p, peak, c) = {PortedExits[i] : i \in due}
<1> DEFINE R == PortedRules(p, peak, c)
           X == PortedExits
           due == {i \in 1..15 : R[i][2]}
           K == AR!N!CustomSells(p, peak, c)
<1>1. /\ R[1][2] <=> p > 250 /\ c.rsi < 500
      /\ R[2][2] <=> p > 80 /\ c.rsi < 480
      /\ R[3][2] <=> p > 50 /\ c.rsi < 430
      /\ R[4][2] <=> p > 30 /\ c.rsi < 380
      /\ R[5][2] <=> p > 10 /\ c.rsi < 330
  BY DEF PortedRules
<1>2. /\ R[6][2] <=> c.under200 /\ p > 20 /\ c.rsi < 560
      /\ R[7][2] <=> c.under200 /\ p > 40 /\ c.rsi < 600
      /\ R[8][2] <=> c.under200 /\ p > 600 /\ c.rsi < 620
  BY DEF PortedRules
<1>3. /\ R[9][2] <=> p > 50 /\ c.dec
      /\ R[10][2] <=> p > 70 /\ c.under100
      /\ R[11][2] <=> AR!N!TrailedBy(p, peak, X[11])
      /\ R[12][2] <=> AR!N!TrailedBy(p, peak, X[12])
      /\ R[13][2] <=> c.under200 /\ AR!N!TrailedBy(p, peak, X[13])
      /\ R[14][2] <=> AR!N!Edge(p, c)
      /\ R[15][2] <=> p < 0 /\ c.under200 /\ c.gap < 4 /\ c.rsi > c.rsi1h + 80
  BY DEF PortedRules, PortedExits, AR!Decline, AR!N!TrailedBy, AR!N!Descent, AR!N!Edge
<1> HIDE DEF R
<1> DEFINE Is(i, r) == R[i][2] /\ r = X[i]
<1>4. \A r : r \in {q \in AR!N!Tiers : p > q.over /\ c.rsi < q.rsi} <=> Is(1, r) \/ Is(2, r) \/ Is(3, r) \/ Is(4, r) \/ Is(5, r)
  <2>1. AR!N!Tiers = {X[1], X[2], X[3], X[4], X[5]}
    BY DEF AR!N!Tiers, PortedExits
  <2>2. /\ X[1].over = 250 /\ X[1].rsi = 500 /\ X[2].over = 80 /\ X[2].rsi = 480
        /\ X[3].over = 50 /\ X[3].rsi = 430 /\ X[4].over = 30 /\ X[4].rsi = 380
        /\ X[5].over = 10 /\ X[5].rsi = 330
    BY DEF PortedExits, AR!N!Weak
  <2> HIDE DEF X
  <2> QED BY <1>1, <2>1, <2>2
<1>5. \A r : r \in {q \in AR!N!UnderTiers : c.under200 /\ p > q.over /\ c.rsi < q.rsi} <=>
             Is(6, r) \/ Is(7, r) \/ Is(8, r)
  <2>1. AR!N!UnderTiers = {X[6], X[7], X[8]}
    BY DEF AR!N!UnderTiers, PortedExits
  <2>2. /\ X[6].over = 20 /\ X[6].rsi = 560 /\ X[7].over = 40 /\ X[7].rsi = 600
        /\ X[8].over = 600 /\ X[8].rsi = 620
    BY DEF PortedExits, AR!N!Weak
  <2> HIDE DEF X
  <2> QED BY <1>2, <2>1, <2>2
<1>6. \A r : r \in {q \in AR!N!Trails : AR!N!TrailedBy(p, peak, q)} <=> Is(11, r) \/ Is(12, r)
  <2>1. AR!N!Trails = {X[11], X[12]}
    BY DEF AR!N!Trails, PortedExits
  <2> HIDE DEF X
  <2> QED BY <1>3, <2>1
<1>7. /\ X[9] = AR!N!Other(9, "signal_profit_d_1") /\ X[10] = AR!N!Other(10, "signal_profit_d_2")
      /\ X[13] = AR!N!UnderTrail
      /\ X[14] = AR!N!Other(14, "signal_profit_u_e_1") /\ X[15] = AR!N!Other(15, "signal_stoploss_u_1")
  BY DEF PortedExits, AR!N!UnderTrail
<1> HIDE DEF X
<1>8. \A r : /\ r \in {q \in {AR!N!Other(9, "signal_profit_d_1")} : p > 50 /\ c.dec} <=> Is(9, r)
             /\ r \in {q \in {AR!N!Other(10, "signal_profit_d_2")} : p > 70 /\ c.under100} <=> Is(10, r)
             /\ r \in {q \in {AR!N!UnderTrail} : c.under200 /\ AR!N!TrailedBy(p, peak, q)} <=> Is(13, r)
             /\ r \in {q \in {AR!N!Other(14, "signal_profit_u_e_1")} : AR!N!Edge(p, c)} <=> Is(14, r)
             /\ r \in {q \in {AR!N!Other(15, "signal_stoploss_u_1")} :
                        p < 0 /\ c.under200 /\ c.gap < 4 /\ c.rsi > c.rsi1h + 80} <=> Is(15, r)
  BY <1>3, <1>7
<1> HIDE DEF Is
<1>9. \A r : r \in K <=>
        \/ Is(1, r) \/ Is(2, r) \/ Is(3, r) \/ Is(4, r) \/ Is(5, r)
        \/ Is(6, r) \/ Is(7, r) \/ Is(8, r) \/ Is(9, r) \/ Is(10, r)
        \/ Is(11, r) \/ Is(12, r) \/ Is(13, r) \/ Is(14, r) \/ Is(15, r)
  BY <1>4, <1>5, <1>6, <1>8 DEF AR!N!CustomSells
<1>10. \A r : (\E i \in 1..15 : Is(i, r)) <=>
        \/ Is(1, r) \/ Is(2, r) \/ Is(3, r) \/ Is(4, r) \/ Is(5, r)
        \/ Is(6, r) \/ Is(7, r) \/ Is(8, r) \/ Is(9, r) \/ Is(10, r)
        \/ Is(11, r) \/ Is(12, r) \/ Is(13, r) \/ Is(14, r) \/ Is(15, r)
  <2>1. \A i : i \in 1..15 <=> i \in {1, 2, 3, 4, 5, 6, 7, 8, 9, 10, 11, 12, 13, 14, 15}
    OBVIOUS
  <2> QED BY <2>1
<1>11. \A r : r \in {X[i] : i \in due} <=> \E i \in 1..15 : Is(i, r)
  BY DEF Is
<1> HIDE DEF K
<1>12. K = {X[i] : i \in due}
  <2> HIDE DEF due
  <2> QED BY <1>9, <1>10, <1>11
<1> QED BY <1>12 DEF K, X, R

\* The exit that the port gives is the one of the original.
LEMMA ArcaneCustom ==
  ASSUME NEW t, NEW c
  PROVE  AR!CustomSell(t, c) = AR!N!CustomSell(t, c) /\ AR!CustomSell(t, c) # "signal"
<1> DEFINE p == t.rate - 1000
           peak == t.peak - 1000
           R == PortedRules(p, peak, c)
           X == PortedExits
           due == {i \in 1..15 : R[i][2]}
           K == AR!N!CustomSells(p, peak, c)
           k == CHOOSE i \in due : \A j \in due : i <= j
           r == CHOOSE x \in K : \A other \in K : x.at <= other.at
<1>1. AR!CustomSell(t, c) = AR!First(R)
  BY DEF AR!CustomSell, PortedRules
<1>2. /\ DOMAIN R = 1..15
      /\ \A i \in 1..15 : X[i].at = i /\ X[i].tag = R[i][1] /\ R[i][1] \notin {"none", "signal"}
  BY PortedNames
<1>3. K = {X[i] : i \in due}
  BY PortedDue
<1>4. AR!N!CustomSell(t, c) = IF K = {} THEN "none" ELSE r.tag
  BY DEF AR!N!CustomSell
<1> HIDE DEF R, X, p, peak, K
<1>5. AR!First(R) = IF due = {} THEN "none" ELSE R[k][1]
  BY <1>2 DEF AR!First
<1>6. due \in SUBSET (1..15)
  OBVIOUS
<1> HIDE DEF due
<1>7. CASE due = {}
  BY <1>1, <1>3, <1>4, <1>5, <1>7
<1>8. CASE due # {}
  <2>1. SC!Least(due) \in due /\ \A i \in due : SC!Least(due) =< i
    BY <1>6, <1>8, LeastExists
  <2>2. k \in due /\ \A j \in due : k <= j
    BY <2>1
  <2> HIDE DEF k
  <2>3. X[k] \in K /\ \A other \in K : X[k].at <= other.at
    BY <1>2, <1>3, <1>6, <2>2
  <2>4. r \in K /\ r.at <= X[k].at
    BY <2>3
  <2> HIDE DEF r
  <2>5. PICK i \in due : r = X[i]
    BY <1>3, <2>4
  <2>6. i = k
    <3>1. i \in 1..15 /\ k \in 1..15 /\ k <= i
      BY <1>6, <2>2
    <3>2. i <= k
      BY <1>2, <2>4, <2>5, <3>1
    <3> QED BY <3>1, <3>2
  <2>7. r.tag = R[k][1] /\ R[k][1] # "signal" /\ K # {}
    BY <1>2, <1>6, <2>2, <2>4, <2>5, <2>6
  <2> QED BY <1>1, <1>4, <1>5, <1>8, <2>7
<1> QED BY <1>7, <1>8

----------------------------------------------------------------------------
\* The types of a trade in the bot's loop, for each of the four that run in it

IsTrade(t) == DOMAIN t = {"tag", "rate", "peak", "stop", "age"} /\ t.peak \in Int /\ t.stop \in Int

\* What a stop changes of a trade.
LEMMA StoppedTrade ==
  ASSUME NEW s, DOMAIN s = {"tag", "rate", "peak", "stop", "age"}, NEW ask, NEW t,
         t = [s EXCEPT !.stop = ask]
  PROVE  /\ t.tag = s.tag /\ t.rate = s.rate /\ t.peak = s.peak /\ t.age = s.age /\ t.stop = ask
         /\ t # <<>>
<1>1. t.tag = s.tag /\ t.rate = s.rate /\ t.peak = s.peak /\ t.age = s.age /\ t.stop = ask
  OBVIOUS
<1>2. "tag" \in DOMAIN t
  OBVIOUS
<1>3. Len(<<>>) = 0 /\ DOMAIN <<>> = 1..Len(<<>>)
  OBVIOUS
<1>4. \A x : x \notin DOMAIN <<>>
  BY <1>3
<1>5. t # <<>>
  <2>1. ASSUME t = <<>> PROVE FALSE
    <3>1. DOMAIN t = DOMAIN <<>>
      BY <2>1
    <3> QED BY <1>2, <1>4, <3>1
  <2> QED BY <2>1
<1> QED BY <1>1, <1>5

\* The exit that went through is the last one asked.
Listed(a) ==
  /\ \E U : a.asked \in Seq(U)
  /\ a.done # "none" => a.done = a.asked[Len(a.asked)]

LEMMA Listing ==
  ASSUME NEW a, Listed(a), NEW b, NEW exit, b.asked = Append(a.asked, exit), b.done \in {exit, "none"}
  PROVE  Listed(b)
<1>1. PICK U : a.asked \in Seq(U)
  BY DEF Listed
<1> DEFINE V == U \cup {exit}
           s == a.asked
<1>2. s \in Seq(V)
  BY <1>1
<1> HIDE DEF V, s
<1>3. exit \in V
  BY DEF V
<1>4. /\ Append(s, exit) \in Seq(V) /\ Len(Append(s, exit)) = Len(s) + 1
      /\ Append(s, exit)[Len(s) + 1] = exit
  BY <1>2, <1>3, AppendProperties
<1> QED BY <1>4 DEF Listed, s

----------------------------------------------------------------------------
\* NFI5MOHO_WIP

LEMMA Nfi5AskLists ==
  ASSUME NEW t, NEW c
  PROVE  Listed(N5!F!Ask(t, c))
<1> DEFINE Put(a, due, exit) == N5!F!Put(a, due, exit, t, c)
<1>1. ASSUME NEW a, Listed(a), NEW due, NEW exit PROVE Listed(Put(a, due, exit))
  <2>1. CASE due /\ a.done = "none"
    <3> DEFINE b == N5!F!Put(a, due, exit, t, c)
    <3>1. b.asked = Append(a.asked, exit) /\ b.done \in {exit, "none"}
      BY <2>1 DEF N5!F!Put
    <3> HIDE DEF b
    <3>2. Listed(b)
      BY <1>1, <3>1, Listing
    <3> QED BY <3>2 DEF b
  <2>2. CASE ~(due /\ a.done = "none")
    <3>1. N5!F!Put(a, due, exit, t, c) = a
      BY <2>2 DEF N5!F!Put
    <3> QED BY <1>1, <3>1
  <2> QED BY <2>1, <2>2
<1> DEFINE none == [memory |-> memory, asked |-> <<>>, done |-> "none"]
           stopped == t.rate <= t.stop
           paid == N5!F!Profit(t) > N5!Roi(variant, t.age) /\ ~N5!IgnoreRoi(variant, t, c)
           sig == N5!F!Signal(t, c)
           a1 == Put(none, sig # "none", sig)
           a2 == Put(a1, stopped /\ t.stop = N5!Stop0(variant), "stop_loss")
           a3 == Put(a2, paid, "roi")
           a4 == Put(a3, stopped /\ t.stop # N5!Stop0(variant), "trailing_stop_loss")
<1>2. N5!F!Ask(t, c) = a4
  BY DEF N5!F!Ask
<1>3. Listed(none)
  <2>1. none.asked = <<>> /\ none.done = "none" /\ <<>> \in Seq({})
    OBVIOUS
  <2> QED BY <2>1 DEF Listed
<1> HIDE DEF none, sig, paid, stopped, Put
<1>4. Listed(a1)
  BY <1>1, <1>3
<1> HIDE DEF a1
<1>5. Listed(a2)
  BY <1>1, <1>4
<1> HIDE DEF a2
<1>6. Listed(a3)
  BY <1>1, <1>5
<1> HIDE DEF a3
<1>7. Listed(a4)
  BY <1>1, <1>6
<1> QED BY <1>2, <1>7

Nfi5Typed == which = "nfi5" => N5!TypeOK

LEMMA Nfi5TypedInit == Init => Nfi5Typed
<1> SUFFICES ASSUME Init, which = "nfi5" PROVE N5!TypeOK
  BY DEF Nfi5Typed
<1>1. N5!Init
  BY DEF Init
<1> QED BY <1>1 DEF N5!Init, N5!F!Init, N5!F!NoExit, N5!TypeOK, N5!F!TypeOK

LEMMA Nfi5TypedTick ==
  ASSUME which = "nfi5", N5!TypeOK, Nfi5Inv, NEW rate \in Nfi5Rates, NEW c \in Nfi5Candles,
         NEW age \in Nfi5Ages, N5!F!Tick(rate, c, age)
  PROVE  N5!TypeOK'
<1> DEFINE seen == [trade EXCEPT !.rate = rate, !.peak = N5!F!Larger(@, rate), !.age = age]
           ask == N5!NoTrail(variant, seen)
           t == [seen EXCEPT !.stop = N5!F!Larger(@, ask)]
           answer == N5!F!Ask(t, c)
<1>1. /\ trade # <<>> /\ trade' = t /\ candle' = c /\ variant' = variant
      /\ outcome' = [asked |-> answer.asked, done |-> answer.done]
  BY DEF N5!F!Tick
<1>2. IsTrade(trade)
  BY <1>1 DEF Nfi5Inv, Nfi5Trades, IsTrade
<1>3. rate \in Nat
  BY Nfi5Values
<1>4. /\ seen.rate = rate /\ t.rate = rate /\ t.age = age
      /\ t.peak = N5!F!Larger(trade.peak, rate) /\ t.stop = N5!F!Larger(trade.stop, ask) /\ t # <<>>
  <2> DEFINE top == N5!F!Larger(trade.peak, rate)
             up == N5!F!Larger(trade.stop, ask)
  <2>1. seen = [trade EXCEPT !.rate = rate, !.peak = top, !.age = age]
    OBVIOUS
  <2>2. t = [seen EXCEPT !.stop = N5!F!Larger(seen.stop, ask)]
    OBVIOUS
  <2> HIDE DEF seen, t, ask, top
  <2>3. /\ DOMAIN seen = {"tag", "rate", "peak", "stop", "age"}
        /\ seen.rate = rate /\ seen.stop = trade.stop /\ seen.peak = top /\ seen.age = age
        /\ seen.tag = trade.tag
    BY <1>2, <2>1 DEF IsTrade
  <2>4. t = [seen EXCEPT !.stop = up]
    BY <2>2, <2>3
  <2> HIDE DEF up
  <2>5. /\ t.tag = seen.tag /\ t.rate = seen.rate /\ t.peak = seen.peak /\ t.age = seen.age
        /\ t.stop = up /\ t # <<>>
    BY <2>3, <2>4, StoppedTrade
  <2> QED BY <2>3, <2>5 DEF top, up
<1> HIDE DEF t, seen
<1>5. ask \in Int
  BY <1>3, <1>4 DEF ask, N5!NoTrail, N5!Stop0
<1> HIDE DEF ask
<1>6. trade.peak \in Int /\ trade.stop \in Int /\ trade.stop >= N5!Stop0(variant) /\ N5!Stop0(variant) \in Int
  <2>1. trade.peak \in Int /\ trade.stop \in Int
    BY <1>2 DEF IsTrade
  <2>2. trade.stop >= N5!Stop0(variant)
    BY <1>1 DEF N5!TypeOK, N5!F!TypeOK
  <2>3. N5!Stop0(variant) \in Int
    BY DEF N5!Stop0
  <2> QED BY <2>1, <2>2, <2>3
<1>7. t.peak >= t.rate /\ t.stop >= N5!Stop0(variant)
  BY <1>3, <1>4, <1>5, <1>6 DEF N5!F!Larger
<1>8. Listed(answer)
  BY Nfi5AskLists
<1> HIDE DEF answer
<1>9. outcome'.done = answer.done /\ outcome'.asked = answer.asked
  BY <1>1
<1>10. outcome'.done # "none" => outcome'.done = outcome'.asked[Len(outcome'.asked)]
  BY <1>8, <1>9 DEF Listed
<1>11. (N5!Stop0(variant))' = N5!Stop0(variant)
  BY <1>1 DEF N5!Stop0
<1> QED BY <1>1, <1>4, <1>7, <1>10, <1>11 DEF N5!TypeOK, N5!F!TypeOK

LEMMA Nfi5TypedStep == Nfi5Typed /\ Nfi5Inv /\ [Next]_vars => Nfi5Typed'
<1> SUFFICES ASSUME Nfi5Typed, Nfi5Inv, [Next]_vars, which' = "nfi5" PROVE N5!TypeOK'
  BY DEF Nfi5Typed
<1>0. which = "nfi5"
  BY DEF Next, vars
<1>1. N5!TypeOK
  BY <1>0 DEF Nfi5Typed
<1>2. CASE UNCHANGED loop
  BY <1>1, <1>2 DEF loop, N5!TypeOK, N5!F!TypeOK, N5!Stop0
<1>3. CASE N5!F!Open
  <2> DEFINE t == [tag |-> N5!Entry(variant, candle), rate |-> 1000, peak |-> 1000,
                   stop |-> N5!Stop0(variant), age |-> 0]
  <2>1. trade' = t /\ outcome'.done = "none" /\ variant' = variant /\ candle' = candle
    BY <1>3 DEF N5!F!Open, N5!F!NoExit
  <2>2. t.rate = 1000 /\ t.peak = 1000 /\ t.stop = N5!Stop0(variant) /\ t.age = 0
    OBVIOUS
  <2>3. 0 \in Nfi5Ages /\ N5!Stop0(variant) \in Int
    BY <1>0, ReplayAssumption DEF N5!Nfi5Assumption, N5!Stop0
  <2>4. (N5!Stop0(variant))' = N5!Stop0(variant)
    BY <2>1 DEF N5!Stop0
  <2> HIDE DEF t
  <2> QED BY <1>0, <1>1, <2>1, <2>2, <2>3, <2>4 DEF N5!TypeOK, N5!F!TypeOK
<1>4. CASE N5!F!Wait
  BY <1>1, <1>4 DEF N5!F!Wait, N5!TypeOK, N5!F!TypeOK
<1>5. CASE N5!F!Close
  BY <1>0, <1>1, <1>5 DEF N5!F!Close, N5!F!NoExit, N5!TypeOK, N5!F!TypeOK
<1>6. ASSUME NEW rate \in Nfi5Rates, NEW c \in Nfi5Candles, NEW age \in Nfi5Ages, N5!F!Tick(rate, c, age)
      PROVE  N5!TypeOK'
  BY <1>0, <1>1, <1>6, Nfi5TypedTick
<1>7. N5!Next \/ UNCHANGED loop
  BY <1>0 DEF Next, vars, loop
<1> QED BY <1>2, <1>3, <1>4, <1>5, <1>6, <1>7 DEF N5!Next, N5!F!Next

LEMMA Nfi5TypedAlways == Spec => []Nfi5Typed
BY Nfi5TypedInit, Nfi5TypedStep, Nfi5Always, PTL DEF Spec

----------------------------------------------------------------------------
\* ArcaneLiM2

LEMMA ArcaneAskLists ==
  ASSUME NEW t, NEW c
  PROVE  Listed(AR!F!Ask(t, c))
<1> DEFINE Put(a, due, exit) == AR!F!Put(a, due, exit, t, c)
<1>1. ASSUME NEW a, Listed(a), NEW due, NEW exit PROVE Listed(Put(a, due, exit))
  <2>1. CASE due /\ a.done = "none"
    <3> DEFINE b == AR!F!Put(a, due, exit, t, c)
    <3>1. b.asked = Append(a.asked, exit) /\ b.done \in {exit, "none"}
      BY <2>1 DEF AR!F!Put
    <3> HIDE DEF b
    <3>2. Listed(b)
      BY <1>1, <3>1, Listing
    <3> QED BY <3>2 DEF b
  <2>2. CASE ~(due /\ a.done = "none")
    <3>1. AR!F!Put(a, due, exit, t, c) = a
      BY <2>2 DEF AR!F!Put
    <3> QED BY <1>1, <3>1
  <2> QED BY <2>1, <2>2
<1> DEFINE none == [memory |-> memory, asked |-> <<>>, done |-> "none"]
           stopped == t.rate <= t.stop
           paid == AR!F!Profit(t) > AR!Roi(variant, t.age) /\ ~AR!IgnoreRoi(variant, t, c)
           sig == AR!F!Signal(t, c)
           a1 == Put(none, sig # "none", sig)
           a2 == Put(a1, stopped /\ t.stop = AR!Stop0(variant), "stop_loss")
           a3 == Put(a2, paid, "roi")
           a4 == Put(a3, stopped /\ t.stop # AR!Stop0(variant), "trailing_stop_loss")
<1>2. AR!F!Ask(t, c) = a4
  BY DEF AR!F!Ask
<1>3. Listed(none)
  <2>1. none.asked = <<>> /\ none.done = "none" /\ <<>> \in Seq({})
    OBVIOUS
  <2> QED BY <2>1 DEF Listed
<1> HIDE DEF none, sig, paid, stopped, Put
<1>4. Listed(a1)
  BY <1>1, <1>3
<1> HIDE DEF a1
<1>5. Listed(a2)
  BY <1>1, <1>4
<1> HIDE DEF a2
<1>6. Listed(a3)
  BY <1>1, <1>5
<1> HIDE DEF a3
<1>7. Listed(a4)
  BY <1>1, <1>6
<1> QED BY <1>2, <1>7

ArcaneTyped == which = "arcane" => AR!TypeOK

LEMMA ArcaneTypedInit == Init => ArcaneTyped
<1> SUFFICES ASSUME Init, which = "arcane" PROVE AR!TypeOK
  BY DEF ArcaneTyped
<1>1. AR!Init
  BY DEF Init
<1> QED BY <1>1 DEF AR!Init, AR!F!Init, AR!F!NoExit, AR!TypeOK, AR!F!TypeOK

LEMMA ArcaneTypedTick ==
  ASSUME which = "arcane", AR!TypeOK, ArcaneInv, NEW rate \in ArcaneRates, NEW c \in ArcaneCandles,
         NEW age \in ArcaneAges, AR!F!Tick(rate, c, age)
  PROVE  AR!TypeOK'
<1> DEFINE seen == [trade EXCEPT !.rate = rate, !.peak = AR!F!Larger(@, rate), !.age = age]
           ask == AR!StopFor(variant, seen)
           t == [seen EXCEPT !.stop = AR!F!Larger(@, ask)]
           answer == AR!F!Ask(t, c)
<1>1. /\ trade # <<>> /\ trade' = t /\ candle' = c /\ variant' = variant
      /\ outcome' = [asked |-> answer.asked, done |-> answer.done]
  BY DEF AR!F!Tick
<1>2. IsTrade(trade)
  BY <1>1 DEF ArcaneInv, ArcaneTrade, IsTrade
<1>3. rate \in Nat
  BY ArcaneValues
<1>4. /\ seen.rate = rate /\ t.rate = rate /\ t.age = age
      /\ t.peak = AR!F!Larger(trade.peak, rate) /\ t.stop = AR!F!Larger(trade.stop, ask) /\ t # <<>>
  <2> DEFINE top == AR!F!Larger(trade.peak, rate)
             up == AR!F!Larger(trade.stop, ask)
  <2>1. seen = [trade EXCEPT !.rate = rate, !.peak = top, !.age = age]
    OBVIOUS
  <2>2. t = [seen EXCEPT !.stop = AR!F!Larger(seen.stop, ask)]
    OBVIOUS
  <2> HIDE DEF seen, t, ask, top
  <2>3. /\ DOMAIN seen = {"tag", "rate", "peak", "stop", "age"}
        /\ seen.rate = rate /\ seen.stop = trade.stop /\ seen.peak = top /\ seen.age = age
        /\ seen.tag = trade.tag
    BY <1>2, <2>1 DEF IsTrade
  <2>4. t = [seen EXCEPT !.stop = up]
    BY <2>2, <2>3
  <2> HIDE DEF up
  <2>5. /\ t.tag = seen.tag /\ t.rate = seen.rate /\ t.peak = seen.peak /\ t.age = seen.age
        /\ t.stop = up /\ t # <<>>
    BY <2>3, <2>4, StoppedTrade
  <2> QED BY <2>3, <2>5 DEF top, up
<1> HIDE DEF t, seen
<1>5. ask \in Int
  BY <1>3, <1>4 DEF ask, AR!StopFor
<1> HIDE DEF ask
<1>6. trade.peak \in Int /\ trade.stop \in Int /\ trade.stop >= AR!Stop0(variant) /\ AR!Stop0(variant) \in Int
  <2>1. trade.peak \in Int /\ trade.stop \in Int
    BY <1>2 DEF IsTrade
  <2>2. trade.stop >= AR!Stop0(variant)
    BY <1>1 DEF AR!TypeOK, AR!F!TypeOK
  <2>3. AR!Stop0(variant) \in Int
    BY DEF AR!Stop0
  <2> QED BY <2>1, <2>2, <2>3
<1>7. t.peak >= t.rate /\ t.stop >= AR!Stop0(variant)
  BY <1>3, <1>4, <1>5, <1>6 DEF AR!F!Larger
<1>8. Listed(answer)
  BY ArcaneAskLists
<1> HIDE DEF answer
<1>9. outcome'.done = answer.done /\ outcome'.asked = answer.asked
  BY <1>1
<1>10. outcome'.done # "none" => outcome'.done = outcome'.asked[Len(outcome'.asked)]
  BY <1>8, <1>9 DEF Listed
<1>11. (AR!Stop0(variant))' = AR!Stop0(variant)
  BY <1>1 DEF AR!Stop0
<1> QED BY <1>1, <1>4, <1>7, <1>10, <1>11 DEF AR!TypeOK, AR!F!TypeOK

LEMMA ArcaneTypedStep == ArcaneTyped /\ ArcaneInv /\ [Next]_vars => ArcaneTyped'
<1> SUFFICES ASSUME ArcaneTyped, ArcaneInv, [Next]_vars, which' = "arcane" PROVE AR!TypeOK'
  BY DEF ArcaneTyped
<1>0. which = "arcane"
  BY DEF Next, vars
<1>1. AR!TypeOK
  BY <1>0 DEF ArcaneTyped
<1>2. CASE UNCHANGED loop
  BY <1>1, <1>2 DEF loop, AR!TypeOK, AR!F!TypeOK, AR!Stop0
<1>3. CASE AR!F!Open
  <2> DEFINE t == [tag |-> AR!Entry(variant, candle), rate |-> 1000, peak |-> 1000,
                   stop |-> AR!Stop0(variant), age |-> 0]
  <2>1. trade' = t /\ outcome'.done = "none" /\ variant' = variant /\ candle' = candle
    BY <1>3 DEF AR!F!Open, AR!F!NoExit
  <2>2. t.rate = 1000 /\ t.peak = 1000 /\ t.stop = AR!Stop0(variant) /\ t.age = 0
    OBVIOUS
  <2>3. 0 \in ArcaneAges /\ AR!Stop0(variant) \in Int
    BY <1>0, ReplayAssumption DEF AR!ArcaneAssumption, AR!Stop0
  <2>4. (AR!Stop0(variant))' = AR!Stop0(variant)
    BY <2>1 DEF AR!Stop0
  <2> HIDE DEF t
  <2> QED BY <1>0, <1>1, <2>1, <2>2, <2>3, <2>4 DEF AR!TypeOK, AR!F!TypeOK
<1>4. CASE AR!F!Wait
  BY <1>1, <1>4 DEF AR!F!Wait, AR!TypeOK, AR!F!TypeOK
<1>5. CASE AR!F!Close
  BY <1>0, <1>1, <1>5 DEF AR!F!Close, AR!F!NoExit, AR!TypeOK, AR!F!TypeOK
<1>6. ASSUME NEW rate \in ArcaneRates, NEW c \in ArcaneCandles, NEW age \in ArcaneAges, AR!F!Tick(rate, c, age)
      PROVE  AR!TypeOK'
  BY <1>0, <1>1, <1>6, ArcaneTypedTick
<1>7. AR!Next \/ UNCHANGED loop
  BY <1>0 DEF Next, vars, loop
<1> QED BY <1>2, <1>3, <1>4, <1>5, <1>6, <1>7 DEF AR!Next, AR!F!Next

LEMMA ArcaneTypedAlways == Spec => []ArcaneTyped
BY ArcaneTypedInit, ArcaneTypedStep, ArcaneAlways, PTL DEF Spec

----------------------------------------------------------------------------
\* NASOS

LEMMA NasosAskLists ==
  ASSUME NEW t, NEW c
  PROVE  Listed(NA!F!Ask(t, c))
<1> DEFINE Put(a, due, exit) == NA!F!Put(a, due, exit, t, c)
<1>1. ASSUME NEW a, Listed(a), NEW due, NEW exit PROVE Listed(Put(a, due, exit))
  <2>1. CASE due /\ a.done = "none"
    <3> DEFINE b == NA!F!Put(a, due, exit, t, c)
    <3>1. b.asked = Append(a.asked, exit) /\ b.done \in {exit, "none"}
      BY <2>1 DEF NA!F!Put
    <3> HIDE DEF b
    <3>2. Listed(b)
      BY <1>1, <3>1, Listing
    <3> QED BY <3>2 DEF b
  <2>2. CASE ~(due /\ a.done = "none")
    <3>1. NA!F!Put(a, due, exit, t, c) = a
      BY <2>2 DEF NA!F!Put
    <3> QED BY <1>1, <3>1
  <2> QED BY <2>1, <2>2
<1> DEFINE none == [memory |-> memory, asked |-> <<>>, done |-> "none"]
           stopped == t.rate <= t.stop
           paid == NA!F!Profit(t) > NA!Roi(variant, t.age) /\ ~NA!IgnoreRoi(variant, t, c)
           sig == NA!F!Signal(t, c)
           a1 == Put(none, sig # "none", sig)
           a2 == Put(a1, stopped /\ t.stop = NA!Stop0(variant), "stop_loss")
           a3 == Put(a2, paid, "roi")
           a4 == Put(a3, stopped /\ t.stop # NA!Stop0(variant), "trailing_stop_loss")
<1>2. NA!F!Ask(t, c) = a4
  BY DEF NA!F!Ask
<1>3. Listed(none)
  <2>1. none.asked = <<>> /\ none.done = "none" /\ <<>> \in Seq({})
    OBVIOUS
  <2> QED BY <2>1 DEF Listed
<1> HIDE DEF none, sig, paid, stopped, Put
<1>4. Listed(a1)
  BY <1>1, <1>3
<1> HIDE DEF a1
<1>5. Listed(a2)
  BY <1>1, <1>4
<1> HIDE DEF a2
<1>6. Listed(a3)
  BY <1>1, <1>5
<1> HIDE DEF a3
<1>7. Listed(a4)
  BY <1>1, <1>6
<1> QED BY <1>2, <1>7

NasosTyped == which = "nasos" => NA!TypeOK

LEMMA NasosTypedInit == Init => NasosTyped
<1> SUFFICES ASSUME Init, which = "nasos" PROVE NA!TypeOK
  BY DEF NasosTyped
<1>1. NA!Init
  BY DEF Init
<1> QED BY <1>1, NasosInit DEF NA!Init, NA!F!Init, NA!F!NoExit, NA!TypeOK, NA!F!TypeOK, NasosInv, NA!Retries

LEMMA NasosTypedTick ==
  ASSUME which = "nasos", NA!TypeOK, NasosInv, NEW rate \in NasosRates, NEW c \in NasosCandles,
         NEW age \in NasosAges, NA!F!Tick(rate, c, age), NasosInv', which' = "nasos"
  PROVE  NA!TypeOK'
<1> DEFINE seen == [trade EXCEPT !.rate = rate, !.peak = NA!F!Larger(@, rate), !.age = age]
           ask == NA!StopFor(variant, seen)
           t == [seen EXCEPT !.stop = NA!F!Larger(@, ask)]
           answer == NA!F!Ask(t, c)
<1>1. /\ trade # <<>> /\ trade' = t /\ candle' = c /\ variant' = variant
      /\ outcome' = [asked |-> answer.asked, done |-> answer.done]
  BY DEF NA!F!Tick
<1>2. IsTrade(trade)
  <2>1. trade \in NasosTrades
    BY <1>1 DEF NasosInv
  <2> QED BY <2>1 DEF NasosTrades, IsTrade
<1>3. rate \in Nat
  BY NasosValues
<1>4. /\ seen.rate = rate /\ t.rate = rate /\ t.age = age
      /\ t.peak = NA!F!Larger(trade.peak, rate) /\ t.stop = NA!F!Larger(trade.stop, ask) /\ t # <<>>
  <2> DEFINE top == NA!F!Larger(trade.peak, rate)
             up == NA!F!Larger(trade.stop, ask)
  <2>1. seen = [trade EXCEPT !.rate = rate, !.peak = top, !.age = age]
    OBVIOUS
  <2>2. t = [seen EXCEPT !.stop = NA!F!Larger(seen.stop, ask)]
    OBVIOUS
  <2> HIDE DEF seen, t, ask, top
  <2>3. /\ DOMAIN seen = {"tag", "rate", "peak", "stop", "age"}
        /\ seen.rate = rate /\ seen.stop = trade.stop /\ seen.peak = top /\ seen.age = age
        /\ seen.tag = trade.tag
    BY <1>2, <2>1 DEF IsTrade
  <2>4. t = [seen EXCEPT !.stop = up]
    BY <2>2, <2>3
  <2> HIDE DEF up
  <2>5. /\ t.tag = seen.tag /\ t.rate = seen.rate /\ t.peak = seen.peak /\ t.age = seen.age
        /\ t.stop = up /\ t # <<>>
    BY <2>3, <2>4, StoppedTrade
  <2> QED BY <2>3, <2>5 DEF top, up
<1> HIDE DEF t, seen
<1>5. ask \in Int
  BY <1>3, <1>4 , NasosStopFor DEF ask, NasosInv
<1> HIDE DEF ask
<1>6. trade.peak \in Int /\ trade.stop \in Int /\ trade.stop >= NA!Stop0(variant) /\ NA!Stop0(variant) \in Int
  <2>1. trade.peak \in Int /\ trade.stop \in Int
    BY <1>2 DEF IsTrade
  <2>2. trade.stop >= NA!Stop0(variant)
    BY <1>1 DEF NA!TypeOK, NA!F!TypeOK
  <2>3. NA!Stop0(variant) \in Int
    BY NasosVariantValues DEF NasosInv, NA!Stop0
  <2> QED BY <2>1, <2>2, <2>3
<1>7. t.peak >= t.rate /\ t.stop >= NA!Stop0(variant)
  BY <1>3, <1>4, <1>5, <1>6 DEF NA!F!Larger
<1>8. Listed(answer)
  BY NasosAskLists
<1> HIDE DEF answer
<1>9. outcome'.done = answer.done /\ outcome'.asked = answer.asked
  BY <1>1
<1>10. outcome'.done # "none" => outcome'.done = outcome'.asked[Len(outcome'.asked)]
  BY <1>8, <1>9 DEF Listed
<1>11. (NA!Stop0(variant))' = NA!Stop0(variant)
  BY <1>1 DEF NA!Stop0
<1> QED BY <1>1, <1>4, <1>7, <1>10, <1>11 DEF NA!TypeOK, NA!F!TypeOK, NasosInv, NA!Retries

LEMMA NasosTypedStep == NasosTyped /\ NasosInv /\ [Next]_vars => NasosTyped'
<1> SUFFICES ASSUME NasosTyped, NasosInv, [Next]_vars, which' = "nasos" PROVE NA!TypeOK'
  BY DEF NasosTyped
<1>0. which = "nasos" /\ NasosInv'
  BY NasosStep DEF Next, vars
<1>1. NA!TypeOK
  BY <1>0 DEF NasosTyped
<1>2. CASE UNCHANGED loop
  BY <1>1, <1>2 DEF loop, NA!TypeOK, NA!F!TypeOK, NA!Stop0
<1>3. CASE NA!F!Open
  <2> DEFINE t == [tag |-> NA!Entry(variant, candle), rate |-> 1000, peak |-> 1000,
                   stop |-> NA!Stop0(variant), age |-> 0]
  <2>1. trade' = t /\ outcome'.done = "none" /\ variant' = variant /\ candle' = candle
    BY <1>3 DEF NA!F!Open, NA!F!NoExit
  <2>2. t.rate = 1000 /\ t.peak = 1000 /\ t.stop = NA!Stop0(variant) /\ t.age = 0
    OBVIOUS
  <2>3. 0 \in NasosAges /\ NA!Stop0(variant) \in Int
    BY <1>0, ReplayAssumption, NasosVariantValues DEF NA!NasosAssumption, NasosInv, NA!Stop0
  <2>4. (NA!Stop0(variant))' = NA!Stop0(variant)
    BY <2>1 DEF NA!Stop0
  <2> HIDE DEF t
  <2> QED BY <1>0, <1>1, <2>1, <2>2, <2>3, <2>4 DEF NA!TypeOK, NA!F!TypeOK, NasosInv, NA!Retries
<1>4. CASE NA!F!Wait
  BY <1>1, <1>4 DEF NA!F!Wait, NA!TypeOK, NA!F!TypeOK
<1>5. CASE NA!F!Close
  BY <1>0, <1>1, <1>5 DEF NA!F!Close, NA!F!NoExit, NA!TypeOK, NA!F!TypeOK, NasosInv, NA!Retries
<1>6. ASSUME NEW rate \in NasosRates, NEW c \in NasosCandles, NEW age \in NasosAges, NA!F!Tick(rate, c, age)
      PROVE  NA!TypeOK'
  BY <1>0, <1>1, <1>6, NasosTypedTick
<1>7. NA!Next \/ UNCHANGED loop
  BY <1>0 DEF Next, vars, loop
<1> QED BY <1>2, <1>3, <1>4, <1>5, <1>6, <1>7 DEF NA!Next, NA!F!Next

LEMMA NasosTypedAlways == Spec => []NasosTyped
BY NasosTypedInit, NasosTypedStep, NasosAlways, PTL DEF Spec

----------------------------------------------------------------------------
\* The Elliot strategies

LEMMA SignalAskLists ==
  ASSUME NEW t, NEW c
  PROVE  Listed(SG!F!Ask(t, c))
<1> DEFINE Put(a, due, exit) == SG!F!Put(a, due, exit, t, c)
<1>1. ASSUME NEW a, Listed(a), NEW due, NEW exit PROVE Listed(Put(a, due, exit))
  <2>1. CASE due /\ a.done = "none"
    <3> DEFINE b == SG!F!Put(a, due, exit, t, c)
    <3>1. b.asked = Append(a.asked, exit) /\ b.done \in {exit, "none"}
      BY <2>1 DEF SG!F!Put
    <3> HIDE DEF b
    <3>2. Listed(b)
      BY <1>1, <3>1, Listing
    <3> QED BY <3>2 DEF b
  <2>2. CASE ~(due /\ a.done = "none")
    <3>1. SG!F!Put(a, due, exit, t, c) = a
      BY <2>2 DEF SG!F!Put
    <3> QED BY <1>1, <3>1
  <2> QED BY <2>1, <2>2
<1> DEFINE none == [memory |-> memory, asked |-> <<>>, done |-> "none"]
           stopped == t.rate <= t.stop
           paid == SG!F!Profit(t) > SG!Roi(variant, t.age) /\ ~SG!IgnoreRoi(variant, t, c)
           sig == SG!F!Signal(t, c)
           a1 == Put(none, sig # "none", sig)
           a2 == Put(a1, stopped /\ t.stop = SG!Stop0(variant), "stop_loss")
           a3 == Put(a2, paid, "roi")
           a4 == Put(a3, stopped /\ t.stop # SG!Stop0(variant), "trailing_stop_loss")
<1>2. SG!F!Ask(t, c) = a4
  BY DEF SG!F!Ask
<1>3. Listed(none)
  <2>1. none.asked = <<>> /\ none.done = "none" /\ <<>> \in Seq({})
    OBVIOUS
  <2> QED BY <2>1 DEF Listed
<1> HIDE DEF none, sig, paid, stopped, Put
<1>4. Listed(a1)
  BY <1>1, <1>3
<1> HIDE DEF a1
<1>5. Listed(a2)
  BY <1>1, <1>4
<1> HIDE DEF a2
<1>6. Listed(a3)
  BY <1>1, <1>5
<1> HIDE DEF a3
<1>7. Listed(a4)
  BY <1>1, <1>6
<1> QED BY <1>2, <1>7

SignalTyped == which = "signals" => SG!TypeOK

LEMMA SignalTypedInit == Init => SignalTyped
<1> SUFFICES ASSUME Init, which = "signals" PROVE SG!TypeOK
  BY DEF SignalTyped
<1>1. SG!Init
  BY DEF Init
<1> QED BY <1>1 DEF SG!Init, SG!F!Init, SG!F!NoExit, SG!TypeOK, SG!F!TypeOK

LEMMA SignalTypedTick ==
  ASSUME which = "signals", SG!TypeOK, SignalInv, NEW rate \in SignalRates, NEW c \in SignalCandles,
         NEW age \in SignalAges, SG!F!Tick(rate, c, age)
  PROVE  SG!TypeOK'
<1> DEFINE seen == [trade EXCEPT !.rate = rate, !.peak = SG!F!Larger(@, rate), !.age = age]
           ask == SG!StopFor(variant, seen)
           t == [seen EXCEPT !.stop = SG!F!Larger(@, ask)]
           answer == SG!F!Ask(t, c)
<1>1. /\ trade # <<>> /\ trade' = t /\ candle' = c /\ variant' = variant
      /\ outcome' = [asked |-> answer.asked, done |-> answer.done]
  BY DEF SG!F!Tick
<1>2. IsTrade(trade)
  BY <1>1 DEF SignalInv, SignalTrades, IsTrade
<1>3. rate \in Nat
  BY SignalValues
<1>4. /\ seen.rate = rate /\ t.rate = rate /\ t.age = age
      /\ t.peak = SG!F!Larger(trade.peak, rate) /\ t.stop = SG!F!Larger(trade.stop, ask) /\ t # <<>>
  <2> DEFINE top == SG!F!Larger(trade.peak, rate)
             up == SG!F!Larger(trade.stop, ask)
  <2>1. seen = [trade EXCEPT !.rate = rate, !.peak = top, !.age = age]
    OBVIOUS
  <2>2. t = [seen EXCEPT !.stop = SG!F!Larger(seen.stop, ask)]
    OBVIOUS
  <2> HIDE DEF seen, t, ask, top
  <2>3. /\ DOMAIN seen = {"tag", "rate", "peak", "stop", "age"}
        /\ seen.rate = rate /\ seen.stop = trade.stop /\ seen.peak = top /\ seen.age = age
        /\ seen.tag = trade.tag
    BY <1>2, <2>1 DEF IsTrade
  <2>4. t = [seen EXCEPT !.stop = up]
    BY <2>2, <2>3
  <2> HIDE DEF up
  <2>5. /\ t.tag = seen.tag /\ t.rate = seen.rate /\ t.peak = seen.peak /\ t.age = seen.age
        /\ t.stop = up /\ t # <<>>
    BY <2>3, <2>4, StoppedTrade
  <2> QED BY <2>3, <2>5 DEF top, up
<1> HIDE DEF t, seen
<1>5. ask \in Int
  BY <1>3, <1>4 , SignalStopFor DEF ask, SignalInv
<1> HIDE DEF ask
<1>6. trade.peak \in Int /\ trade.stop \in Int /\ trade.stop >= SG!Stop0(variant) /\ SG!Stop0(variant) \in Int
  <2>1. trade.peak \in Int /\ trade.stop \in Int
    BY <1>2 DEF IsTrade
  <2>2. trade.stop >= SG!Stop0(variant)
    BY <1>1 DEF SG!TypeOK, SG!F!TypeOK
  <2>3. SG!Stop0(variant) \in Int
    BY SignalVariantValues, LongShortValues DEF SignalInv, SignalVariants, SG!Stop0
  <2> QED BY <2>1, <2>2, <2>3
<1>7. t.peak >= t.rate /\ t.stop >= SG!Stop0(variant)
  BY <1>3, <1>4, <1>5, <1>6 DEF SG!F!Larger
<1>8. Listed(answer)
  BY SignalAskLists
<1> HIDE DEF answer
<1>9. outcome'.done = answer.done /\ outcome'.asked = answer.asked
  BY <1>1
<1>10. outcome'.done # "none" => outcome'.done = outcome'.asked[Len(outcome'.asked)]
  BY <1>8, <1>9 DEF Listed
<1>11. (SG!Stop0(variant))' = SG!Stop0(variant)
  BY <1>1 DEF SG!Stop0
<1> QED BY <1>1, <1>4, <1>7, <1>10, <1>11 DEF SG!TypeOK, SG!F!TypeOK

LEMMA SignalTypedStep == SignalTyped /\ SignalInv /\ [Next]_vars => SignalTyped'
<1> SUFFICES ASSUME SignalTyped, SignalInv, [Next]_vars, which' = "signals" PROVE SG!TypeOK'
  BY DEF SignalTyped
<1>0. which = "signals"
  BY DEF Next, vars
<1>1. SG!TypeOK
  BY <1>0 DEF SignalTyped
<1>2. CASE UNCHANGED loop
  BY <1>1, <1>2 DEF loop, SG!TypeOK, SG!F!TypeOK, SG!Stop0
<1>3. CASE SG!F!Open
  <2> DEFINE t == [tag |-> SG!Entry(variant, candle), rate |-> 1000, peak |-> 1000,
                   stop |-> SG!Stop0(variant), age |-> 0]
  <2>1. trade' = t /\ outcome'.done = "none" /\ variant' = variant /\ candle' = candle
    BY <1>3 DEF SG!F!Open, SG!F!NoExit
  <2>2. t.rate = 1000 /\ t.peak = 1000 /\ t.stop = SG!Stop0(variant) /\ t.age = 0
    OBVIOUS
  <2>3. 0 \in SignalAges /\ SG!Stop0(variant) \in Int
    BY <1>0, ReplayAssumption, SignalVariantValues, LongShortValues DEF SG!SignalAssumption, SignalInv, SignalVariants, SG!Stop0
  <2>4. (SG!Stop0(variant))' = SG!Stop0(variant)
    BY <2>1 DEF SG!Stop0
  <2> HIDE DEF t
  <2> QED BY <1>0, <1>1, <2>1, <2>2, <2>3, <2>4 DEF SG!TypeOK, SG!F!TypeOK
<1>4. CASE SG!F!Wait
  BY <1>1, <1>4 DEF SG!F!Wait, SG!TypeOK, SG!F!TypeOK
<1>5. CASE SG!F!Close
  BY <1>0, <1>1, <1>5 DEF SG!F!Close, SG!F!NoExit, SG!TypeOK, SG!F!TypeOK
<1>6. ASSUME NEW rate \in SignalRates, NEW c \in SignalCandles, NEW age \in SignalAges, SG!F!Tick(rate, c, age)
      PROVE  SG!TypeOK'
  BY <1>0, <1>1, <1>6, SignalTypedTick
<1>7. SG!Next \/ UNCHANGED loop
  BY <1>0 DEF Next, vars, loop
<1> QED BY <1>2, <1>3, <1>4, <1>5, <1>6, <1>7 DEF SG!Next, SG!F!Next

LEMMA SignalTypedAlways == Spec => []SignalTyped
BY SignalTypedInit, SignalTypedStep, SignalAlways, PTL DEF Spec

----------------------------------------------------------------------------
\* Dead rules of ArcaneLiM2

\* A signal goes through on a candle that buys nothing.
LEMMA ArcaneSignal ==
  ASSUME NEW t, NEW c, AR!F!Ask(t, c).done = "signal"
  PROVE  AR!Entry(variant, c) = "none"
<1> DEFINE stopped == t.rate <= t.stop
           paid == AR!F!Profit(t) > AR!Roi(variant, t.age) /\ ~AR!IgnoreRoi(variant, t, c)
           none == [memory |-> memory, asked |-> <<>>, done |-> "none"]
           sig == AR!F!Signal(t, c)
           d1 == sig # "none"
           d2 == stopped /\ t.stop = AR!Stop0(variant)
           d4 == stopped /\ t.stop # AR!Stop0(variant)
           a1 == AR!F!Put(none, d1, sig, t, c)
           a2 == AR!F!Put(a1, d2, "stop_loss", t, c)
           a3 == AR!F!Put(a2, paid, "roi", t, c)
           a4 == AR!F!Put(a3, d4, "trailing_stop_loss", t, c)
<1>1. AR!F!Ask(t, c) = a4
  BY DEF AR!F!Ask
<1>2. ASSUME NEW a, NEW due, NEW exit
      PROVE  LET b == AR!F!Put(a, due, exit, t, c) IN b.done \in {a.done, exit, "none"}
  BY DEF AR!F!Put
<1>3. a1.done \in {none.done, sig, "none"}
  BY <1>2
<1>4. a2.done \in {a1.done, "stop_loss", "none"}
  BY <1>2
<1>5. a3.done \in {a2.done, "roi", "none"}
  BY <1>2
<1>6. a4.done \in {a3.done, "trailing_stop_loss", "none"}
  BY <1>2
<1>7. none.done = "none" /\ a4.done = "signal"
  BY <1>1
<1> HIDE DEF none, a1, a2, a3, a4, sig
<1>8. sig = "signal"
  BY <1>3, <1>4, <1>5, <1>6, <1>7
<1>9. sig = IF AR!Leaves(variant, t, c) THEN "signal" ELSE AR!CustomSell(t, c)
  BY DEF sig, AR!F!Signal
<1>10. AR!CustomSell(t, c) # "signal"
  BY ArcaneCustom
<1> QED BY <1>8, <1>9, <1>10 DEF AR!Leaves

ArcaneDead == which = "arcane" => AR!EwoMomentumIsDead /\ AR!IchimokuExitIsDead

LEMMA ArcaneDeadInit == Init => ArcaneDead
<1> SUFFICES ASSUME Init, which = "arcane" PROVE AR!EwoMomentumIsDead /\ AR!IchimokuExitIsDead
  BY DEF ArcaneDead
<1>1. AR!Init
  BY DEF Init
<1>2. trade = <<>> /\ outcome.done = "none"
  BY <1>1 DEF AR!Init, AR!F!Init, AR!F!NoExit
<1> QED BY <1>2 DEF AR!EwoMomentumIsDead, AR!IchimokuExitIsDead

LEMMA ArcaneDeadTick ==
  ASSUME which = "arcane", ArcaneInv, AR!EwoMomentumIsDead,
         NEW rate \in ArcaneRates, NEW c \in ArcaneCandles, NEW age \in ArcaneAges,
         AR!F!Tick(rate, c, age)
  PROVE  (AR!EwoMomentumIsDead)' /\ (AR!IchimokuExitIsDead)'
<1> DEFINE seen == [trade EXCEPT !.rate = rate, !.peak = AR!F!Larger(@, rate), !.age = age]
           stop1 == AR!F!Larger(seen.stop, AR!StopFor(variant, seen))
           t == [seen EXCEPT !.stop = stop1]
           answer == AR!F!Ask(t, c)
<1>1. /\ trade # <<>> /\ trade' = t /\ candle' = c /\ variant' = variant
      /\ outcome' = [asked |-> answer.asked, done |-> answer.done]
  BY DEF AR!F!Tick
<1>2. IsTrade(trade)
  BY <1>1 DEF ArcaneInv, ArcaneTrade, IsTrade
<1>3. DOMAIN seen = {"tag", "rate", "peak", "stop", "age"} /\ seen.tag = trade.tag
  BY <1>2 DEF IsTrade
<1> HIDE DEF seen, stop1
<1>4. t.tag = trade.tag
  BY <1>3, StoppedTrade
<1> HIDE DEF t
<1>5. trade'.tag # "ewo_momentum"
  BY <1>1, <1>4 DEF AR!EwoMomentumIsDead
<1>6. outcome'.done = answer.done
  BY <1>1
<1>7. answer.done = "signal" => AR!Entry(variant, c) = "none"
  BY ArcaneSignal
<1> HIDE DEF answer
<1>8. AR!Entry(variant, c) = "none" => AR!ExitTag(variant, c) # "ichimoku_dema_exit"
  BY ArcaneNoIchimoku
<1>9. (AR!ExitTag(variant, candle))' = AR!ExitTag(variant, c)
  BY <1>1
<1> QED BY <1>5, <1>6, <1>7, <1>8, <1>9 DEF AR!EwoMomentumIsDead, AR!IchimokuExitIsDead

LEMMA ArcaneDeadStep == ArcaneDead /\ ArcaneTyped /\ ArcaneInv /\ [Next]_vars => ArcaneDead'
<1> SUFFICES ASSUME ArcaneDead, ArcaneTyped, ArcaneInv, [Next]_vars, which' = "arcane"
             PROVE  (AR!EwoMomentumIsDead)' /\ (AR!IchimokuExitIsDead)'
  BY DEF ArcaneDead
<1>0. which = "arcane"
  BY DEF Next, vars
<1>1. AR!EwoMomentumIsDead /\ AR!IchimokuExitIsDead
  BY <1>0 DEF ArcaneDead
<1>2. CASE UNCHANGED loop
  BY <1>1, <1>2 DEF loop, AR!EwoMomentumIsDead, AR!IchimokuExitIsDead
<1>3. CASE AR!F!Open
  <2> DEFINE tag == AR!Entry(variant, candle)
             t == [tag |-> tag, rate |-> 1000, peak |-> 1000,
                   stop |-> AR!Stop0(variant), age |-> 0]
  <2>1. trade' = t /\ outcome'.done = "none"
    BY <1>3 DEF AR!F!Open, AR!F!NoExit
  <2>2. candle \in ArcaneCandles
    BY <1>0 DEF ArcaneTyped, AR!TypeOK, AR!F!TypeOK
  <2>3. tag # "ewo_momentum"
    BY <2>2, ArcaneNoEwo
  <2> HIDE DEF tag
  <2>4. t.tag = tag
    OBVIOUS
  <2> HIDE DEF t
  <2> QED BY <2>1, <2>3, <2>4 DEF AR!EwoMomentumIsDead, AR!IchimokuExitIsDead
<1>4. CASE AR!F!Wait
  <2>1. outcome' = outcome /\ trade = <<>> /\ trade' = trade
    BY <1>4 DEF AR!F!Wait
  <2>2. outcome.done = "none"
    BY <1>0, <2>1 DEF ArcaneInv
  <2> QED BY <2>1, <2>2 DEF AR!EwoMomentumIsDead, AR!IchimokuExitIsDead
<1>5. CASE AR!F!Close
  BY <1>5 DEF AR!F!Close, AR!F!NoExit, AR!EwoMomentumIsDead, AR!IchimokuExitIsDead
<1>6. ASSUME NEW rate \in ArcaneRates, NEW c \in ArcaneCandles, NEW age \in ArcaneAges,
             AR!F!Tick(rate, c, age)
      PROVE  (AR!EwoMomentumIsDead)' /\ (AR!IchimokuExitIsDead)'
  BY <1>0, <1>1, <1>6, ArcaneDeadTick
<1>7. AR!Next \/ UNCHANGED loop
  BY <1>0 DEF Next, vars, loop
<1> QED BY <1>2, <1>3, <1>4, <1>5, <1>6, <1>7 DEF AR!Next, AR!F!Next

LEMMA ArcaneDeadAlways == Spec => []ArcaneDead
BY ArcaneDeadInit, ArcaneDeadStep, ArcaneTypedAlways, ArcaneAlways, PTL DEF Spec

\* The port protects a candle as its original does, and gives a trade up for the same reason.
LEMMA ArcanePorted == AR!PortsNfi5
<1>1. \A n \in DOMAIN AR!Guard : AR!G!Protected(candle, n) <=> AR!N!G!Protected(candle, n)
  BY ArcaneProtected
<1>2. AR!CustomSell(trade, candle) = AR!N!CustomSell(trade, candle)
  BY ArcaneCustom
<1> QED BY <1>1, <1>2 DEF AR!PortsNfi5

----------------------------------------------------------------------------
\* Counting up, orders and curves

\* A set that starts at 0 and has what follows each of its members has all up to n.
LEMMA CountUp ==
  ASSUME NEW n \in Nat, NEW P, 0 \in P, \A k \in 0..n : k \in P /\ k < n => k + 1 \in P
  PROVE  \A k \in 0..n : k \in P
<1> DEFINE S == {k \in 1..n : k \notin P}
           k == SC!Least(S)
<1>1. ASSUME S # {} PROVE FALSE
  <2>1. S \in SUBSET (1..n)
    OBVIOUS
  <2> HIDE DEF S
  <2>2. k \in S /\ \A i \in S : k =< i
    BY <1>1, <2>1, LeastExists
  <2> HIDE DEF k
  <2>3. k \in 1..n /\ k \notin P
    BY <2>2 DEF S
  <2>4. k - 1 \in 0..n /\ k - 1 < n /\ k - 1 \notin S
    BY <2>1, <2>2, <2>3
  <2>5. k - 1 \in P
    BY <2>3, <2>4 DEF S
  <2>6. (k - 1) + 1 = k
    BY <2>3
  <2> QED BY <2>3, <2>4, <2>5, <2>6
<1>2. \A k_1 \in 0..n : k_1 = 0 \/ k_1 \in 1..n
  OBVIOUS
<1> QED BY <1>1, <1>2

\* In a finite order every rank is taken once.
LEMMA Ranks ==
  ASSUME NEW S, IsFiniteSet(S), NEW R,
         \A x \in S : <<x, x>> \notin R,
         \A x, y, z \in S : <<x, y>> \in R /\ <<y, z>> \in R => <<x, z>> \in R,
         \A x, y \in S : x # y => <<x, y>> \in R \/ <<y, x>> \in R
  PROVE  \A k \in 1..Cardinality(S) :
           \E x \in S : Cardinality({y \in S : <<y, x>> \in R}) = k - 1
<1> DEFINE n == Cardinality(S)
           Below(x) == {y \in S : <<y, x>> \in R}
           r == [x \in S |-> Cardinality(Below(x)) + 1]
<1>1. n \in Nat
  BY FS_CardinalityType
<1>2. ASSUME NEW x \in S
      PROVE  Below(x) \in SUBSET (S \ {x}) /\ IsFiniteSet(Below(x)) /\ Cardinality(Below(x)) \in 0..(n - 1)
  <2>1. Below(x) \in SUBSET (S \ {x})
    OBVIOUS
  <2>2. IsFiniteSet(S \ {x}) /\ Cardinality(S \ {x}) = n - 1
    BY FS_RemoveElement
  <2> HIDE DEF Below
  <2>3. IsFiniteSet(Below(x)) /\ Cardinality(Below(x)) <= n - 1
    BY <2>1, <2>2, FS_Subset
  <2>4. Cardinality(Below(x)) \in Nat
    BY <2>3, FS_CardinalityType
  <2> QED BY <1>1, <2>1, <2>3, <2>4
<1>3. ASSUME NEW x \in S, NEW y \in S, <<x, y>> \in R
      PROVE  Cardinality(Below(x)) < Cardinality(Below(y))
  <2>1. Below(x) \in SUBSET Below(y) /\ x \in Below(y) /\ x \notin Below(x)
    BY <1>3
  <2> HIDE DEF Below
  <2>2. Cardinality(Below(x)) <= Cardinality(Below(y)) /\ Cardinality(Below(x)) # Cardinality(Below(y))
    BY <1>2, <2>1, FS_Subset
  <2> QED BY <1>1, <1>2, <2>2
<1>4. r \in [S -> 1..n]
  <2> HIDE DEF Below
  <2>1. \A x \in S : Cardinality(Below(x)) + 1 \in 1..n
    BY <1>1, <1>2
  <2> QED BY <2>1
<1>5. ASSUME NEW x \in S, NEW y \in S, r[x] = r[y] PROVE x = y
  <2>1. Cardinality(Below(x)) = Cardinality(Below(y))
    <3> HIDE DEF Below
    <3> QED BY <1>2, <1>1, <1>5
  <2>2. CASE <<x, y>> \in R
    <3> HIDE DEF Below
    <3> QED BY <1>1, <1>2, <1>3, <2>1, <2>2
  <2>3. CASE <<y, x>> \in R
    <3> HIDE DEF Below
    <3> QED BY <1>1, <1>2, <1>3, <2>1, <2>3
  <2> QED BY <2>2, <2>3
<1> HIDE DEF r
<1>6. r \in Injection(S, 1..n)
  BY <1>4, <1>5 DEF Injection, IsInjective
<1>7. IsFiniteSet(1..n) /\ Cardinality(1..n) = n
  <2>1. IsFiniteSet(1..n) /\ Cardinality(1..n) = IF 1 > n THEN 0 ELSE n - 1 + 1
    BY <1>1, FS_Interval
  <2> QED BY <1>1, <2>1
<1>8. r \in Surjection(S, 1..n)
  BY <1>6, <1>7, FS_Injection
<1>9. ASSUME NEW k \in 1..n PROVE \E x \in S : Cardinality(Below(x)) = k - 1
  <2>1. PICK x \in S : r[x] = k
    BY <1>8 DEF Surjection
  <2>2. Cardinality(Below(x)) + 1 = k
    BY <2>1 DEF r
  <2> HIDE DEF Below
  <2>3. Cardinality(Below(x)) = k - 1
    BY <1>1, <1>2, <2>2
  <2> QED BY <2>3
<1> QED BY <1>9

\* What is defined step by step exists.
Steps(n, V) == [1..n -> [V -> V]]

Walk(n, V, b, g, w) ==
  w \in [0..n -> V] /\ w[0] = b /\ \A k \in 1..n : w[k] = g[k][w[k - 1]]

LEMMA StepByStep ==
  ASSUME NEW n \in Nat, NEW V, NEW b \in V, NEW g \in Steps(n, V)
  PROVE  \E w : Walk(n, V, b, g, w)
<1> USE DEF Steps
<1> DEFINE Good(m, w) == /\ w \in [0..m -> V] /\ w[0] = b
                         /\ \A k \in 1..m : w[k] = g[k][w[k - 1]]
           P == {m \in 0..n : \E w : Good(m, w)}
<1>1. 0 \in P
  <2> DEFINE z == [k \in 0..0 |-> b]
  <2>1. z \in [0..0 -> V] /\ z[0] = b
    OBVIOUS
  <2>2. \A k \in 1..0 : z[k] = g[k][z[k - 1]]
    OBVIOUS
  <2> HIDE DEF z
  <2>3. Good(0, z)
    BY <2>1, <2>2
  <2> QED BY <2>3
<1>2. ASSUME NEW m \in 0..n, m \in P, m < n PROVE m + 1 \in P
  <2>1. PICK w : Good(m, w)
    BY <1>2
  <2> DEFINE v == g[m + 1][w[m]]
             u == [k \in 0..(m + 1) |-> IF k = m + 1 THEN v ELSE w[k]]
  <2>2. v \in V
    <3>1. m + 1 \in 1..n /\ m \in 0..m
      BY <1>2
    <3>2. w[m] \in V
      BY <2>1, <3>1
    <3> QED BY <3>1, <3>2
  <2> HIDE DEF v
  <2>3. u \in [0..(m + 1) -> V]
    <3>1. \A k \in 0..(m + 1) : k # m + 1 => k \in 0..m
      OBVIOUS
    <3> QED BY <2>1, <2>2, <3>1
  <2>4. u[0] = b
    BY <2>1
  <2>5. ASSUME NEW k \in 1..(m + 1) PROVE u[k] = g[k][u[k - 1]]
    <3>1. k - 1 \in 0..(m + 1) /\ k - 1 # m + 1 /\ k \in 0..(m + 1)
      OBVIOUS
    <3>2. u[k - 1] = w[k - 1]
      BY <3>1
    <3>3. CASE k = m + 1
      BY <3>1, <3>2, <3>3 DEF v
    <3>4. CASE k # m + 1
      <4>1. k \in 1..m
        BY <3>4
      <4> QED BY <2>1, <3>1, <3>2, <3>4, <4>1
    <3> QED BY <3>3, <3>4
  <2> HIDE DEF u
  <2>6. Good(m + 1, u)
    BY <2>3, <2>4, <2>5
  <2> QED BY <1>2, <2>6
<1> HIDE DEF P
<1>3. \A k \in 0..n : k \in P
  BY <1>1, <1>2, CountUp
<1>4. n \in P
  BY <1>3
<1> QED BY <1>4 DEF P, Walk

\* A point of the curve.
Account == [cum : Int, peak : Int, mdd : Int]

LEMMA TradedType ==
  ASSUME NEW w \in Account, NEW r \in Int
  PROVE  /\ UV!Traded(w, r) \in Account /\ UV!Traded(w, r).cum = w.cum + r
         /\ UV!Traded(w, r).peak = IF w.cum + r > w.peak THEN w.cum + r ELSE w.peak
         /\ UV!Traded(w, r).mdd = IF UV!Traded(w, r).cum - UV!Traded(w, r).peak < w.mdd
                               THEN UV!Traded(w, r).cum - UV!Traded(w, r).peak ELSE w.mdd
<1> DEFINE cum == w.cum + r
           peak == IF cum > w.peak THEN cum ELSE w.peak
           mdd == IF cum - peak < w.mdd THEN cum - peak ELSE w.mdd
<1>1. w.cum \in Int /\ w.peak \in Int /\ w.mdd \in Int
  BY DEF Account
<1>2. cum \in Int /\ peak \in Int
  BY <1>1
<1>3. mdd \in Int
  <2> HIDE DEF cum, peak
  <2> QED BY <1>1, <1>2
<1>4. UV!Traded(w, r) = [cum |-> cum, peak |-> peak, mdd |-> mdd]
  BY DEF UV!Traded
<1>5. /\ UV!Traded(w, r).cum = cum /\ UV!Traded(w, r).peak = peak /\ UV!Traded(w, r).mdd = mdd
      /\ UV!Traded(w, r) \in Account
  <2> HIDE DEF cum, peak, mdd
  <2> QED BY <1>2, <1>3, <1>4 DEF Account
<1> QED BY <1>5

LEMMA CurveSteps ==
  ASSUME NEW rs \in Seq(Int)
  PROVE  /\ UV!Curve(rs)[0] = [cum |-> 0, peak |-> 0, mdd |-> 0]
         /\ \A k \in 1..Len(rs) : UV!Curve(rs)[k] = UV!Traded(UV!Curve(rs)[k - 1], rs[k])
         /\ \A k \in 0..Len(rs) : UV!Curve(rs)[k] \in Account
<1> DEFINE n == Len(rs)
           zero == [cum |-> 0, peak |-> 0, mdd |-> 0]
           Body(c) == [k \in 0..n |-> IF k = 0 THEN zero ELSE UV!Traded(c[k - 1], rs[k])]
           c == UV!Curve(rs)
           g == [k \in 1..n |-> [w \in Account |-> UV!Traded(w, rs[k])]]
<1>1. c = CHOOSE d : d = Body(d)
  BY DEF UV!Curve
<1>2. n \in Nat /\ zero \in Account /\ \A k \in 1..n : rs[k] \in Int
  BY DEF Account
<1>3. g \in [1..n -> [Account -> Account]]
  BY <1>2, TradedType
<1>4. PICK w : w \in [0..n -> Account] /\ w[0] = zero /\ \A k \in 1..n : w[k] = g[k][w[k - 1]]
  <2> HIDE DEF g, n, zero
  <2>1. n \in Nat /\ zero \in Account /\ g \in Steps(n, Account)
    BY <1>2, <1>3 DEF Steps
  <2>2. \E w : Walk(n, Account, zero, g, w)
    BY <2>1, StepByStep
  <2> QED BY <2>2 DEF Walk
<1>5. w = Body(w)
  <2>1. ASSUME NEW k \in 0..n PROVE w[k] = IF k = 0 THEN zero ELSE UV!Traded(w[k - 1], rs[k])
    <3>1. CASE k = 0
      BY <1>4, <3>1
    <3>2. CASE k # 0
      <4>1. k \in 1..n /\ k - 1 \in 0..n
        BY <3>2
      <4>2. w[k - 1] \in Account /\ w[k] = g[k][w[k - 1]]
        BY <1>4, <4>1
      <4> QED BY <3>2, <4>1, <4>2
    <3> QED BY <3>1, <3>2
  <2>2. w \in [0..n -> Account]
    BY <1>4
  <2> HIDE DEF n, zero
  <2> QED BY <2>1, <2>2
<1> HIDE DEF c
<1>6. c = Body(c)
  <2> HIDE DEF Body
  <2> QED BY <1>1, <1>5
<1> HIDE DEF g
<1>7. c[0] = zero
  <2>1. 0 \in 0..n
    BY <1>2
  <2> HIDE DEF n, zero
  <2> QED BY <1>6, <2>1
<1>8. \A k \in 1..n : c[k] = UV!Traded(c[k - 1], rs[k])
  <2>1. \A k \in 1..n : k \in 0..n /\ k # 0
    BY <1>2
  <2> HIDE DEF n, zero
  <2> QED BY <1>6, <2>1
<1> HIDE DEF Body
<1>9. \A k \in 0..n : c[k] \in Account
  <2> DEFINE P == {k \in 0..n : c[k] \in Account}
  <2>1. 0 \in P
    BY <1>2, <1>7
  <2>2. ASSUME NEW k \in 0..n, k \in P, k < n PROVE k + 1 \in P
    <3>1. k + 1 \in 1..n /\ k + 1 \in 0..n /\ (k + 1) - 1 = k
      BY <1>2, <2>2
    <3>2. c[k + 1] = UV!Traded(c[k], rs[k + 1])
      BY <1>8, <3>1
    <3>3. c[k] \in Account /\ rs[k + 1] \in Int
      BY <1>2, <2>2, <3>1
    <3> HIDE DEF n
    <3>4. c[k + 1] \in Account
      BY <3>2, <3>3, TradedType
    <3> QED BY <3>1, <3>4
  <2> HIDE DEF P
  <2>3. \A k \in 0..n : k \in P
    <3> HIDE DEF n
    <3> QED BY <1>2, <2>1, <2>2, CountUp
  <2> QED BY <2>3 DEF P
<1> QED BY <1>7, <1>8, <1>9 DEF c

\* The peak is the highest the curve was, and the drawdown its deepest fall, after every trade.
LEMMA CurveFalls ==
  ASSUME NEW rs \in Seq(Int)
  PROVE  LET c == UV!Curve(rs)
             n == Len(rs)
         IN  \A k \in 0..n :
               /\ \A j \in 0..k : c[j].cum =< c[k].peak
               /\ \E j \in 0..k : c[k].peak = c[j].cum
               /\ \A j \in 0..k : \A i \in 0..j : c[k].mdd =< c[j].cum - c[i].cum
               /\ \E j \in 0..k : \E i \in 0..j : c[k].mdd = c[j].cum - c[i].cum
<1> DEFINE c == UV!Curve(rs)
           n == Len(rs)
           Peak(k) == /\ \A j \in 0..k : c[j].cum =< c[k].peak
                      /\ \E j \in 0..k : c[k].peak = c[j].cum
           Deep(k) == /\ \A j \in 0..k : \A i \in 0..j : c[k].mdd =< c[j].cum - c[i].cum
                      /\ \E j \in 0..k : \E i \in 0..j : c[k].mdd = c[j].cum - c[i].cum
           P == {k \in 0..n : Peak(k) /\ Deep(k)}
<1>1. /\ c[0] = [cum |-> 0, peak |-> 0, mdd |-> 0]
      /\ \A k \in 1..n : c[k] = UV!Traded(c[k - 1], rs[k])
      /\ \A k \in 0..n : c[k] \in Account
      /\ n \in Nat /\ \A k \in 1..n : rs[k] \in Int
  <2>1. Len(rs) \in Nat /\ \A k \in 1..Len(rs) : rs[k] \in Int
    OBVIOUS
  <2> QED BY <2>1, CurveSteps, Zenon
<1> HIDE DEF c, n
<1>2. \A k \in 0..n : c[k].cum \in Int /\ c[k].peak \in Int /\ c[k].mdd \in Int
  BY <1>1 DEF Account
<1>3. 0 \in P
  <2>1. c[0].cum = 0 /\ c[0].peak = 0 /\ c[0].mdd = 0
    BY <1>1
  <2>2. \A j \in 0..0 : j = 0
    OBVIOUS
  <2>3. 0 \in 0..0 /\ 0 \in 0..n
    BY <1>1
  <2>4. Peak(0)
    BY <2>1, <2>2, <2>3
  <2>5. Deep(0)
    BY <2>1, <2>2, <2>3
  <2> QED BY <2>3, <2>4, <2>5
<1>4. ASSUME NEW k \in 0..n, k \in P, k < n PROVE k + 1 \in P
  <2> DEFINE m == k + 1
  <2>1. m \in 1..n /\ m \in 0..n /\ m - 1 = k /\ k \in 0..m /\ m \in 0..m /\ k \in 0..k
    BY <1>1, <1>4
  <2>2. \A j \in 0..m : j = m \/ j \in 0..k
    OBVIOUS
  <2>3. \A j \in 0..k : j \in 0..m /\ j \in 0..n
    BY <1>1, <1>4, <2>1
  <2>4. /\ c[m].cum = c[k].cum + rs[m]
        /\ c[m].peak = IF c[m].cum > c[k].peak THEN c[m].cum ELSE c[k].peak
        /\ c[m].mdd = IF c[m].cum - c[m].peak < c[k].mdd THEN c[m].cum - c[m].peak ELSE c[k].mdd
    <3>1. c[m] = UV!Traded(c[k], rs[m]) /\ c[k] \in Account /\ rs[m] \in Int
      BY <1>1, <2>1
    <3> DEFINE w == c[k]
               r == rs[m]
               t == UV!Traded(w, r)
    <3> HIDE DEF w, r
    <3>2. /\ t.cum = w.cum + r /\ t.peak = IF w.cum + r > w.peak THEN w.cum + r ELSE w.peak
          /\ t.mdd = IF t.cum - t.peak < w.mdd THEN t.cum - t.peak ELSE w.mdd
      BY <3>1, TradedType DEF w, r
    <3>3. c[m] = t
      BY <3>1 DEF w, r
    <3> HIDE DEF t
    <3> QED BY <3>2, <3>3 DEF w, r
  <2> HIDE DEF m
  <2>5. Peak(k) /\ Deep(k)
    BY <1>4
  <2>6. Peak(m)
    <3>1. ASSUME NEW j \in 0..m PROVE c[j].cum =< c[m].peak
      <4>1. c[m].cum \in Int /\ c[k].peak \in Int
        BY <1>2, <2>1
      <4>2. c[m].cum =< c[m].peak /\ c[k].peak =< c[m].peak /\ c[m].peak \in Int
        BY <2>4, <4>1
      <4>3. ASSUME j \in 0..k PROVE c[j].cum =< c[m].peak
        <5>1. c[j].cum \in Int /\ c[j].cum =< c[k].peak
          BY <1>2, <2>3, <2>5, <4>3
        <5> QED BY <4>1, <4>2, <5>1
      <4> QED BY <2>2, <4>2, <4>3
    <3>2. \E j \in 0..m : c[m].peak = c[j].cum
      <4>1. CASE c[m].cum > c[k].peak
        BY <2>1, <2>4, <4>1
      <4>2. CASE ~(c[m].cum > c[k].peak)
        <5>1. c[m].peak = c[k].peak
          BY <2>4, <4>2
        <5>2. PICK j \in 0..k : c[k].peak = c[j].cum
          BY <2>5
        <5> QED BY <2>3, <5>1, <5>2
      <4> QED BY <4>1, <4>2
    <3> QED BY <3>1, <3>2
  <2>7. Deep(m)
    <3>1. ASSUME NEW j \in 0..m, NEW i \in 0..j PROVE c[m].mdd =< c[j].cum - c[i].cum
      <4>1. c[m].mdd \in Int /\ c[k].mdd \in Int /\ c[m].cum \in Int /\ c[m].peak \in Int
        BY <1>2, <2>1
      <4>2. CASE j = m
        <5>1. i \in 0..m /\ i \in 0..n
          BY <1>1, <2>1, <4>2
        <5>2. c[i].cum =< c[m].peak /\ c[i].cum \in Int
          BY <1>2, <2>6, <5>1
        <5> QED BY <2>4, <4>1, <4>2, <5>2
      <4>3. CASE j \in 0..k
        <5>1. c[k].mdd =< c[j].cum - c[i].cum
          BY <2>5, <4>3
        <5>2. c[j].cum \in Int /\ c[i].cum \in Int
          <6>1. j \in 0..n /\ i \in 0..n
            BY <2>3, <4>3
          <6> QED BY <1>2, <6>1
        <5> QED BY <2>4, <4>1, <5>1, <5>2
      <4> QED BY <2>2, <4>2, <4>3
    <3>2. \E j \in 0..m : \E i \in 0..j : c[m].mdd = c[j].cum - c[i].cum
      <4>1. CASE c[m].cum - c[m].peak < c[k].mdd
        <5>1. PICK i \in 0..m : c[m].peak = c[i].cum
          BY <2>6
        <5> QED BY <2>1, <2>4, <4>1, <5>1
      <4>2. CASE ~(c[m].cum - c[m].peak < c[k].mdd)
        <5>1. c[m].mdd = c[k].mdd
          BY <2>4, <4>2
        <5>2. PICK j \in 0..k : \E i \in 0..j : c[k].mdd = c[j].cum - c[i].cum
          BY <2>5
        <5> QED BY <2>3, <5>1, <5>2
      <4> QED BY <4>1, <4>2
    <3> QED BY <3>1, <3>2
  <2> QED BY <2>1, <2>6, <2>7 DEF m
<1> HIDE DEF P
<1>5. \A k \in 0..n : k \in P
  BY <1>1, <1>3, <1>4, CountUp
<1>6. \A k \in 0..n : Peak(k) /\ Deep(k)
  BY <1>5 DEF P
<1> QED BY <1>6 DEF c, n

\* The least of the falls is the one the curve reports.
LEMMA DeepestFall ==
  ASSUME UV!Results \in Seq(Int), Len(UV!Results) = Len(trades), Len(trades) \in Nat
  PROVE  UV!DrawdownIsDeepest
<1> DEFINE rs == UV!Results
           c == UV!Curve(rs)
           n == Len(rs)
           falls == {c[p[2]].cum - c[p[1]].cum : p \in {q \in (0..n) \X (0..n) : q[1] <= q[2]}}
<1>0. n \in Nat
  OBVIOUS
<1>1. /\ \A j \in 0..n : \A i \in 0..j : c[n].mdd =< c[j].cum - c[i].cum
      /\ \E j \in 0..n : \E i \in 0..j : c[n].mdd = c[j].cum - c[i].cum
  <2>1. n \in 0..n
    BY <1>0
  <2> QED BY <2>1, CurveFalls
<1>2. \A k \in 0..n : c[k].cum \in Int /\ c[k].mdd \in Int
  <2>1. \A k \in 0..n : c[k] \in Account
    BY CurveSteps
  <2> HIDE DEF c
  <2> QED BY <2>1 DEF Account
<1>3. UV!summary.mdd = c[n].mdd
  BY DEF UV!summary, UV!max_drawdown
<1>4. UV!DrawdownIsDeepest <=> UV!summary.mdd = UV!Min(falls)
  BY DEF UV!DrawdownIsDeepest
<1> HIDE DEF c, n, rs
<1>5. \A x \in falls : c[n].mdd =< x /\ x \in Int
  <2> SUFFICES ASSUME NEW p \in (0..n) \X (0..n), p[1] <= p[2]
               PROVE  c[n].mdd =< c[p[2]].cum - c[p[1]].cum /\ c[p[2]].cum - c[p[1]].cum \in Int
    OBVIOUS
  <2>1. p[2] \in 0..n /\ p[1] \in 0..n /\ p[1] \in 0..p[2]
    OBVIOUS
  <2> QED BY <1>1, <1>2, <2>1
<1>6. c[n].mdd \in falls
  <2>0. PICK j \in 0..n : \E i \in 0..j : c[n].mdd = c[j].cum - c[i].cum
    BY <1>1
  <2>1. PICK i \in 0..j : c[n].mdd = c[j].cum - c[i].cum
    BY <2>0
  <2> DEFINE p == <<i, j>>
  <2>2. p \in (0..n) \X (0..n) /\ p[1] <= p[2] /\ p[1] = i /\ p[2] = j
    BY <1>0
  <2> HIDE DEF p
  <2> QED BY <2>1, <2>2
<1> HIDE DEF falls
<1>7. UV!Min(falls) = c[n].mdd
  <2>1. \A x \in falls : (\A y \in falls : x <= y) => x = c[n].mdd
    BY <1>5, <1>6
  <2> QED BY <1>5, <1>6, <2>1 DEF UV!Min
<1> QED BY <1>3, <1>4, <1>7

----------------------------------------------------------------------------
\* The universe backtest

LEMMA UniverseValues ==
  /\ FirstDay \in Nat /\ LastDay \in Nat /\ MaxPerDay \in Nat /\ 0 < FirstDay /\ FirstDay <= LastDay
  /\ Universes # {} /\ \A f \in Universes : f \in Seq(UV!Lines)
  /\ \A m \in Markets, s \in UV!Symbols :
       /\ m[s] \in Seq(UV!Range(m[s])) /\ Len(m[s]) = LastDay
       /\ \A d \in 1..LastDay :
            m[s][d] # Shut => /\ m[s][d].op \in Nat /\ m[s][d].cl \in Nat \ {0}
                              /\ m[s][d].rs \in Seq(Int)
<1>1. UV!UniverseAssumption
  BY ReplayAssumption
<1> QED BY <1>1 DEF UV!UniverseAssumption

LEMMA UniverseCardinality == \A S : UV!Cardinality(S) = Cardinality(S)
BY DEF UV!Cardinality, Cardinality

\* Sequences put one after the other are a sequence.
LEMMA FlattenType ==
  ASSUME NEW n \in Nat, NEW U, NEW seqs \in [1..n -> Seq(U)]
  PROVE  UV!FlattenSeq(seqs) \in Seq(U)
<1> DEFINE V == Seq(U)
           g == [k \in 1..n |-> [v \in V |-> IF k = 1 THEN seqs[1] ELSE v \o seqs[k]]]
           Body(c) == [i \in 1..n |-> IF i = 1 THEN seqs[i] ELSE c[i - 1] \o seqs[i]]
           c == CHOOSE d : d = Body(d)
<1>0. Len(seqs) = n
  OBVIOUS
<1>1. CASE n = 0
  <2>1. UV!FlattenSeq(seqs) = seqs
    BY <1>0, <1>1 DEF UV!FlattenSeq
  <2>2. seqs \in [1..0 -> U]
    BY <1>1
  <2>3. seqs \in Seq(U)
    BY <2>2
  <2> QED BY <2>1, <2>3
<1>2. CASE n # 0
  <2>1. UV!FlattenSeq(seqs) = c[n]
    BY <1>0, <1>2 DEF UV!FlattenSeq
  <2>2. g \in Steps(n, V)
    <3>1. ASSUME NEW k \in 1..n, NEW v \in V PROVE (IF k = 1 THEN seqs[1] ELSE v \o seqs[k]) \in V
      <4>1. seqs[k] \in Seq(U) /\ 1 \in 1..n
        BY <1>2
      <4>2. v \o seqs[k] \in Seq(U)
        BY <4>1
      <4> QED BY <4>1, <4>2
    <3> HIDE DEF V
    <3> QED BY <3>1 DEF Steps
  <2>3. <<>> \in V
    OBVIOUS
  <2> HIDE DEF V, g
  <2>4. PICK w : Walk(n, V, <<>>, g, w)
    BY <2>2, <2>3, StepByStep
  <2>5. w \in [0..n -> V] /\ \A k \in 1..n : w[k] = g[k][w[k - 1]]
    BY <2>4 DEF Walk
  <2> DEFINE f == [i \in 1..n |-> w[i]]
  <2>6. f = Body(f)
    <3>1. ASSUME NEW i \in 1..n PROVE f[i] = IF i = 1 THEN seqs[i] ELSE f[i - 1] \o seqs[i]
      <4>1. i - 1 \in 0..n /\ w[i - 1] \in V /\ f[i] = g[i][w[i - 1]]
        BY <2>5
      <4>2. g[i][w[i - 1]] = IF i = 1 THEN seqs[1] ELSE w[i - 1] \o seqs[i]
        BY <4>1 DEF g
      <4>3. i # 1 => i - 1 \in 1..n /\ f[i - 1] = w[i - 1]
        OBVIOUS
      <4> HIDE DEF f
      <4>4. CASE i = 1
        BY <4>1, <4>2, <4>4
      <4>5. CASE i # 1
        BY <4>1, <4>2, <4>3, <4>5
      <4> QED BY <4>4, <4>5
    <3>2. DOMAIN f = 1..n
      OBVIOUS
    <3>3. f = [i \in 1..n |-> f[i]]
      OBVIOUS
    <3> HIDE DEF f
    <3> QED BY <3>1, <3>3
  <2> HIDE DEF f
  <2>7. c = Body(c)
    <3> HIDE DEF Body
    <3> QED BY <2>6
  <2> HIDE DEF c
  <2>8. \A i \in 1..n : c[i] = IF i = 1 THEN seqs[i] ELSE c[i - 1] \o seqs[i]
    BY <2>7
  <2> HIDE DEF Body
  <2> DEFINE P == {k \in 0..n : k = 0 \/ c[k] \in V}
  <2>9. 0 \in P
    OBVIOUS
  <2>10. ASSUME NEW k \in 0..n, k \in P, k < n PROVE k + 1 \in P
    <3>1. k + 1 \in 1..n /\ (k + 1) - 1 = k /\ k + 1 \in 0..n
      BY <2>10
    <3>2. seqs[k + 1] \in Seq(U)
      BY <3>1
    <3>3. CASE k = 0
      <4>1. c[k + 1] = seqs[k + 1]
        BY <2>8, <3>1, <3>3
      <4> QED BY <3>1, <3>2, <4>1 DEF V
    <3>4. CASE k # 0
      <4>1. c[k + 1] = c[k] \o seqs[k + 1]
        <5>1. k + 1 # 1
          BY <3>4
        <5> QED BY <2>8, <3>1, <5>1
      <4>2. c[k] \in Seq(U)
        BY <2>10, <3>4 DEF V
      <4>3. c[k] \o seqs[k + 1] \in Seq(U)
        BY <3>2, <4>2
      <4> QED BY <3>1, <4>1, <4>3 DEF V
    <3> QED BY <3>3, <3>4
  <2> HIDE DEF P
  <2>11. \A k \in 0..n : k \in P
    BY <2>9, <2>10, CountUp
  <2>12. n \in 0..n
    OBVIOUS
  <2>13. c[n] \in V
    BY <1>2, <2>11, <2>12 DEF P
  <2> QED BY <2>1, <2>13 DEF V, c
<1> QED BY <1>1, <1>2

\* The greatest of the days.
LEMMA MaxExists ==
  ASSUME NEW n \in Nat, NEW S \in SUBSET (1..n), S # {}
  PROVE  UV!Max(S) \in S
<1>1. SC!Greatest(S) \in S /\ \A i \in S : SC!Greatest(S) >= i
  BY GreatestExists
<1> QED BY <1>1 DEF UV!Max

\* Lines of a file that name a symbol first.
LEMMA FirstsFinite ==
  ASSUME NEW f \in Universes
  PROVE  /\ UV!Firsts(f) \in SUBSET (1..Len(f)) /\ Len(f) \in Nat
         /\ IsFiniteSet(UV!Firsts(f)) /\ Cardinality(UV!Firsts(f)) \in Nat
<1>1. f \in Seq(UV!Lines)
  BY UniverseValues
<1>2. UV!Firsts(f) \in SUBSET (1..Len(f)) /\ Len(f) \in Nat
  BY <1>1 DEF UV!Firsts
<1>3. IsFiniteSet(1..Len(f))
  BY <1>2, FS_Interval
<1>4. IsFiniteSet(UV!Firsts(f))
  BY <1>2, <1>3, FS_Subset
<1> QED BY <1>2, <1>4, FS_CardinalityType

\* load_universe has a symbol for each of these lines.
LEMMA LoadedUniverse ==
  ASSUME NEW f \in Universes
  PROVE  /\ Len(UV!load_universe(f)) = Cardinality(UV!Firsts(f)) /\ Len(UV!load_universe(f)) \in Nat
         /\ \A k \in 1..Len(UV!load_universe(f)) :
              \E j \in UV!Firsts(f) : f[j] = UV!load_universe(f)[k]
<1> DEFINE S == UV!Firsts(f)
           n == Cardinality(S)
           Rank(x) == Cardinality({y \in S : y < x})
           ranked == UV!InOrder(S, <)
           R == {p \in S \X S : p[1] < p[2]}
<1>1. S \in SUBSET Int /\ IsFiniteSet(S) /\ n \in Nat
  <2>1. S \in SUBSET (1..Len(f)) /\ IsFiniteSet(S) /\ n \in Nat
    BY FirstsFinite
  <2> HIDE DEF S, n
  <2> QED BY <2>1
<1>2. UV!load_universe(f) = [k \in 1..n |-> f[ranked[k]]]
  <2>1. UV!load_universe(f) = [k \in 1..UV!Cardinality(S) |-> f[ranked[k]]]
    BY DEF UV!load_universe
  <2> QED BY <2>1, UniverseCardinality
<1>11. ranked = [k \in 1..UV!Cardinality(S) |->
                  CHOOSE x \in S : UV!Cardinality({y \in S : y < x}) = k - 1]
  BY DEF UV!InOrder
<1> HIDE DEF S
<1>3. \A x, y \in S : <<x, y>> \in R <=> x < y
  OBVIOUS
<1>4. /\ \A x \in S : <<x, x>> \notin R
      /\ \A x, y, z \in S : <<x, y>> \in R /\ <<y, z>> \in R => <<x, z>> \in R
      /\ \A x, y \in S : x # y => <<x, y>> \in R \/ <<y, x>> \in R
  <2> HIDE DEF R
  <2> QED BY <1>1, <1>3
<1>5. \A x \in S : {y \in S : <<y, x>> \in R} = {y \in S : y < x}
  <2> HIDE DEF R
  <2> QED BY <1>3
<1> HIDE DEF R
<1>6. \A k \in 1..n : \E x \in S : Cardinality({y \in S : <<y, x>> \in R}) = k - 1
  <2> HIDE DEF n
  <2>1. \A k \in 1..Cardinality(S) : \E x \in S : Cardinality({y \in S : <<y, x>> \in R}) = k - 1
    BY <1>1, <1>4, Ranks
  <2> QED BY <2>1 DEF n
<1>7. \A k \in 1..n : \E x \in S : Rank(x) = k - 1
  BY <1>5, <1>6
<1> HIDE DEF n
<1>12. \A k \in 1..n : ranked[k] = CHOOSE x \in S : Rank(x) = k - 1
  <2> HIDE DEF ranked, S
  <2>1. \A k \in 1..n : ranked[k] = CHOOSE x \in S : UV!Cardinality({y \in S : y < x}) = k - 1
    BY <1>11, UniverseCardinality DEF n
  <2>2. \A x : UV!Cardinality({y \in S : y < x}) = Rank(x)
    BY UniverseCardinality
  <2> HIDE DEF Rank, n
  <2> QED BY <2>1, <2>2
<1> HIDE DEF ranked
<1>8. \A k \in 1..n : ranked[k] \in S
  <2> HIDE DEF Rank
  <2> QED BY <1>7, <1>12
<1>9. Len(UV!load_universe(f)) = n
  BY <1>1, <1>2
<1>10. \A k \in 1..n : UV!load_universe(f)[k] = f[ranked[k]]
  BY <1>2
<1> QED BY <1>1, <1>8, <1>9, <1>10 DEF n, S

\* What was loaded: the first days of the market, for symbols the file names.
Loads(u, days) ==
  /\ days \in [UV!Symbols -> 0..LastDay]
  /\ \A s \in UV!Symbols : days[s] > 0 => \E k \in UV!Firsts(u) : u[k] = s

LEMMA FramesAre ==
  ASSUME NEW m \in Markets, NEW days \in [UV!Symbols -> 0..LastDay]
  PROVE  LET f == UV!Frames(m, days)
         IN  /\ DOMAIN f = {s \in UV!Symbols : days[s] > 0}
             /\ \A s \in DOMAIN f : /\ DOMAIN f[s] = 1..days[s] /\ Len(f[s]) = days[s]
                                    /\ \A k \in 1..days[s] : f[s][k] = m[s][k]
                                    /\ f[s] \in Seq(UV!Range(m[s]))
<1> DEFINE f == UV!Frames(m, days)
<1>1. f = [s \in {x \in UV!Symbols : days[x] > 0} |-> SubSeq(m[s], 1, days[s])]
  BY DEF UV!Frames
<1> HIDE DEF f
<1>2. ASSUME NEW s \in DOMAIN f
      PROVE  /\ DOMAIN f[s] = 1..days[s] /\ Len(f[s]) = days[s]
             /\ \A k \in 1..days[s] : f[s][k] = m[s][k]
             /\ f[s] \in Seq(UV!Range(m[s]))
  <2>1. s \in UV!Symbols /\ days[s] > 0 /\ f[s] = SubSeq(m[s], 1, days[s])
    BY <1>1
  <2>2. m[s] \in Seq(UV!Range(m[s])) /\ Len(m[s]) = LastDay /\ LastDay \in Nat
    BY <2>1, UniverseValues
  <2>3. days[s] \in 1..LastDay
    BY <2>1, <2>2
  <2> DEFINE t == m[s]
             U == UV!Range(m[s])
             n == days[s]
  <2>4. t \in Seq(U) /\ n \in 1..Len(t)
    BY <2>2, <2>3
  <2> HIDE DEF t, U, n
  <2>5. /\ SubSeq(t, 1, n) \in Seq(U) /\ Len(SubSeq(t, 1, n)) = n
        /\ \A k \in 1..n : SubSeq(t, 1, n)[k] = t[k]
    <3>1. /\ SubSeq(t, 1, n) \in Seq(U) /\ Len(SubSeq(t, 1, n)) = IF 1 <= n THEN n - 1 + 1 ELSE 0
          /\ \A k \in 1..(n - 1 + 1) : SubSeq(t, 1, n)[k] = t[1 + k - 1]
      BY <2>4, SubSeqProperties
    <3>2. n \in Nat /\ 1 <= n /\ n - 1 + 1 = n
      BY <2>4
    <3>3. \A k \in 1..n : 1 + k - 1 = k
      BY <3>2
    <3> QED BY <3>1, <3>2, <3>3
  <2>6. DOMAIN SubSeq(t, 1, n) = 1..n
    BY <2>5
  <2> QED BY <2>1, <2>5, <2>6 DEF t, U, n
<1>3. DOMAIN f = {s \in UV!Symbols : days[s] > 0}
  BY <1>1
<1> QED BY <1>2, <1>3 DEF f

\* A symbol in play has bars on the day, and its gap is a number.
LEMMA PlayedDay ==
  ASSUME NEW m \in Markets, NEW days \in [UV!Symbols -> 0..LastDay], NEW d \in Nat,
         NEW s \in UV!InPlay(UV!Frames(m, days), d)
  PROVE  /\ s \in UV!Symbols /\ days[s] > 0 /\ d \in 1..days[s] /\ m[s][d] # Shut
         /\ UV!Before(UV!Frames(m, days), s, d) # {}
         /\ UV!gap_pct(UV!Frames(m, days), s, d) \in Int
<1> DEFINE f == UV!Frames(m, days)
           before == UV!Before(f, s, d)
           k == UV!Max(before)
<1>1. /\ s \in UV!Symbols /\ days[s] > 0 /\ s \in DOMAIN f /\ DOMAIN f[s] = 1..days[s]
      /\ \A i \in 1..days[s] : f[s][i] = m[s][i]
  BY FramesAre DEF UV!InPlay
<1>2. UV!is_in_play(f, s, d)
  BY DEF UV!InPlay
<1> HIDE DEF f
<1>3. d \in 1..days[s] /\ f[s][d] # Shut /\ UV!Cardinality(before) > 0
  BY <1>1, <1>2 DEF UV!is_in_play
<1>4. before = {i \in 1..days[s] : i < d /\ f[s][i] # Shut}
  BY <1>1 DEF UV!Before
<1>5. before # {}
  <2>1. Cardinality({}) = 0
    BY FS_EmptySet
  <2> HIDE DEF before
  <2> QED BY <1>3, <2>1, UniverseCardinality
<1>6. days[s] \in Nat
  BY <1>1, UniverseValues
<1>7. k \in before
  <2>1. before \in SUBSET (1..days[s])
    BY <1>4
  <2> HIDE DEF before
  <2> QED BY <1>5, <1>6, <2>1, MaxExists
<1>8. k \in 1..days[s] /\ f[s][k] # Shut /\ UV!LastBefore(f, s, d) = f[s][k]
  BY <1>4, <1>7 DEF UV!LastBefore
<1> HIDE DEF before, k
<1>9. d \in 1..LastDay /\ k \in 1..LastDay
  BY <1>1, <1>3, <1>8, UniverseValues
<1>10. f[s][d].op \in Nat /\ f[s][k].cl \in Nat \ {0}
  BY <1>1, <1>3, <1>8, <1>9, UniverseValues
<1>11. UV!gap_pct(f, s, d) \in Int
  <2> DEFINE pc == f[s][k].cl
             op == f[s][d].op
             move == IF op - pc < 0 THEN 0 - (op - pc) ELSE op - pc
  <2>1. UV!Move(f, s, d) = -(op - pc) \/ UV!Move(f, s, d) = op - pc
    BY <1>8 DEF UV!Move
  <2>2. UV!gap_pct(f, s, d) = (20000 * UV!Move(f, s, d) + pc) \div (2 * pc)
    BY <1>8 DEF UV!gap_pct
  <2>3. pc \in Nat \ {0} /\ op \in Nat
    BY <1>10
  <2> HIDE DEF pc, op
  <2>4. UV!Move(f, s, d) \in Int
    BY <2>1, <2>3
  <2> QED BY <2>2, <2>3, <2>4
<1> QED BY <1>1, <1>3, <1>5, <1>11 DEF f, before

\* Where a symbol stands in the file.
LEMMA PositionIs ==
  ASSUME NEW u \in Universes, NEW s, \E k \in UV!Firsts(u) : u[k] = s
  PROVE  UV!Position(u, s) \in 1..Len(u) /\ u[UV!Position(u, s)] = s
<1>1. UV!Position(u, s) \in UV!Firsts(u) /\ u[UV!Position(u, s)] = s
  BY DEF UV!Position
<1> QED BY <1>1, FirstsFinite

\* The symbols of a day are in play that day.
LEMMA DaySymbols ==
  ASSUME NEW u \in Universes, NEW m \in Markets, NEW days, Loads(u, days), NEW d \in Nat
  PROVE  \E n \in Nat : UV!day_symbols(u, UV!Frames(m, days), d)
                          \in [1..n -> UV!InPlay(UV!Frames(m, days), d)]
<1> DEFINE f == UV!Frames(m, days)
           S == UV!InPlay(f, d)
           gap == [s \in S |-> UV!gap_pct(f, s, d)]
           R == {p \in S \X S : UV!Ahead(u, gap, p[1], p[2])}
           all == UV!InOrder(DOMAIN gap, LAMBDA a, b : UV!Ahead(u, gap, a, b))
           n == Cardinality(S)
           last1 == IF Len(all) < MaxPerDay THEN Len(all) ELSE MaxPerDay
<1>1. UV!day_symbols(u, f, d) = SubSeq(all, 1, last1)
  BY DEF UV!day_symbols
<1>2. all = [k \in 1..UV!Cardinality(S) |->
               CHOOSE x \in S : UV!Cardinality({y \in S : UV!Ahead(u, gap, y, x)}) = k - 1]
  <2>1. DOMAIN gap = S
    OBVIOUS
  <2>2. all = [k \in 1..UV!Cardinality(DOMAIN gap) |->
               CHOOSE x \in DOMAIN gap :
                 UV!Cardinality({y \in DOMAIN gap : UV!Ahead(u, gap, y, x)}) = k - 1]
    BY DEF UV!InOrder
  <2> HIDE DEF gap, S, all
  <2> QED BY <2>1, <2>2
<1>3. days \in [UV!Symbols -> 0..LastDay]
  BY DEF Loads
<1>4. ASSUME NEW s \in S
      PROVE  /\ UV!Position(u, s) \in 1..Len(u) /\ u[UV!Position(u, s)] = s
             /\ gap[s] \in Int /\ s \in UV!Symbols
  <2>1. s \in UV!Symbols /\ days[s] > 0 /\ UV!gap_pct(f, s, d) \in Int
    BY <1>3, PlayedDay
  <2>2. \E k \in UV!Firsts(u) : u[k] = s
    BY <2>1 DEF Loads
  <2>3. UV!Position(u, s) \in 1..Len(u) /\ u[UV!Position(u, s)] = s
    BY <2>2, PositionIs
  <2> QED BY <2>1, <2>3
<1>5. Len(u) \in Nat
  BY FirstsFinite
<1> HIDE DEF f, S, gap, all
<1>6. IsFiniteSet(S)
  <2> DEFINE p == [s \in S |-> UV!Position(u, s)]
             T == 1..Len(u)
  <2>1. p \in [S -> T]
    BY <1>4
  <2>2. \A a, b \in S : p[a] = p[b] => a = b
    BY <1>4
  <2>3. DOMAIN p = S
    OBVIOUS
  <2> HIDE DEF p
  <2>4. p \in Injection(S, T)
    BY <2>1, <2>2, <2>3 DEF Injection, IsInjective
  <2>5. IsFiniteSet(T)
    BY <1>5, FS_Interval
  <2> QED BY <2>4, <2>5, FS_Injection
<1>7. n \in Nat
  BY <1>6, FS_CardinalityType
<1>8. \A x, y \in S : <<x, y>> \in R <=> UV!Ahead(u, gap, x, y)
  OBVIOUS
<1>9. \A x, y \in S : UV!Ahead(u, gap, x, y) <=>
        gap[x] > gap[y] \/ (gap[x] = gap[y] /\ UV!Position(u, x) < UV!Position(u, y))
  BY DEF UV!Ahead
<1>10. \A s \in S : gap[s] \in Int /\ UV!Position(u, s) \in Int
  BY <1>4, <1>5
<1> HIDE DEF R
<1>11. \A x \in S : <<x, x>> \notin R
  BY <1>8, <1>9, <1>10
<1>12. \A x, y, z \in S : <<x, y>> \in R /\ <<y, z>> \in R => <<x, z>> \in R
  BY <1>8, <1>9, <1>10
<1>13. \A x, y \in S : x # y => <<x, y>> \in R \/ <<y, x>> \in R
  <2> SUFFICES ASSUME NEW x \in S, NEW y \in S, x # y PROVE <<x, y>> \in R \/ <<y, x>> \in R
    OBVIOUS
  <2>1. UV!Position(u, x) # UV!Position(u, y)
    BY <1>4
  <2> QED BY <1>8, <1>9, <1>10, <2>1
<1>14. \A k \in 1..n : \E x \in S : Cardinality({y \in S : <<y, x>> \in R}) = k - 1
  <2> HIDE DEF n
  <2>1. \A k \in 1..Cardinality(S) : \E x \in S : Cardinality({y \in S : <<y, x>> \in R}) = k - 1
    BY <1>6, <1>11, <1>12, <1>13, Ranks
  <2> QED BY <2>1 DEF n
<1>15. \A x \in S : {y \in S : <<y, x>> \in R} = {y \in S : UV!Ahead(u, gap, y, x)}
  BY <1>8
<1>16. \A x \in S : UV!Cardinality({y \in S : UV!Ahead(u, gap, y, x)}) = Cardinality({y \in S : <<y, x>> \in R})
  BY <1>15, UniverseCardinality
<1>17. UV!Cardinality(S) = n
  BY UniverseCardinality
<1> HIDE DEF n
<1>18. all \in [1..n -> S]
  <2>1. \A k \in 1..n : \E x \in S : UV!Cardinality({y \in S : UV!Ahead(u, gap, y, x)}) = k - 1
    BY <1>14, <1>16
  <2> DEFINE C(x) == UV!Cardinality({y \in S : UV!Ahead(u, gap, y, x)})
  <2>2. all = [k \in 1..n |-> CHOOSE x \in S : C(x) = k - 1]
    BY <1>2, <1>17
  <2>3. \A k \in 1..n : \E x \in S : C(x) = k - 1
    BY <2>1
  <2> HIDE DEF C
  <2>4. \A k \in 1..n : (CHOOSE x \in S : C(x) = k - 1) \in S
    BY <2>3
  <2> QED BY <2>2, <2>4
<1>19. all \in Seq(S) /\ Len(all) = n
  BY <1>7, <1>18
<1>20. MaxPerDay \in Nat
  BY UniverseValues
<1>21. last1 \in 0..Len(all)
  BY <1>7, <1>19, <1>20
<1> HIDE DEF last1
<1>22. /\ SubSeq(all, 1, last1) \in Seq(S)
       /\ Len(SubSeq(all, 1, last1)) \in Nat
  <2>1. SubSeq(all, 1, last1) \in Seq(S)
    <3>1. CASE last1 = 0
      BY <1>19, <3>1
    <3>2. CASE last1 # 0
      BY <1>7, <1>19, <1>21, <3>2, SubSeqProperties
    <3> QED BY <3>1, <3>2
  <2> QED BY <2>1
<1>23. \E k \in Nat : SubSeq(all, 1, last1) \in [1..k -> S]
  <2> DEFINE t == SubSeq(all, 1, last1)
  <2>1. t \in Seq(S) /\ Len(t) \in Nat
    BY <1>22
  <2> HIDE DEF t
  <2>2. t \in [1..Len(t) -> S]
    BY <2>1
  <2>3. \E k \in Nat : t \in [1..k -> S]
    BY <2>1, <2>2
  <2> QED BY <2>3 DEF t
<1> QED BY <1>1, <1>23 DEF S, f

\* A trade of the summary.
Booking == [day : Nat, symbol : UV!Symbols, r : Int]

\* The trades of a day are trades of symbols, with results.
LEMMA DayTradesType ==
  ASSUME NEW u \in Universes, NEW m \in Markets, NEW days, Loads(u, days), NEW d \in Nat
  PROVE  UV!day_trades(u, m, days, d) \in Seq(Booking)
<1> DEFINE f == UV!Frames(m, days)
           S == UV!InPlay(f, d)
           chosen == UV!day_symbols(u, f, d)
           of(s) == [k \in DOMAIN m[s][d].rs |-> [day |-> d, symbol |-> s, r |-> m[s][d].rs[k]]]
           seqs == [k \in DOMAIN chosen |-> of(chosen[k])]
<1>1. UV!day_trades(u, m, days, d) = UV!FlattenSeq(seqs)
  BY DEF UV!day_trades
<1>2. PICK n \in Nat : chosen \in [1..n -> S]
  BY DaySymbols
<1>3. days \in [UV!Symbols -> 0..LastDay]
  BY DEF Loads
<1>4. ASSUME NEW s \in S PROVE of(s) \in Seq(Booking)
  <2>1. s \in UV!Symbols /\ d \in 1..days[s] /\ m[s][d] # Shut
    BY <1>3, PlayedDay
  <2>2. d \in 1..LastDay
    BY <1>3, <2>1, UniverseValues
  <2>3. m[s][d].rs \in Seq(Int)
    BY <2>1, <2>2, UniverseValues
  <2> DEFINE rs == m[s][d].rs
  <2>4. rs \in Seq(Int)
    BY <2>3
  <2>5. of(s) = [k \in DOMAIN rs |-> [day |-> d, symbol |-> s, r |-> rs[k]]]
    OBVIOUS
  <2> HIDE DEF rs, of, S
  <2>6. Len(rs) \in Nat /\ DOMAIN rs = 1..Len(rs) /\ \A k \in 1..Len(rs) : rs[k] \in Int
    BY <2>4
  <2>7. of(s) \in [1..Len(rs) -> Booking]
    BY <2>1, <2>5, <2>6 DEF Booking
  <2> HIDE DEF Booking
  <2>8. of(s) \in Seq(Booking)
    BY <2>6, <2>7
  <2> QED BY <2>8
<1> HIDE DEF of, S, chosen
<1>5. seqs \in [1..n -> Seq(Booking)]
  BY <1>2, <1>4
<1> HIDE DEF seqs
<1>6. UV!FlattenSeq(seqs) \in Seq(Booking)
  BY <1>2, <1>5, FlattenType
<1> QED BY <1>1, <1>6

\* Where nothing is loaded, nothing is traded.
LEMMA NothingTrades ==
  ASSUME NEW u \in Universes, NEW m \in Markets, NEW d \in Nat
  PROVE  Loads(u, UV!Nothing) /\ UV!day_trades(u, m, UV!Nothing, d) = <<>>
<1> DEFINE f == UV!Frames(m, UV!Nothing)
           S == UV!InPlay(f, d)
           chosen == UV!day_symbols(u, f, d)
           of(s) == [k \in DOMAIN m[s][d].rs |-> [day |-> d, symbol |-> s, r |-> m[s][d].rs[k]]]
           seqs == [k \in DOMAIN chosen |-> of(chosen[k])]
<1>1. UV!day_trades(u, m, UV!Nothing, d) = UV!FlattenSeq(seqs)
  BY DEF UV!day_trades
<1>2. UV!Nothing \in [UV!Symbols -> 0..LastDay] /\ \A s \in UV!Symbols : UV!Nothing[s] = 0
  BY UniverseValues DEF UV!Nothing
<1>3. Loads(u, UV!Nothing)
  BY <1>2 DEF Loads
<1>4. PICK n \in Nat : chosen \in [1..n -> S]
  BY <1>3, DaySymbols
<1>5. S = {}
  <2>1. ASSUME NEW s \in S PROVE FALSE
    BY <1>2, PlayedDay
  <2> HIDE DEF S
  <2> QED BY <2>1
<1>6. n = 0
  <2>1. 1 \in 1..n => chosen[1] \in S
    <3> HIDE DEF chosen, S
    <3> QED BY <1>4
  <2>2. 1 \notin 1..n
    <3> HIDE DEF chosen, S
    <3> QED BY <1>5, <2>1
  <2> QED BY <2>2
<1> HIDE DEF chosen, S, of
<1>7. DOMAIN chosen = {}
  BY <1>4, <1>6
<1>8. seqs = <<>>
  BY <1>7
<1>9. Len(seqs) = 0
  BY <1>8
<1> HIDE DEF seqs
<1>10. UV!FlattenSeq(seqs) = <<>>
  BY <1>8, <1>9 DEF UV!FlattenSeq
<1> QED BY <1>1, <1>3, <1>10

\* The trades of the days from the first up to the day before d, one day after the other.
Earned(u, m, days, d, ts) ==
  \E h \in [FirstDay..d -> Seq(Booking)] :
    /\ h[FirstDay] = <<>> /\ ts = h[d]
    /\ \A k \in FirstDay..(d - 1) : h[k + 1] = h[k] \o UV!day_trades(u, m, days, k)

LEMMA EarnedNone ==
  ASSUME NEW u, NEW m, NEW days
  PROVE  Earned(u, m, days, FirstDay, <<>>)
<1> DEFINE h == [k \in FirstDay..FirstDay |-> <<>>]
<1>1. FirstDay \in Nat
  BY UniverseValues
<1>2. <<>> \in Seq(Booking)
  OBVIOUS
<1>3. h \in [FirstDay..FirstDay -> Seq(Booking)]
  BY <1>2
<1>4. h[FirstDay] = <<>> /\ FirstDay..(FirstDay - 1) = {}
  BY <1>1
<1> HIDE DEF h
<1> QED BY <1>3, <1>4 DEF Earned

LEMMA EarnedDay ==
  ASSUME NEW u \in Universes, NEW m \in Markets, NEW days, Loads(u, days),
         NEW d \in Nat, FirstDay <= d, NEW ts, Earned(u, m, days, d, ts)
  PROVE  Earned(u, m, days, d + 1, ts \o UV!day_trades(u, m, days, d))
<1>1. PICK h \in [FirstDay..d -> Seq(Booking)] :
        /\ h[FirstDay] = <<>> /\ ts = h[d]
        /\ \A k \in FirstDay..(d - 1) : h[k + 1] = h[k] \o UV!day_trades(u, m, days, k)
  BY DEF Earned
<1> DEFINE D(k) == UV!day_trades(u, m, days, k)
           x == ts \o D(d)
           g == [k \in FirstDay..(d + 1) |-> IF k = d + 1 THEN x ELSE h[k]]
<1>0. FirstDay \in Nat
  BY UniverseValues
<1>2. D(d) \in Seq(Booking)
  BY DayTradesType
<1>3. ts \in Seq(Booking)
  BY <1>0, <1>1
<1>4. \A k \in FirstDay..(d - 1) : h[k + 1] = h[k] \o D(k)
  BY <1>1
<1> HIDE DEF D, Booking
<1>5. x \in Seq(Booking)
  <2> DEFINE T == D(d)
  <2> HIDE DEF T
  <2>1. T \in Seq(Booking)
    BY <1>2 DEF T
  <2>2. ts \o T \in Seq(Booking)
    BY <1>3, <2>1
  <2> QED BY <2>2 DEF T
<1>7. x = ts \o D(d)
  OBVIOUS
<1> HIDE DEF x
<1>8. g \in [FirstDay..(d + 1) -> Seq(Booking)]
  <2>1. ASSUME NEW k \in FirstDay..(d + 1) PROVE (IF k = d + 1 THEN x ELSE h[k]) \in Seq(Booking)
    <3>1. k # d + 1 => k \in FirstDay..d
      BY <1>0
    <3>2. k # d + 1 => h[k] \in Seq(Booking)
      BY <1>1, <3>1
    <3> QED BY <1>5, <3>2
  <2> QED BY <2>1
<1>9. g[FirstDay] = <<>> /\ g[d + 1] = x /\ g[d] = ts
  BY <1>0, <1>1
<1>10. \A k \in FirstDay..((d + 1) - 1) : g[k + 1] = g[k] \o D(k)
  <2>0. (d + 1) - 1 = d
    OBVIOUS
  <2> SUFFICES ASSUME NEW k \in FirstDay..d PROVE g[k + 1] = g[k] \o D(k)
    BY <2>0, Zenon
  <2>1. CASE k = d
    <3>1. g[k + 1] = g[d + 1] /\ g[k] = g[d] /\ D(k) = D(d)
      BY <2>1
    <3> HIDE DEF g
    <3> QED BY <1>7, <1>9, <3>1
  <2>2. CASE k # d
    <3>1. k \in FirstDay..(d - 1) /\ k + 1 \in FirstDay..(d + 1) /\ k \in FirstDay..(d + 1)
          /\ k # d + 1 /\ k + 1 # d + 1
      BY <1>0, <2>2
    <3>2. g[k + 1] = h[k + 1] /\ g[k] = h[k]
      BY <3>1
    <3> HIDE DEF g
    <3> QED BY <1>4, <3>1, <3>2
  <2> QED BY <2>1, <2>2
<1> HIDE DEF g
<1> QED BY <1>7, <1>8, <1>9, <1>10 DEF Earned, D

\* They are settled by the symbols that are loaded, and no others.
LEMMA EarnedOnce ==
  ASSUME NEW u, NEW m, NEW days, NEW d \in Nat, FirstDay <= d,
         NEW ts, NEW us, Earned(u, m, days, d, ts), Earned(u, m, days, d, us)
  PROVE  ts = us
<1>1. PICK h \in [FirstDay..d -> Seq(Booking)] :
        /\ h[FirstDay] = <<>> /\ ts = h[d]
        /\ \A k \in FirstDay..(d - 1) : h[k + 1] = h[k] \o UV!day_trades(u, m, days, k)
  BY DEF Earned
<1>2. PICK g \in [FirstDay..d -> Seq(Booking)] :
        /\ g[FirstDay] = <<>> /\ us = g[d]
        /\ \A k \in FirstDay..(d - 1) : g[k + 1] = g[k] \o UV!day_trades(u, m, days, k)
  BY DEF Earned
<1> DEFINE n == d - FirstDay
           P == {i \in 0..n : h[FirstDay + i] = g[FirstDay + i]}
<1>3. FirstDay \in Nat /\ n \in Nat /\ FirstDay + n = d /\ FirstDay + 0 = FirstDay
  BY UniverseValues
<1>4. 0 \in P
  BY <1>1, <1>2, <1>3
<1>5. ASSUME NEW i \in 0..n, i \in P, i < n PROVE i + 1 \in P
  <2>1. FirstDay + i \in FirstDay..(d - 1) /\ FirstDay + (i + 1) = (FirstDay + i) + 1 /\ i + 1 \in 0..n
    BY <1>3, <1>5
  <2>2. h[FirstDay + i] = g[FirstDay + i]
    BY <1>5
  <2>3. h[(FirstDay + i) + 1] = h[FirstDay + i] \o UV!day_trades(u, m, days, FirstDay + i)
    BY <1>1, <2>1
  <2>4. g[(FirstDay + i) + 1] = g[FirstDay + i] \o UV!day_trades(u, m, days, FirstDay + i)
    BY <1>2, <2>1
  <2>5. h[(FirstDay + i) + 1] = g[(FirstDay + i) + 1]
    BY <2>2, <2>3, <2>4
  <2> QED BY <2>1, <2>5
<1> HIDE DEF P
<1>6. \A i \in 0..n : i \in P
  <2> HIDE DEF n
  <2> QED BY <1>3, <1>4, <1>5, CountUp
<1>7. n \in P
  BY <1>3, <1>6
<1>8. h[d] = g[d]
  BY <1>3, <1>7 DEF P
<1> QED BY <1>1, <1>2, <1>8

\* What is loaded was loaded from files as they are now.
FromFiles(days) ==
  Loads(file, days) /\ \A s \in UV!Symbols : days[s] \in {0, cache[s].days}

UniverseTypes ==
  /\ file \in Universes /\ market \in Markets /\ published \in (FirstDay - 1)..LastDay
  /\ uPhase \in {"idle", "fetch", "days"}
  /\ uPhase = "idle" => at = 0
  /\ uPhase = "fetch" => at \in 1..(Len(UV!load_universe(file)) + 1)
  /\ uPhase = "days" => at \in FirstDay..(LastDay + 1)
  /\ cache \in [UV!Symbols -> [kind : {"none", "torn", "bars"}, days : Nat]]
  /\ \A s \in UV!Symbols :
       cache[s].days <= published /\ (cache[s].kind # "bars" => cache[s].days = 0)

\* The trades are those of the days so far.
UniverseTrades ==
  /\ uPhase # "days" => trades = <<>>
  /\ uPhase = "days" => Earned(file, market, loaded, at, trades)
  /\ Earned(file, market, last.frames, LastDay + 1, last.trades)

\* The inductive invariant.
UniverseInv ==
  UniverseTypes /\ FromFiles(loaded) /\ FromFiles(last.frames) /\ UniverseTrades

LEMMA EarnedNothing ==
  ASSUME NEW u \in Universes, NEW m \in Markets
  PROVE  Earned(u, m, UV!Nothing, LastDay + 1, <<>>)
<1>1. FirstDay \in Nat /\ LastDay \in Nat /\ FirstDay <= LastDay
  BY UniverseValues
<1> DEFINE h == [k \in FirstDay..(LastDay + 1) |-> <<>>]
<1>2. h \in [FirstDay..(LastDay + 1) -> Seq(Booking)]
  OBVIOUS
<1>3. h[FirstDay] = <<>> /\ <<>> = h[LastDay + 1]
  BY <1>1
<1>4. ASSUME NEW k \in FirstDay..((LastDay + 1) - 1)
      PROVE  h[k + 1] = h[k] \o UV!day_trades(u, m, UV!Nothing, k)
  <2>1. k \in Nat /\ k \in FirstDay..(LastDay + 1) /\ k + 1 \in FirstDay..(LastDay + 1)
    BY <1>1
  <2>2. h[k] = <<>> /\ h[k + 1] = <<>>
    BY <2>1
  <2>3. UV!day_trades(u, m, UV!Nothing, k) = <<>>
    BY <2>1, NothingTrades
  <2>4. <<>> \o <<>> = <<>>
    OBVIOUS
  <2> HIDE DEF h
  <2> QED BY <2>2, <2>3, <2>4
<1> HIDE DEF h
<1> QED BY <1>2, <1>3, <1>4 DEF Earned

LEMMA NothingFromFiles ==
  ASSUME file \in Universes, market \in Markets
  PROVE  FromFiles(UV!Nothing)
<1>1. 0 \in Nat
  OBVIOUS
<1>2. Loads(file, UV!Nothing)
  BY <1>1, NothingTrades
<1>3. \A s \in UV!Symbols : UV!Nothing[s] = 0
  BY DEF UV!Nothing
<1> QED BY <1>2, <1>3 DEF FromFiles

LEMMA UniverseInit == Init => UniverseInv
<1> SUFFICES ASSUME Init PROVE UniverseInv
  OBVIOUS
<1>1. UV!Init
  BY DEF Init
<1>2. UniverseTypes
  <2>1. /\ file \in Universes /\ market \in Markets /\ published \in (FirstDay - 1)..LastDay
        /\ uPhase = "idle" /\ at = 0
    BY <1>1 DEF UV!Init
  <2>2. cache = [s \in UV!Symbols |-> [kind |-> "none", days |-> 0]]
    BY <1>1 DEF UV!Init, UV!NoFile
  <2>3. 0 <= published
    BY <2>1, UniverseValues
  <2>4. \A s \in UV!Symbols : cache[s] = [kind |-> "none", days |-> 0]
    BY <2>2
  <2>5. cache \in [UV!Symbols -> [kind : {"none", "torn", "bars"}, days : Nat]]
    BY <2>2
  <2> QED BY <2>1, <2>3, <2>4, <2>5 DEF UniverseTypes
<1>3. loaded = UV!Nothing /\ last.frames = UV!Nothing /\ last.trades = <<>> /\ trades = <<>> /\ uPhase = "idle"
      /\ file \in Universes /\ market \in Markets
  BY <1>1 DEF UV!Init
<1>4. FromFiles(loaded) /\ FromFiles(last.frames)
  BY <1>3, NothingFromFiles
<1>5. UniverseTrades
  BY <1>3, EarnedNothing DEF UniverseTrades
<1> QED BY <1>2, <1>4, <1>5 DEF UniverseInv

\* While the files stay as they are, what was loaded from them stays so.
LEMMA FilesStay ==
  ASSUME NEW days, FromFiles(days), UNCHANGED <<file, cache>>
  PROVE  Loads(file', days) /\ \A s \in UV!Symbols : days[s] \in {0, cache'[s].days}
<1>1. file' = file /\ cache' = cache
  OBVIOUS
<1> QED BY <1>1 DEF FromFiles

\* A file is written where there was none: nothing was loaded of the symbol.
LEMMA FilesGrow ==
  ASSUME UniverseTypes, NEW days, FromFiles(days), NEW s \in UV!Symbols, NEW x,
         cache[s].kind = "none", cache' = [cache EXCEPT ![s] = x], file' = file
  PROVE  Loads(file', days) /\ \A r \in UV!Symbols : days[r] \in {0, cache'[r].days}
<1>1. cache[s].days = 0
  BY DEF UniverseTypes
<1>2. DOMAIN cache = UV!Symbols
  BY DEF UniverseTypes
<1>3. \A r \in UV!Symbols : r # s => cache'[r] = cache[r]
  BY <1>2
<1>4. \A r \in UV!Symbols : days[r] \in {0, cache[r].days}
  BY DEF FromFiles
<1>5. \A r \in UV!Symbols : days[r] \in {0, cache'[r].days}
  <2> SUFFICES ASSUME NEW r \in UV!Symbols PROVE days[r] \in {0, cache'[r].days}
    OBVIOUS
  <2>1. CASE r = s
    BY <1>1, <1>4, <2>1
  <2>2. CASE r # s
    BY <1>3, <1>4, <2>2
  <2> QED BY <2>1, <2>2
<1> QED BY <1>5 DEF FromFiles

\* The symbol a run fetches is one of the file's, and not the last line.
LEMMA FetchedSymbol ==
  ASSUME UniverseTypes, NEW s \in UV!Symbols, UV!Fetching(s)
  PROVE  /\ uPhase = "fetch" /\ at + 1 \in 1..(Len(UV!load_universe(file)) + 1)
         /\ \E k \in UV!Firsts(file) : file[k] = s
<1>1. file \in Universes /\ uPhase = "fetch" /\ at <= Len(UV!load_universe(file))
      /\ s = UV!load_universe(file)[at] /\ at \in 1..(Len(UV!load_universe(file)) + 1)
  BY DEF UniverseTypes, UV!Fetching
<1>2. Len(UV!load_universe(file)) \in Nat
  BY <1>1, LoadedUniverse
<1>3. at \in 1..Len(UV!load_universe(file)) /\ at + 1 \in 1..(Len(UV!load_universe(file)) + 1)
  BY <1>1, <1>2
<1>4. \E j \in UV!Firsts(file) : file[j] = UV!load_universe(file)[at]
  BY <1>1, <1>3, LoadedUniverse
<1> QED BY <1>1, <1>3, <1>4

\* A frame of the first days of a symbol.
LEMMA Framed ==
  ASSUME UniverseTypes, FromFiles(loaded), NEW s \in UV!Symbols, NEW n \in 0..LastDay,
         UV!Frame(s, n), \E k \in UV!Firsts(file) : file[k] = s
  PROVE  /\ Loads(file, loaded') /\ loaded'[s] \in {0, n}
         /\ \A r \in UV!Symbols : r # s => loaded'[r] = loaded[r]
<1>1. PICK v \in {0, n} : loaded' = [loaded EXCEPT ![s] = v]
  BY DEF UV!Frame
<1>2. loaded \in [UV!Symbols -> 0..LastDay]
  BY DEF FromFiles, Loads
<1>3. LastDay \in Nat
  BY UniverseValues
<1>4. v \in 0..LastDay
  BY <1>1, <1>3
<1>5. loaded' \in [UV!Symbols -> 0..LastDay] /\ loaded'[s] = v
      /\ \A r \in UV!Symbols : r # s => loaded'[r] = loaded[r]
  BY <1>1, <1>2, <1>4
<1>6. \A r \in UV!Symbols : loaded'[r] > 0 => \E k \in UV!Firsts(file) : file[k] = r
  <2> SUFFICES ASSUME NEW r \in UV!Symbols, loaded'[r] > 0
               PROVE  \E k \in UV!Firsts(file) : file[k] = r
    OBVIOUS
  <2>1. CASE r = s
    BY <2>1
  <2>2. CASE r # s
    BY <1>5, <2>2 DEF FromFiles, Loads
  <2> QED BY <2>1, <2>2
<1> QED BY <1>1, <1>5, <1>6 DEF Loads

LEMMA UniverseStays ==
  ASSUME UniverseInv, UNCHANGED universe
  PROVE  UniverseInv'
BY DEF UniverseInv, UniverseTypes, UniverseTrades, FromFiles, universe

LEMMA UniverseDayPasses ==
  ASSUME UniverseInv, UV!DayPasses
  PROVE  UniverseInv'
<1>1. /\ published < LastDay /\ published' = published + 1
      /\ UNCHANGED <<file, market, cache, uPhase, at, loaded, trades, last>>
  BY DEF UV!DayPasses
<1>2. UniverseTypes'
  <2>0. FirstDay \in Nat /\ LastDay \in Nat
    BY UniverseValues
  <2>1. published' \in (FirstDay - 1)..LastDay /\ published <= published'
    BY <1>1, <2>0 DEF UniverseInv, UniverseTypes
  <2>2. \A s \in UV!Symbols : cache[s].days \in Nat /\ cache[s].days <= published
    BY DEF UniverseInv, UniverseTypes
  <2>3. published \in Int /\ published' \in Int
    BY <2>0, <2>1 DEF UniverseInv, UniverseTypes
  <2>4. \A s \in UV!Symbols : cache[s].days <= published'
    BY <2>1, <2>2, <2>3
  <2> QED BY <1>1, <2>1, <2>4 DEF UniverseInv, UniverseTypes
<1>3. FromFiles(loaded)' /\ FromFiles(last.frames)' /\ UniverseTrades'
  BY <1>1 DEF UniverseInv, UniverseTrades, FromFiles
<1> QED BY <1>2, <1>3 DEF UniverseInv

LEMMA UniverseBegin ==
  ASSUME UniverseInv, UV!Begin
  PROVE  UniverseInv'
<1>1. /\ uPhase' = "fetch" /\ at' = 1 /\ loaded' = UV!Nothing /\ trades' = <<>>
      /\ UNCHANGED <<file, market, published, cache, last>>
  BY DEF UV!Begin
<1>2. file \in Universes /\ market \in Markets
  BY DEF UniverseInv, UniverseTypes
<1>3. at' \in 1..(Len(UV!load_universe(file)) + 1)
  BY <1>1, <1>2, LoadedUniverse
<1>4. UniverseTypes'
  BY <1>1, <1>3 DEF UniverseInv, UniverseTypes
<1>5. FromFiles(loaded)'
  <2>1. FromFiles(UV!Nothing)
    BY <1>2, NothingFromFiles
  <2> QED BY <1>1, <2>1 DEF FromFiles
<1>6. FromFiles(last.frames)' /\ UniverseTrades'
  BY <1>1 DEF UniverseInv, UniverseTrades, FromFiles
<1> QED BY <1>4, <1>5, <1>6 DEF UniverseInv

LEMMA UniverseFetched ==
  ASSUME UniverseInv, UV!Fetched
  PROVE  UniverseInv'
<1>1. /\ uPhase = "fetch" /\ uPhase' = "days" /\ at' = FirstDay
      /\ UNCHANGED <<file, market, published, cache, loaded, trades, last>>
  BY DEF UV!Fetched
<1>2. FirstDay \in FirstDay..(LastDay + 1)
  BY UniverseValues
<1>3. UniverseTypes'
  BY <1>1, <1>2 DEF UniverseInv, UniverseTypes
<1>4. FromFiles(loaded)' /\ FromFiles(last.frames)'
  BY <1>1 DEF UniverseInv, FromFiles
<1>5. trades = <<>> /\ Earned(file, market, loaded, FirstDay, <<>>)
  BY <1>1, EarnedNone DEF UniverseInv, UniverseTrades
<1>6. UniverseTrades'
  BY <1>1, <1>5 DEF UniverseInv, UniverseTrades
<1> QED BY <1>3, <1>4, <1>6 DEF UniverseInv

LEMMA UniverseReplayDay ==
  ASSUME UniverseInv, UV!ReplayDay
  PROVE  UniverseInv'
<1>1. /\ uPhase = "days" /\ at <= LastDay /\ at' = at + 1
      /\ trades' = trades \o UV!day_trades(file, market, loaded, at)
      /\ UNCHANGED <<file, market, published, cache, uPhase, loaded, last>>
  BY DEF UV!ReplayDay
<1>2. file \in Universes /\ market \in Markets /\ at \in FirstDay..(LastDay + 1)
  BY <1>1 DEF UniverseInv, UniverseTypes
<1>3. at \in Nat /\ FirstDay <= at /\ at + 1 \in FirstDay..(LastDay + 1)
  BY <1>1, <1>2, UniverseValues
<1>4. UniverseTypes'
  BY <1>1, <1>3 DEF UniverseInv, UniverseTypes
<1>5. FromFiles(loaded)' /\ FromFiles(last.frames)'
  BY <1>1 DEF UniverseInv, FromFiles
<1>6. Earned(file, market, loaded, at, trades) /\ Loads(file, loaded)
  BY <1>1 DEF UniverseInv, UniverseTrades, FromFiles
<1>7. Earned(file, market, loaded, at + 1, trades \o UV!day_trades(file, market, loaded, at))
  BY <1>2, <1>3, <1>6, EarnedDay
<1>8. UniverseTrades'
  BY <1>1, <1>7 DEF UniverseInv, UniverseTrades
<1> QED BY <1>4, <1>5, <1>8 DEF UniverseInv

LEMMA UniverseReport ==
  ASSUME UniverseInv, UV!Report
  PROVE  UniverseInv'
<1>1. /\ uPhase = "days" /\ at > LastDay
      /\ last'.frames = loaded /\ last'.trades = trades
      /\ uPhase' = "idle" /\ at' = 0 /\ loaded' = UV!Nothing /\ trades' = <<>>
      /\ UNCHANGED <<file, market, published, cache>>
  BY DEF UV!Report
<1>2. file \in Universes /\ market \in Markets /\ at \in FirstDay..(LastDay + 1)
  BY <1>1 DEF UniverseInv, UniverseTypes
<1>3. at = LastDay + 1
  BY <1>1, <1>2, UniverseValues
<1>4. UniverseTypes'
  BY <1>1 DEF UniverseInv, UniverseTypes
<1>5. FromFiles(loaded)'
  <2>1. FromFiles(UV!Nothing)
    BY <1>2, NothingFromFiles
  <2> QED BY <1>1, <2>1 DEF FromFiles
<1>6. FromFiles(last.frames)'
  BY <1>1 DEF UniverseInv, FromFiles
<1>7. Earned(file, market, loaded, LastDay + 1, trades)
  BY <1>1, <1>3 DEF UniverseInv, UniverseTrades
<1>8. UniverseTrades'
  BY <1>1, <1>7 DEF UniverseTrades
<1> QED BY <1>4, <1>5, <1>6, <1>8 DEF UniverseInv

LEMMA UniverseFetch ==
  ASSUME UniverseInv, NEW s \in UV!Symbols,
         UV!CacheHit(s) \/ UV!CacheTorn(s) \/ UV!CacheMiss(s) \/ UV!FetchError(s)
  PROVE  UniverseInv'
<1>0. UniverseTypes /\ FromFiles(loaded) /\ FromFiles(last.frames) /\ UniverseTrades
  BY DEF UniverseInv
<1>1. /\ UV!Fetching(s) /\ at' = at + 1
      /\ UNCHANGED <<file, market, published, uPhase, trades, last>>
  BY DEF UV!CacheHit, UV!CacheTorn, UV!CacheMiss, UV!FetchError
<1>2. /\ uPhase = "fetch" /\ at + 1 \in 1..(Len(UV!load_universe(file)) + 1)
      /\ \E k \in UV!Firsts(file) : file[k] = s
  BY <1>0, <1>1, FetchedSymbol
<1>3. UniverseTrades'
  BY <1>0, <1>1, <1>2 DEF UniverseTrades
<1>4. cache \in [UV!Symbols -> [kind : {"none", "torn", "bars"}, days : Nat]] /\ published \in Nat
      /\ published <= LastDay /\ LastDay \in Nat
      /\ \A r \in UV!Symbols :
           cache[r].days <= published /\ (cache[r].kind # "bars" => cache[r].days = 0)
  BY <1>0, UniverseValues DEF UniverseTypes
<1>5. CASE UNCHANGED cache
  <2>1. UniverseTypes'
    BY <1>0, <1>1, <1>2, <1>5 DEF UniverseTypes
  <2>2. FromFiles(last.frames)'
    BY <1>0, <1>1, <1>5 DEF FromFiles
  <2>3. CASE UNCHANGED loaded
    BY <1>0, <1>1, <1>3, <1>5, <2>1, <2>2, <2>3 DEF UniverseInv, FromFiles
  <2>4. CASE UV!Frame(s, UV!Known(s))
    <3>1. cache[s].days \in 0..LastDay /\ UV!Known(s) = cache[s].days
      BY <1>4 DEF UV!Known
    <3>2. /\ Loads(file, loaded') /\ loaded'[s] \in {0, UV!Known(s)}
          /\ \A r \in UV!Symbols : r # s => loaded'[r] = loaded[r]
      BY <1>0, <1>2, <2>4, <3>1, Framed
    <3>3. \A r \in UV!Symbols : loaded'[r] \in {0, cache[r].days}
      BY <1>0, <3>1, <3>2 DEF FromFiles
    <3>4. FromFiles(loaded)'
      BY <1>1, <1>5, <3>2, <3>3 DEF FromFiles
    <3> QED BY <1>3, <2>1, <2>2, <3>4 DEF UniverseInv
  <2>5. UNCHANGED loaded \/ UV!Frame(s, UV!Known(s))
    <3>1. CASE UV!CacheMiss(s)
      <4>1. cache' = [cache EXCEPT ![s] = [kind |-> "bars", days |-> published]] /\ cache[s].kind = "none"
        BY <3>1 DEF UV!CacheMiss
      <4>2. cache'[s].kind = "bars"
        BY <1>4, <4>1
      <4> QED BY <1>5, <4>1, <4>2
    <3> QED BY <3>1 DEF UV!CacheHit, UV!CacheTorn, UV!FetchError
  <2> QED BY <2>3, <2>4, <2>5
<1>6. CASE UV!CacheMiss(s)
  <2> DEFINE x == [kind |-> "bars", days |-> published]
  <2>1. cache[s].kind = "none" /\ cache' = [cache EXCEPT ![s] = x] /\ UV!Frame(s, published)
    BY <1>6 DEF UV!CacheMiss
  <2>2. x \in [kind : {"none", "torn", "bars"}, days : Nat] /\ x.days = published /\ x.kind = "bars"
    BY <1>4
  <2> HIDE DEF x
  <2>3. /\ cache' \in [UV!Symbols -> [kind : {"none", "torn", "bars"}, days : Nat]]
        /\ cache'[s] = x /\ \A r \in UV!Symbols : r # s => cache'[r] = cache[r]
    BY <1>4, <2>1, <2>2
  <2>4. \A r \in UV!Symbols :
          cache'[r].days <= published /\ (cache'[r].kind # "bars" => cache'[r].days = 0)
    <3> SUFFICES ASSUME NEW r \in UV!Symbols
                 PROVE  cache'[r].days <= published /\ (cache'[r].kind # "bars" => cache'[r].days = 0)
      OBVIOUS
    <3>1. CASE r = s
      BY <1>4, <2>2, <2>3, <3>1
    <3>2. CASE r # s
      BY <1>4, <2>3, <3>2
    <3> QED BY <3>1, <3>2
  <2>5. UniverseTypes'
    BY <1>0, <1>1, <1>2, <2>3, <2>4 DEF UniverseTypes
  <2>6. FromFiles(last.frames)'
    <3>1. Loads(file', last.frames) /\ \A r \in UV!Symbols : last.frames[r] \in {0, cache'[r].days}
      BY <1>0, <1>1, <2>1, FilesGrow
    <3> QED BY <1>1, <3>1 DEF FromFiles
  <2>7. Loads(file', loaded) /\ \A r \in UV!Symbols : loaded[r] \in {0, cache'[r].days}
    BY <1>0, <1>1, <2>1, FilesGrow
  <2>8. /\ Loads(file, loaded') /\ loaded'[s] \in {0, published}
        /\ \A r \in UV!Symbols : r # s => loaded'[r] = loaded[r]
    <3>1. published \in 0..LastDay
      BY <1>4
    <3> QED BY <1>0, <1>2, <2>1, <3>1, Framed
  <2>9. \A r \in UV!Symbols : loaded'[r] \in {0, cache'[r].days}
    BY <2>2, <2>3, <2>7, <2>8
  <2>10. FromFiles(loaded)'
    BY <1>1, <2>8, <2>9 DEF FromFiles
  <2> QED BY <1>3, <2>5, <2>6, <2>10 DEF UniverseInv
<1>7. UNCHANGED cache \/ UV!CacheMiss(s)
  BY DEF UV!CacheHit, UV!CacheTorn, UV!FetchError
<1> QED BY <1>5, <1>6, <1>7

LEMMA UniverseDies ==
  ASSUME UniverseInv, NEW s \in UV!Symbols, UV!DiesWriting(s)
  PROVE  UniverseInv'
<1>0. UniverseTypes /\ FromFiles(loaded) /\ FromFiles(last.frames) /\ UniverseTrades
  BY DEF UniverseInv
<1> DEFINE x == [kind |-> "torn", days |-> 0]
<1>1. /\ UV!Fetching(s) /\ cache[s].kind = "none" /\ cache' = [cache EXCEPT ![s] = x]
      /\ uPhase' = "idle" /\ at' = 0 /\ loaded' = UV!Nothing
      /\ UNCHANGED <<file, market, published, trades, last>>
  BY DEF UV!DiesWriting
<1>2. uPhase = "fetch" /\ file \in Universes /\ market \in Markets
  BY <1>0, <1>1, FetchedSymbol DEF UniverseTypes
<1>3. x \in [kind : {"none", "torn", "bars"}, days : Nat] /\ x.days = 0
  OBVIOUS
<1> HIDE DEF x
<1>4. published \in Nat
  BY <1>0, UniverseValues DEF UniverseTypes
<1>5. /\ cache' \in [UV!Symbols -> [kind : {"none", "torn", "bars"}, days : Nat]]
      /\ cache'[s] = x /\ \A r \in UV!Symbols : r # s => cache'[r] = cache[r]
  BY <1>0, <1>1, <1>3 DEF UniverseTypes
<1>6. \A r \in UV!Symbols :
        cache'[r].days <= published /\ (cache'[r].kind # "bars" => cache'[r].days = 0)
  <2> SUFFICES ASSUME NEW r \in UV!Symbols
               PROVE  cache'[r].days <= published /\ (cache'[r].kind # "bars" => cache'[r].days = 0)
    OBVIOUS
  <2>1. CASE r = s
    BY <1>3, <1>4, <1>5, <2>1
  <2>2. CASE r # s
    BY <1>0, <1>5, <2>2 DEF UniverseTypes
  <2> QED BY <2>1, <2>2
<1>7. UniverseTypes'
  BY <1>0, <1>1, <1>5, <1>6 DEF UniverseTypes
<1>8. FromFiles(last.frames)'
  <2>1. Loads(file', last.frames) /\ \A r \in UV!Symbols : last.frames[r] \in {0, cache'[r].days}
    BY <1>0, <1>1, FilesGrow
  <2> QED BY <1>1, <2>1 DEF FromFiles
<1>9. FromFiles(loaded)'
  <2>1. Loads(file, UV!Nothing)
    BY <1>2, NothingFromFiles DEF FromFiles
  <2>2. \A r \in UV!Symbols : UV!Nothing[r] = 0
    BY DEF UV!Nothing
  <2> QED BY <1>1, <2>1, <2>2 DEF FromFiles
<1>10. UniverseTrades'
  BY <1>0, <1>1, <1>2 DEF UniverseTrades
<1> QED BY <1>7, <1>8, <1>9, <1>10 DEF UniverseInv

LEMMA UniverseStep == UniverseInv /\ [Next]_vars => UniverseInv'
<1> SUFFICES ASSUME UniverseInv, [Next]_vars PROVE UniverseInv'
  OBVIOUS
<1>1. CASE UNCHANGED universe
  BY <1>1, UniverseStays
<1>2. CASE UV!Next
  BY <1>2, UniverseDayPasses, UniverseBegin, UniverseFetched, UniverseReplayDay, UniverseReport,
     UniverseFetch, UniverseDies DEF UV!Next
<1> QED BY <1>1, <1>2 DEF Next, vars

LEMMA UniverseAlways == Spec => []UniverseInv
<1>1. Init => UniverseInv
  BY UniverseInit
<1>2. UniverseInv /\ [Next]_vars => UniverseInv'
  BY UniverseStep
<1> QED BY <1>1, <1>2, PTL DEF Spec

\* Results of the trades, and what follows for the summary.
LEMMA UniverseDeepest == UniverseInv => UV!DrawdownIsDeepest
<1> SUFFICES ASSUME UniverseInv PROVE UV!DrawdownIsDeepest
  OBVIOUS
<1>1. trades \in Seq(Booking)
  <2>1. CASE uPhase = "days"
    <3>1. PICK h \in [FirstDay..at -> Seq(Booking)] : h[FirstDay] = <<>> /\ trades = h[at]
      BY <2>1 DEF UniverseInv, UniverseTrades, Earned
    <3>2. at \in FirstDay..at
      BY <2>1, UniverseValues DEF UniverseInv, UniverseTypes
    <3> QED BY <3>1, <3>2
  <2>2. CASE uPhase # "days"
    <3>1. <<>> \in Seq(Booking)
      OBVIOUS
    <3> QED BY <2>2, <3>1 DEF UniverseInv, UniverseTrades
  <2> QED BY <2>1, <2>2
<1>2. Len(trades) \in Nat /\ DOMAIN trades = 1..Len(trades)
      /\ \A k \in 1..Len(trades) : trades[k] \in Booking
  <2> HIDE DEF Booking
  <2> QED BY <1>1
<1>3. \A k \in 1..Len(trades) : trades[k].r \in Int
  BY <1>2 DEF Booking
<1>4. UV!Results \in [1..Len(trades) -> Int]
  BY <1>2, <1>3 DEF UV!Results
<1>5. UV!Results \in Seq(Int) /\ Len(UV!Results) = Len(trades)
  BY <1>2, <1>4
<1> QED BY <1>2, <1>5, DeepestFall

LEMMA UniverseRepeats == UniverseInv => UV!RunsRepeat
<1> SUFFICES ASSUME UniverseInv, uPhase = "days", at > LastDay,
                    {s \in UV!Symbols : last.frames[s] > 0} = {s \in UV!Symbols : loaded[s] > 0}
             PROVE  last.trades = trades
  BY DEF UV!RunsRepeat
<1>1. /\ loaded \in [UV!Symbols -> 0..LastDay] /\ last.frames \in [UV!Symbols -> 0..LastDay]
      /\ \A s \in UV!Symbols : loaded[s] \in {0, cache[s].days} /\ last.frames[s] \in {0, cache[s].days}
  BY DEF UniverseInv, FromFiles, Loads
<1>2. FirstDay \in Nat /\ LastDay \in Nat /\ FirstDay <= LastDay
  BY UniverseValues
<1>3. ASSUME NEW s \in UV!Symbols PROVE last.frames[s] = loaded[s]
  <2>1. last.frames[s] > 0 <=> loaded[s] > 0
    OBVIOUS
  <2>2. last.frames[s] \in Nat /\ loaded[s] \in Nat
    BY <1>1, <1>2
  <2>3. loaded[s] \in {0, cache[s].days} /\ last.frames[s] \in {0, cache[s].days}
    BY <1>1
  <2> QED BY <2>1, <2>2, <2>3
<1>4. last.frames = loaded
  BY <1>1, <1>3
<1>5. at = LastDay + 1
  BY <1>2 DEF UniverseInv, UniverseTypes
<1>6. Earned(file, market, loaded, LastDay + 1, trades)
  BY <1>5 DEF UniverseInv, UniverseTrades
<1>7. Earned(file, market, loaded, LastDay + 1, last.trades)
  BY <1>4 DEF UniverseInv, UniverseTrades
<1>8. LastDay + 1 \in Nat /\ FirstDay <= LastDay + 1
  BY <1>2
<1> QED BY <1>6, <1>7, <1>8, EarnedOnce

LEMMA UniverseTyped == UniverseInv => UV!TypeOK
<1> SUFFICES ASSUME UniverseInv PROVE UV!TypeOK
  OBVIOUS
<1>1. UniverseTypes
  BY DEF UniverseInv
<1>2. FirstDay \in Nat /\ LastDay \in Nat
  BY UniverseValues
<1>3. Len(UV!load_universe(file)) \in Nat
  BY <1>1, LoadedUniverse DEF UniverseTypes
<1>4. at \in 0..((IF uPhase = "fetch" THEN Len(UV!load_universe(file)) ELSE LastDay) + 1)
  BY <1>1, <1>2, <1>3 DEF UniverseTypes
<1>5. \A s \in UV!Symbols :
        /\ cache[s].kind \in {"none", "torn", "bars"} /\ cache[s].days <= published
        /\ loaded[s] \in {0, cache[s].days}
  BY <1>1 DEF UniverseInv, UniverseTypes, FromFiles
<1> QED BY <1>1, <1>4, <1>5 DEF UniverseTypes, UV!TypeOK

\* Frames that are the same up to day d.
SameUpTo(f, g, d) ==
  /\ DOMAIN f = DOMAIN g
  /\ \A s \in DOMAIN f : DOMAIN f[s] \in {1..n : n \in Nat} /\ DOMAIN g[s] \in {1..n : n \in Nat}
  /\ \A s \in DOMAIN f, k \in 1..d :
       (k \in DOMAIN f[s] <=> k \in DOMAIN g[s]) /\ (k \in DOMAIN f[s] => f[s][k] = g[s][k])

\* The history of a symbol is what is before the day.
LEMMA SameBefore ==
  ASSUME NEW d \in Nat, NEW f, NEW g, SameUpTo(f, g, d), NEW s \in DOMAIN f
  PROVE  /\ UV!Before(f, s, d) = UV!Before(g, s, d)
         /\ UV!Volume(f, s, d) = UV!Volume(g, s, d)
         /\ UV!Before(f, s, d) # {} => UV!LastBefore(f, s, d) = UV!LastBefore(g, s, d)
<1>1. PICK n \in Nat : DOMAIN f[s] = 1..n
  BY DEF SameUpTo
<1>2. PICK m \in Nat : DOMAIN g[s] = 1..m
  BY DEF SameUpTo
<1>3. \A k \in 1..d : (k \in DOMAIN f[s] <=> k \in DOMAIN g[s]) /\ (k \in DOMAIN f[s] => f[s][k] = g[s][k])
  BY DEF SameUpTo
<1> DEFINE B == UV!Before(f, s, d)
<1>4. \A k : k \in B <=> k \in 1..n /\ k < d /\ f[s][k] # Shut
  BY <1>1 DEF UV!Before
<1>5. \A k : k \in UV!Before(g, s, d) <=> k \in 1..m /\ k < d /\ g[s][k] # Shut
  BY <1>2 DEF UV!Before
<1>6. \A k : k \in 1..n /\ k < d => k \in 1..d /\ k \in DOMAIN f[s]
  BY <1>1
<1>7. \A k : k \in 1..m /\ k < d => k \in 1..d /\ k \in DOMAIN g[s]
  BY <1>2
<1>8. \A k : k \in B <=> k \in UV!Before(g, s, d)
  <2> SUFFICES ASSUME NEW k PROVE k \in B <=> k \in UV!Before(g, s, d)
    OBVIOUS
  <2>1. ASSUME k \in B PROVE k \in UV!Before(g, s, d)
    <3>1. k \in 1..d /\ k \in DOMAIN f[s] /\ k < d /\ f[s][k] # Shut
      BY <1>4, <1>6, <2>1
    <3>2. k \in 1..m /\ f[s][k] = g[s][k]
      BY <1>2, <1>3, <3>1
    <3> QED BY <1>5, <3>1, <3>2
  <2>2. ASSUME k \in UV!Before(g, s, d) PROVE k \in B
    <3>1. k \in 1..d /\ k \in DOMAIN g[s] /\ k < d /\ g[s][k] # Shut
      BY <1>5, <1>7, <2>2
    <3>2. k \in 1..n /\ f[s][k] = g[s][k]
      BY <1>1, <1>3, <3>1
    <3> QED BY <1>4, <3>1, <3>2
  <2> QED BY <2>1, <2>2
<1>9. B = UV!Before(g, s, d)
  <2>1. B = {k \in DOMAIN f[s] : k < d /\ f[s][k] # Shut}
    BY DEF UV!Before
  <2>2. UV!Before(g, s, d) = {k \in DOMAIN g[s] : k < d /\ g[s][k] # Shut}
    BY DEF UV!Before
  <2> HIDE DEF B
  <2> QED BY <1>8, <2>1, <2>2
<1>10. \A k \in B : f[s][k] = g[s][k]
  BY <1>3, <1>4, <1>6
<1>11. B \in SUBSET (1..n)
  <2>1. B = {k \in DOMAIN f[s] : k < d /\ f[s][k] # Shut}
    BY DEF UV!Before
  <2> HIDE DEF B
  <2> QED BY <1>1, <2>1
<1> HIDE DEF B
<1>12. UV!Volume(f, s, d) = UV!Volume(g, s, d)
  <2>1. UV!Volume(f, s, d) = UV!SumFunction([k \in B |-> f[s][k].vol])
    BY DEF UV!Volume, B
  <2>2. UV!Volume(g, s, d) = UV!SumFunction([k \in B |-> g[s][k].vol])
    BY <1>9 DEF UV!Volume
  <2>3. [k \in B |-> f[s][k].vol] = [k \in B |-> g[s][k].vol]
    BY <1>10
  <2> QED BY <2>1, <2>2, <2>3, Zenon
<1>13. ASSUME B # {} PROVE UV!LastBefore(f, s, d) = UV!LastBefore(g, s, d)
  <2>1. UV!LastBefore(f, s, d) = f[s][UV!Max(B)] /\ UV!LastBefore(g, s, d) = g[s][UV!Max(B)]
    BY <1>9 DEF UV!LastBefore, B
  <2>2. UV!Max(B) \in B
    BY <1>11, <1>13, MaxExists
  <2> QED BY <1>10, <2>1, <2>2
<1> QED BY <1>9, <1>12, <1>13 DEF B

\* A symbol in play on the one is in play on the other, with the same gap.
LEMMA SamePlay ==
  ASSUME NEW d \in Nat \ {0}, NEW f, NEW g, SameUpTo(f, g, d), NEW s \in DOMAIN f,
         UV!is_in_play(f, s, d)
  PROVE  UV!is_in_play(g, s, d) /\ UV!gap_pct(g, s, d) = UV!gap_pct(f, s, d)
<1> DEFINE B == UV!Before(f, s, d)
           b == UV!LastBefore(f, s, d)
<1>1. /\ d \in DOMAIN f[s] /\ f[s][d] # Shut /\ UV!Cardinality(B) > 0
  BY DEF UV!is_in_play
<1>2. B # {}
  <2>1. Cardinality({}) = 0
    BY FS_EmptySet
  <2> HIDE DEF B
  <2> QED BY <1>1, <2>1, UniverseCardinality
<1>3. /\ UV!Before(g, s, d) = B /\ UV!Volume(g, s, d) = UV!Volume(f, s, d)
      /\ UV!LastBefore(g, s, d) = b
  BY <1>2, SameBefore
<1>4. d \in DOMAIN g[s] /\ g[s][d] = f[s][d]
  <2>1. d \in 1..d
    OBVIOUS
  <2> QED BY <1>1, <2>1 DEF SameUpTo
<1> HIDE DEF B, b
<1>5. UV!Move(g, s, d) = UV!Move(f, s, d)
  <2>1. UV!Move(f, s, d) = LET move == f[s][d].op - b.cl IN IF move < 0 THEN -move ELSE move
    BY DEF UV!Move, b
  <2>2. UV!Move(g, s, d) = LET move == f[s][d].op - b.cl IN IF move < 0 THEN -move ELSE move
    BY <1>3, <1>4 DEF UV!Move
  <2> QED BY <2>1, <2>2
<1>6. UV!gap_pct(g, s, d) = UV!gap_pct(f, s, d)
  <2>1. UV!gap_pct(f, s, d) = (20000 * UV!Move(f, s, d) + b.cl) \div (2 * b.cl)
    BY DEF UV!gap_pct, b
  <2>2. UV!gap_pct(g, s, d) = (20000 * UV!Move(f, s, d) + b.cl) \div (2 * b.cl)
    BY <1>3, <1>5 DEF UV!gap_pct
  <2> QED BY <2>1, <2>2
<1>7. UV!is_in_play(g, s, d)
  <2> DEFINE days == UV!Cardinality(B)
  <2>1. /\ days > 0 /\ 100 * UV!Move(f, s, d) >= LeastGap * b.cl
        /\ days >= MinPrevDays /\ UV!Volume(f, s, d) > 0
        /\ f[s][d].vol * days >= MinRvol * UV!Volume(f, s, d) /\ b.range >= MinAtr
    BY DEF UV!is_in_play, B, b
  <2>2. UV!is_in_play(g, s, d) <=>
          /\ d \in DOMAIN g[s] /\ g[s][d] # Shut
          /\ days > 0 /\ 100 * UV!Move(f, s, d) >= LeastGap * b.cl
          /\ days >= MinPrevDays /\ UV!Volume(f, s, d) > 0
          /\ f[s][d].vol * days >= MinRvol * UV!Volume(f, s, d) /\ b.range >= MinAtr
    BY <1>3, <1>4, <1>5, Zenon DEF UV!is_in_play
  <2> HIDE DEF days
  <2> QED BY <1>1, <1>4, <2>1, <2>2, Zenon
<1> QED BY <1>6, <1>7

\* So a day's symbols are the same.
LEMMA SameDaySymbols ==
  ASSUME NEW u, NEW d \in Nat \ {0}, NEW f, NEW g, SameUpTo(f, g, d)
  PROVE  UV!day_symbols(u, f, d) = UV!day_symbols(u, g, d)
<1>1. SameUpTo(g, f, d) /\ DOMAIN f = DOMAIN g
  BY DEF SameUpTo
<1>2. \A s \in DOMAIN f : UV!is_in_play(f, s, d) <=> UV!is_in_play(g, s, d)
  BY <1>1, SamePlay
<1>3. \A s \in DOMAIN f : UV!is_in_play(f, s, d) => UV!gap_pct(g, s, d) = UV!gap_pct(f, s, d)
  BY SamePlay
<1>4. UV!InPlay(f, d) = UV!InPlay(g, d)
  BY <1>1, <1>2 DEF UV!InPlay
<1>5. \A s \in UV!InPlay(f, d) : UV!gap_pct(g, s, d) = UV!gap_pct(f, s, d)
  BY <1>3 DEF UV!InPlay
<1> DEFINE gap == [s \in UV!InPlay(f, d) |-> UV!gap_pct(f, s, d)]
           gap2 == [s \in UV!InPlay(g, d) |-> UV!gap_pct(g, s, d)]
           Chosen(x) == LET all == UV!InOrder(DOMAIN x, LAMBDA a, b : UV!Ahead(u, x, a, b))
                        IN  SubSeq(all, 1, IF Len(all) < MaxPerDay THEN Len(all) ELSE MaxPerDay)
<1>6. gap = gap2
  BY <1>4, <1>5
<1>7. UV!day_symbols(u, f, d) = Chosen(gap)
  BY DEF UV!day_symbols
<1>8. UV!day_symbols(u, g, d) = Chosen(gap2)
  BY DEF UV!day_symbols
<1>9. Chosen(gap) = Chosen(gap2)
  <2> HIDE DEF gap, gap2
  <2> QED BY <1>6 DEF UV!InOrder, UV!Ahead
<1> HIDE DEF Chosen
<1> QED BY <1>7, <1>8, <1>9

LEMMA UniverseCausal == UniverseInv => UV!ScanIsCausal
<1> SUFFICES ASSUME UniverseInv, NEW d \in FirstDay..LastDay
             PROVE  LET seen == UV!Frames(market, loaded)
                        upto == [s \in DOMAIN seen |->
                                   SubSeq(seen[s], 1, IF d < loaded[s] THEN d ELSE loaded[s])]
                    IN  UV!day_symbols(file, seen, d) = UV!day_symbols(file, upto, d)
  BY DEF UV!ScanIsCausal
<1> DEFINE f == UV!Frames(market, loaded)
           c(s) == IF d < loaded[s] THEN d ELSE loaded[s]
           g == [s \in DOMAIN f |-> SubSeq(f[s], 1, c(s))]
<1>1. market \in Markets /\ loaded \in [UV!Symbols -> 0..LastDay]
  BY DEF UniverseInv, UniverseTypes, FromFiles, Loads
<1>2. FirstDay \in Nat /\ LastDay \in Nat /\ 0 < FirstDay /\ d \in Nat \ {0}
  BY UniverseValues
<1>3. /\ DOMAIN f = {s \in UV!Symbols : loaded[s] > 0}
      /\ \A s \in DOMAIN f : /\ DOMAIN f[s] = 1..loaded[s] /\ Len(f[s]) = loaded[s]
                             /\ f[s] \in Seq(UV!Range(market[s]))
  BY <1>1, FramesAre
<1> HIDE DEF f
<1>4. ASSUME NEW s \in DOMAIN f
      PROVE  /\ loaded[s] \in Nat /\ c(s) \in 1..loaded[s] /\ DOMAIN f[s] = 1..loaded[s]
             /\ DOMAIN g[s] = 1..c(s) /\ \A k \in 1..c(s) : g[s][k] = f[s][k]
  <2>1. loaded[s] \in Nat /\ loaded[s] > 0
    BY <1>1, <1>2, <1>3
  <2>2. c(s) \in 1..loaded[s] /\ c(s) \in Nat
    BY <1>2, <2>1
  <2> DEFINE t == f[s]
             U == UV!Range(market[s])
             n == c(s)
  <2>3. t \in Seq(U) /\ n \in 1..Len(t) /\ Len(t) \in Nat
    BY <1>3, <2>1, <2>2
  <2>4. g[s] = SubSeq(t, 1, n)
    OBVIOUS
  <2> HIDE DEF t, U, n, g
  <2>5. /\ SubSeq(t, 1, n) \in Seq(U) /\ Len(SubSeq(t, 1, n)) = n
        /\ \A k \in 1..n : SubSeq(t, 1, n)[k] = t[k]
    <3>1. /\ SubSeq(t, 1, n) \in Seq(U) /\ Len(SubSeq(t, 1, n)) = IF 1 <= n THEN n - 1 + 1 ELSE 0
          /\ \A k \in 1..(n - 1 + 1) : SubSeq(t, 1, n)[k] = t[1 + k - 1]
      BY <2>3, SubSeqProperties
    <3>2. n \in Nat /\ 1 <= n /\ n - 1 + 1 = n
      BY <2>3
    <3>3. \A k \in 1..n : 1 + k - 1 = k
      BY <3>2
    <3> QED BY <3>1, <3>2, <3>3
  <2>6. DOMAIN SubSeq(t, 1, n) = 1..n
    BY <2>5
  <2>7. DOMAIN g[s] = 1..n /\ \A k \in 1..n : g[s][k] = t[k]
    BY <2>4, <2>5, <2>6
  <2> QED BY <1>3, <2>1, <2>2, <2>7 DEF t, n
<1>5. DOMAIN g = DOMAIN f
  OBVIOUS
<1> HIDE DEF g
<1>6. \A s \in DOMAIN f, k \in 1..d :
        (k \in DOMAIN f[s] <=> k \in DOMAIN g[s]) /\ (k \in DOMAIN f[s] => f[s][k] = g[s][k])
  <2> SUFFICES ASSUME NEW s \in DOMAIN f, NEW k \in 1..d
               PROVE  /\ k \in DOMAIN f[s] <=> k \in DOMAIN g[s]
                      /\ k \in DOMAIN f[s] => f[s][k] = g[s][k]
    OBVIOUS
  <2>1. k \in 1..loaded[s] <=> k \in 1..c(s)
    BY <1>2, <1>4
  <2> HIDE DEF c
  <2> QED BY <1>4, <2>1
<1>7. \A s \in DOMAIN f : DOMAIN f[s] \in {1..n : n \in Nat} /\ DOMAIN g[s] \in {1..n : n \in Nat}
  <2> SUFFICES ASSUME NEW s \in DOMAIN f
               PROVE  DOMAIN f[s] \in {1..n : n \in Nat} /\ DOMAIN g[s] \in {1..n : n \in Nat}
    OBVIOUS
  <2>1. loaded[s] \in Nat /\ c(s) \in Nat
    BY <1>4
  <2> HIDE DEF c
  <2> QED BY <1>4, <2>1
<1>8. SameUpTo(f, g, d)
  BY <1>5, <1>6, <1>7 DEF SameUpTo
<1>9. UV!day_symbols(file, f, d) = UV!day_symbols(file, g, d)
  BY <1>2, <1>8, SameDaySymbols
<1> QED BY <1>9 DEF f, g

\* The expert's order is placed while the bars it searches are still coming in.
ScanTyped == SC!TypeOK /\ Len(bars) <= MaxBars + Extra

LEMMA ScanTypedStep == ScanTyped /\ [Next]_vars => ScanTyped'
<1> SUFFICES ASSUME ScanTyped, [Next]_vars PROVE ScanTyped'
  OBVIOUS
<1>1. MaxBars \in Nat /\ Extra \in Nat
  BY ReplayAssumption DEF SC!ScanAssumption
<1>2. dir \in SC!Dir /\ bars \in Seq(ScanCandles) /\ limit.bar \in 0..MaxBars + Extra + 1
      /\ Len(bars) \in Nat /\ Len(bars) <= MaxBars + Extra
  BY DEF ScanTyped, SC!TypeOK
<1>3. CASE UNCHANGED scan
  BY <1>3 DEF scan, ScanTyped, SC!TypeOK
<1>4. ASSUME NEW c \in ScanCandles, SC!BarCloses(c) PROVE ScanTyped'
  <2>1. Len(bars) < MaxBars + Extra /\ bars' = Append(bars, c) /\ UNCHANGED <<dir, limit>>
    BY <1>4 DEF SC!BarCloses
  <2>2. Append(bars, c) \in Seq(ScanCandles) /\ Len(Append(bars, c)) = Len(bars) + 1
    BY <1>2
  <2> QED BY <1>1, <1>2, <2>1, <2>2 DEF ScanTyped, SC!TypeOK
<1>5. ASSUME NEW c \in ScanCandles, NEW pref \in SC!Preference, SC!TryPlaceEntries(c, pref)
      PROVE  ScanTyped'
  <2>1. limit'.bar = Len(bars) + 1 /\ UNCHANGED <<dir, bars>>
    BY <1>5 DEF SC!TryPlaceEntries
  <2>2. Len(bars) + 1 \in 0..MaxBars + Extra + 1
    BY <1>1, <1>2
  <2> QED BY <1>2, <2>1, <2>2 DEF ScanTyped, SC!TypeOK
<1> QED BY <1>3, <1>4, <1>5 DEF Next, vars, SC!Next

LEMMA ScanTypedAlways == Spec => []ScanTyped
<1>1. Init => ScanTyped
  <2>1. ASSUME SC!Init PROVE ScanTyped
    <3>1. MaxBars \in Nat /\ Extra \in Nat
      BY ReplayAssumption DEF SC!ScanAssumption
    <3>2. dir \in SC!Dir /\ bars = <<>> /\ limit.bar = 0
      BY <2>1 DEF SC!Init, SC!NoEntry
    <3>3. bars \in Seq(ScanCandles) /\ Len(bars) = 0
      BY <3>2
    <3> QED BY <3>1, <3>2, <3>3 DEF ScanTyped, SC!TypeOK
  <2> QED BY <2>1 DEF Init
<1> QED BY <1>1, ScanTypedStep, PTL DEF Spec

-----------------------------------------------------------------------------
\* The theorems: what a run of all the replays keeps, for any candles, bars and orders

\* The three programs of ICT-MultiTF find the same market-structure shift and every level
\* they offer is the gap or the order block of the expert advisor.  Bar after bar, the position
\* that the live engine holds is the one the fill simulator holds where the simulated targets
\* are the order's: in structural mode, and in r_multiple for a fill at the order's price.  For
\* another fill r_multiple lets them part, and the theorem says which of them is ahead: the
\* engine where the fill is worse than the order's price, the simulation where it is better.
THEOREM EnginesAlwaysAgree == Spec => []EnginesAgree
<1>1. ScanInv /\ FillInv => EnginesAgree
  BY ScanSameShift, ScanSameLevels, FillMirrors DEF EnginesAgree
<1> QED BY <1>1, ScanAlways, FillAlways, PTL

\* A trade with partial exits locks in what its levels are worth and pays the costs of every
\* part once (phase2_engine), and a simulated trade that was filled ahead of its stop loses its
\* risk and the slippage of one exit at most, in either target mode (fills.py).
THEOREM PartsAlwaysKeepTheirWorth == Spec => []PartsKeepTheirWorth
<1>1. PartInv /\ FillInv => PartsKeepTheirWorth
  BY DEF PartInv, FillInv, PartsKeepTheirWorth
<1> QED BY <1>1, PartAlways, FillAlways, PTL

\* No step loosens the stop of a trade with partial exits (phase2_engine), and an exit that
\* is due and is no signal goes through once the pair's retries are used (NASOS).
THEOREM StepsTightenForAllBars == Spec => StepsOnlyTighten
BY PartTightens, NasosGrants DEF StepsOnlyTighten

\* A NASOS trade starts with all its retries, its custom stop locks a profit in or is the
\* strategy's loss, and no candle buys and sells; an Elliot trade leaves on the signal for
\* the other side, a trailed one wins, an old one takes its profit or leaves.
THEOREM SignalTradesAlwaysKeepTheirStops == Spec => []SignalTradesKeepTheirStops
<1>1. NasosInv /\ SignalInv => SignalTradesKeepTheirStops
  <2> SUFFICES ASSUME NasosInv, SignalInv PROVE SignalTradesKeepTheirStops
    OBVIOUS
  <2>1. CASE which = "nasos"
    <3>1. NA!RetriesStartAfresh /\ NA!ProfitIsLockedIn /\ NA!StopsAreLossOrProfit
      BY <2>1 DEF NasosInv, NA!RetriesStartAfresh
    <3> QED BY <2>1, <3>1, NasosBuyExcludesSell DEF SignalTradesKeepTheirStops
  <2>2. CASE which = "signals"
    BY <2>2, SignalMirror DEF SignalInv, SignalTradesKeepTheirStops
  <2> QED BY <2>1, <2>2 DEF SignalTradesKeepTheirStops
<1> QED BY <1>1, NasosAlways, SignalAlways, PTL

\* A trade of NFI5MOHO_WIP that came back from its peak is given up and every loss it takes
\* is one of the losses meant; a trade of ArcaneLiM2 is sold at its stop (a momentum trade
\* after two hours), trails a profit, and is kept beyond its return for a trend only, in a
\* falling market until it is five percent up.
THEOREM GuardedExitsAlwaysHold == Spec => []GuardedExitsHold
<1>1. Nfi5Inv /\ ArcaneInv => GuardedExitsHold
  BY DEF Nfi5Inv, ArcaneInv, GuardedExitsHold
<1> QED BY <1>1, Nfi5Always, ArcaneAlways, PTL

\* Whatever the candles hold: wider protections let every candle through that narrower ones
\* do, the port protects and gives up as its original does, a rising market shows in the
\* price, and two rules of ArcaneLiM2 never act (NFI5MOHO_WIP, ArcaneLiM2).
THEOREM GuardedEntriesAlwaysHold == Spec => []GuardedEntriesHold
<1>1. Nfi5Typed /\ ArcaneTyped /\ ArcaneDead => GuardedEntriesHold
  <2> SUFFICES ASSUME Nfi5Typed, ArcaneTyped, ArcaneDead PROVE GuardedEntriesHold
    OBVIOUS
  <2>1. ASSUME which = "nfi5" PROVE N5!ProtectionsAreNested
    <3>1. candle \in Nfi5Candles
      BY <2>1 DEF Nfi5Typed, N5!TypeOK, N5!F!TypeOK
    <3> QED BY <3>1, Nfi5Nested
  <2>2. ASSUME which = "arcane" PROVE AR!BullIsSeenInThePrice
    <3>1. candle \in ArcaneCandles
      BY <2>2 DEF ArcaneTyped, AR!TypeOK, AR!F!TypeOK
    <3> QED BY <3>1, ArcaneBull
  <2> QED BY <2>1, <2>2, ArcanePorted DEF ArcaneDead, GuardedEntriesHold
<1> QED BY <1>1, Nfi5TypedAlways, ArcaneTypedAlways, ArcaneDeadAlways, PTL

\* Everything stays in its ranges, in each of the backtests: the bars and the order of a
\* search, the parts that are left of a trade, what the replay's engine holds, an order that
\* trails, the trades and exits of four bots, and the frames of a universe, which are never
\* longer than the files they were read from.
THEOREM TypesAlwaysHold == Spec => []TypeOK
<1>1. ScanTyped => SC!TypeOK
  BY DEF ScanTyped
<1>2. PartInv => PT!TypeOK
  BY DEF PartInv
<1>3. FillInv => FS!TypeOK
  BY DEF FillInv
<1>4. TrailingInv => (which = "trailing" => TB!TypeOK)
  BY DEF TrailingInv
<1>5. Nfi5Typed /\ ArcaneTyped /\ NasosTyped /\ SignalTyped =>
        /\ which = "nfi5" => N5!TypeOK
        /\ which = "arcane" => AR!TypeOK
        /\ which = "nasos" => NA!TypeOK
        /\ which = "signals" => SG!TypeOK
  BY DEF Nfi5Typed, ArcaneTyped, NasosTyped, SignalTyped
<1>6. ScanTyped /\ PartInv /\ FillInv /\ UniverseInv /\ TrailingInv
      /\ Nfi5Typed /\ ArcaneTyped /\ NasosTyped /\ SignalTyped => TypeOK
  BY <1>1, <1>2, <1>3, <1>4, <1>5, UniverseTyped DEF TypeOK
<1> QED BY <1>6, ScanTypedAlways, PartAlways, FillAlways, UniverseAlways, TrailAlways,
           Nfi5TypedAlways, ArcaneTypedAlways, NasosTypedAlways, SignalTypedAlways, PTL

\* A universe run that loads the same symbols as the run before trades the same, a day's
\* symbols are settled by the bars up to that day, and the drawdown it reports is the
\* deepest fall of its curve, for any universe, market and history (run_universe_backtest).
THEOREM UniverseRunsAlwaysRepeat == Spec => []UniverseRunsRepeat
<1>1. UniverseInv => UniverseRunsRepeat
  BY UniverseRepeats, UniverseCausal, UniverseDeepest DEF UniverseRunsRepeat
<1> QED BY <1>1, UniverseAlways, PTL
=============================================================================
