-------------------------- MODULE TradingDeskProofs --------------------------
(***************************************************************************)
(* Theorems about TradingDesk for any number of processes, equities and    *)
(* plans.  The high-water file keeps the highest equity it was ever        *)
(* written for, as long as no two updates meet and none is cut short.  And *)
(* as long as nothing is sold short, the open positions stay within the    *)
(* exposure cap for every process that may run at once.                    *)
(***************************************************************************)
EXTENDS TradingDesk, FiniteSetTheorems, TLAPS

----------------------------------------------------------------------------
\* Sums over finite sets.  An induction is stated about a set, not about a
\* predicate: the sets, or numbers, for which something holds are all of them.

\* Finitely many subsets have a smallest one.
LEMMA SmallestSubset ==
  ASSUME NEW S, IsFiniteSet(S), NEW F \in SUBSET SUBSET S, F # {}
  PROVE  \E A \in F : \A B \in F : B \subseteq A => B = A
<1>1. IsWellFoundedOn(StrictSubsetOrdering(S), FiniteSubsetsOf(S))
  BY FS_StrictSubsetOrderingWellFounded
<1>2. F \subseteq FiniteSubsetsOf(S)
  BY FS_Subset DEF FiniteSubsetsOf
<1>3. \E A \in F : \A B \in F : ~(<<B, A>> \in StrictSubsetOrdering(S))
  BY <1>1, <1>2, WFMin
<1> QED BY <1>3 DEF StrictSubsetOrdering

\* A family of subsets of S that holds the empty set, and with a set the same set and
\* one element more, holds S.
LEMMA GrowingSubsets ==
  ASSUME NEW S, IsFiniteSet(S), NEW F \in SUBSET SUBSET S, {} \in F,
         \A A \in F : \A x \in S \ A : A \cup {x} \in F
  PROVE  S \in F
<1> DEFINE G == {S \ A : A \in F}
<1>1. G \in SUBSET SUBSET S
  OBVIOUS
<1>2. S \ {} \in G
  OBVIOUS
<1>3. PICK B \in G : \A C \in G : C \subseteq B => C = B
  <2> HIDE DEF G
  <2> QED BY <1>1, <1>2, SmallestSubset
<1>4. PICK A \in F : B = S \ A
  BY <1>3
<1>5. A = S
  <2>1. SUFFICES ASSUME NEW x \in S \ A PROVE FALSE
    OBVIOUS
  <2>2. S \ (A \cup {x}) \in G
    OBVIOUS
  <2>3. S \ (A \cup {x}) \subseteq B
    BY <1>4
  <2> QED BY <1>3, <1>4, <2>2, <2>3
<1> QED BY <1>4, <1>5

\* Induction on the natural numbers.
LEMMA CountingUp ==
  ASSUME NEW T \in SUBSET Nat, 0 \in T, \A n \in T : n + 1 \in T
  PROVE  T = Nat
<1>1. SUFFICES ASSUME NEW m \in Nat \ T PROVE FALSE
  OBVIOUS
<1> DEFINE S == 0..m
           F == {0..k : k \in S \ T}
<1>2. F \in SUBSET SUBSET S
  OBVIOUS
<1>3. S \in F
  BY <1>1
<1>4. PICK A \in F : \A B \in F : B \subseteq A => B = A
  <2>1. IsFiniteSet(S)
    BY <1>1, FS_Interval
  <2>2. F # {}
    BY <1>3
  <2> HIDE DEF F, S
  <2> QED BY <1>2, <2>1, <2>2, SmallestSubset
<1>5. PICK k \in (0..m) \ T : A = 0..k
  BY <1>4
<1>6. k - 1 \in (0..m) \ T
  BY <1>1, <1>5
<1>7. 0..(k - 1) \in F
  BY <1>6
<1>8. 0..(k-1) \subseteq A /\ k \in A /\ k \notin 0..(k-1)
  BY <1>1, <1>5
<1> QED BY <1>4, <1>7, <1>8

\* The element the fold of the library takes first, and its recursive function.
SomeOf(s) == CHOOSE x \in s : TRUE
Iterates(iter, f, S) ==
  iter = [s \in SUBSET S |-> IF s = {} THEN 0 ELSE f[SomeOf(s)] + iter[s \ {SomeOf(s)}]]

\* A sum is what its recursive function gives, if there is one.
LEMMA SumUnfold ==
  ASSUME NEW f, NEW S
  PROVE SumFunctionOnSet(f, S) = (CHOOSE iter : Iterates(iter, f, S))[S]
BY Zenon DEF SumFunctionOnSet, FoldFunctionOnSet, MapThenFoldSet, Iterates, SomeOf

\* One round of the iteration, and a function that is right up to a size.
Round(g, f, S) ==
  [s \in SUBSET S |-> IF s = {} THEN 0 ELSE f[SomeOf(s)] + g[s \ {SomeOf(s)}]]
RightUpTo(g, f, S, n) ==
  \A s \in SUBSET S : Cardinality(s) <= n => g[s] = Round(g, f, S)[s]

\* There is one.
LEMMA IterationExists ==
  ASSUME NEW S, IsFiniteSet(S), NEW f \in [S -> Int]
  PROVE  \E iter \in [SUBSET S -> Int] : Iterates(iter, f, S)
<1> DEFINE T == {n \in Nat : \E g \in [SUBSET S -> Int] : RightUpTo(g, f, S, n)}
<1>1. \A s \in SUBSET S : s # {} => /\ SomeOf(s) \in s
                                    /\ Cardinality(s \ {SomeOf(s)}) = Cardinality(s) - 1
                                    /\ Cardinality(s) \in Nat
  BY FS_Subset, FS_RemoveElement, FS_CardinalityType DEF SomeOf
<1>2. ASSUME NEW g \in [SUBSET S -> Int] PROVE Round(g, f, S) \in [SUBSET S -> Int]
  <2>1. ASSUME NEW s \in SUBSET S, s # {} PROVE f[SomeOf(s)] + g[s \ {SomeOf(s)}] \in Int
    <3>1. SomeOf(s) \in S /\ s \ {SomeOf(s)} \in SUBSET S
      BY <1>1, <2>1
    <3> QED BY <3>1
  <2> QED BY <2>1 DEF Round
<1>3. 0 \in T
  <2> DEFINE g == [s \in SUBSET S |-> 0]
  <2>1. \A s \in SUBSET S : Cardinality(s) <= 0 => s = {}
    BY <1>1, FS_Subset, FS_EmptySet, FS_CardinalityType
  <2>2. RightUpTo(g, f, S, 0) /\ g \in [SUBSET S -> Int]
    BY <2>1 DEF RightUpTo, Round
  <2> QED BY <2>2
<1>4. ASSUME NEW n \in T PROVE n + 1 \in T
  <2>1. n \in Nat
    OBVIOUS
  <2>2. PICK g \in [SUBSET S -> Int] : RightUpTo(g, f, S, n)
    OBVIOUS
  <2> DEFINE h == Round(g, f, S)
  <2>3. h \in [SUBSET S -> Int]
    BY <1>2
  <2> HIDE DEF T
  <2>4. ASSUME NEW s \in SUBSET S, Cardinality(s) <= n + 1, s # {}
        PROVE  h[s] = Round(h, f, S)[s]
    <3> DEFINE r == s \ {SomeOf(s)}
    <3>1. r \in SUBSET S /\ Cardinality(r) <= n
      BY <1>1, <2>1, <2>4
    <3>2. g[r] = h[r]
      BY <2>2, <3>1 DEF RightUpTo
    <3> HIDE DEF h
    <3>3. Round(h, f, S)[s] = f[SomeOf(s)] + h[r]
      BY <2>4 DEF Round
    <3>4. h[s] = f[SomeOf(s)] + g[r]
      BY <2>4 DEF Round, h
    <3> QED BY <3>2, <3>3, <3>4
  <2>5. h[{}] = Round(h, f, S)[{}]
    BY DEF Round
  <2>6. RightUpTo(h, f, S, n + 1)
    BY <2>4, <2>5 DEF RightUpTo
  <2> QED BY <2>1, <2>3, <2>6 DEF T
<1>5. T = Nat
  <2>1. T \in SUBSET Nat
    OBVIOUS
  <2> HIDE DEF T
  <2> QED BY <1>3, <1>4, <2>1, CountingUp
<1>6. Cardinality(S) \in Nat
  BY FS_CardinalityType
<1>7. PICK g \in [SUBSET S -> Int] : RightUpTo(g, f, S, Cardinality(S))
  BY <1>5, <1>6
<1>8. \A s \in SUBSET S : g[s] = Round(g, f, S)[s]
  BY <1>7, FS_Subset DEF RightUpTo
<1>9. g = Round(g, f, S)
  BY <1>2, <1>8 DEF Round
<1> QED BY <1>9 DEF Iterates, Round

\* Partial sums of f over the subsets of S: one value for each, and one step for each
\* element added to it, whichever the library's CHOOSE takes first.
PartialSums(iter, f, S) ==
  /\ iter \in [SUBSET S -> Int]
  /\ iter[{}] = 0
  /\ \A s \in SUBSET S : \A x \in S \ s : iter[s \cup {x}] = f[x] + iter[s]
  /\ SumFunctionOnSet(f, S) = iter[S]

\* The order of summation makes no difference: every sum has partial sums.
LEMMA SumSteps ==
  ASSUME NEW S, IsFiniteSet(S), NEW f \in [S -> Int]
  PROVE  \E iter : PartialSums(iter, f, S)
<1>1. PICK iter : SumFunctionOnSet(f, S) = iter[S] /\ Iterates(iter, f, S)
  BY IterationExists, SumUnfold
<1> DEFINE Step(s) == iter[s] \in Int /\ \A x \in s : iter[s] = f[x] + iter[s \ {x}]
           T == {n \in Nat : \A s \in SUBSET S : Cardinality(s) <= n => Step(s)}
<1>2. \A s \in SUBSET S : /\ Cardinality(s) \in Nat /\ (Cardinality(s) = 0 => s = {})
                          /\ \A x \in s : Cardinality(s \ {x}) = Cardinality(s) - 1
                          /\ s # {} => SomeOf(s) \in s
  BY FS_Subset, FS_RemoveElement, FS_CardinalityType, FS_EmptySet DEF SomeOf
<1>3. iter[{}] = 0
  BY <1>1 DEF Iterates
<1>4. \A s \in SUBSET S : s # {} => iter[s] = f[SomeOf(s)] + iter[s \ {SomeOf(s)}]
  BY <1>1 DEF Iterates
<1>5. 0 \in T
  BY <1>2, <1>3
<1>6. ASSUME NEW n \in T PROVE n + 1 \in T
  <2>1. n \in Nat /\ \A s \in SUBSET S : Cardinality(s) <= n => Step(s)
    OBVIOUS
  <2> HIDE DEF T
  <2>2. ASSUME NEW s \in SUBSET S, Cardinality(s) <= n + 1, s # {} PROVE Step(s)
    <3>1. PICK y \in s : iter[s] = f[y] + iter[s \ {y}]
      BY <1>2, <1>4, <2>2
    <3>2. \A x \in s : s \ {x} \in SUBSET S /\ Cardinality(s \ {x}) <= n
      BY <1>2, <2>1, <2>2
    <3>3. \A x \in s : Step(s \ {x})
      BY <2>1, <3>2
    <3>4. \A x \in s : iter[s \ {x}] \in Int /\ f[x] \in Int
      BY <3>3
    <3>5. iter[s] \in Int
      BY <3>1, <3>4
    <3>6. ASSUME NEW x \in s, x # y PROVE iter[s] = f[x] + iter[s \ {x}]
      <4>1. x \in s \ {y} /\ y \in s \ {x} /\ (s \ {y}) \ {x} = (s \ {x}) \ {y}
        BY <3>6
      <4>2. iter[s \ {y}] = f[x] + iter[(s \ {y}) \ {x}]
        BY <3>3, <4>1
      <4>3. iter[s \ {x}] = f[y] + iter[(s \ {x}) \ {y}]
        BY <3>3, <4>1
      <4>4. iter[(s \ {y}) \ {x}] \in Int
        <5> DEFINE r == s \ {y}
        <5>1. r \in SUBSET S /\ Cardinality(r) <= n /\ x \in r
          BY <3>2, <4>1
        <5>2. r \ {x} \in SUBSET S /\ Cardinality(r \ {x}) <= n
          BY <1>2, <2>1, <5>1
        <5> QED BY <2>1, <5>2
      <4> DEFINE a == iter[s \ {y}]
                 b == iter[s \ {x}]
                 c == iter[(s \ {y}) \ {x}]
      <4>5. /\ iter[s] = f[y] + a /\ a = f[x] + c /\ b = f[y] + c
            /\ c \in Int /\ f[x] \in Int /\ f[y] \in Int
        BY <3>1, <3>4, <4>1, <4>2, <4>3, <4>4
      <4> HIDE DEF a, b, c
      <4>6. iter[s] = f[x] + b
        BY <4>5
      <4> QED BY <4>6 DEF b
    <3> QED BY <3>1, <3>5, <3>6
  <2>3. Step({})
    BY <1>3
  <2> HIDE DEF Step
  <2>4. \A s \in SUBSET S : Cardinality(s) <= n + 1 => Step(s)
    BY <2>2, <2>3
  <2> QED BY <2>1, <2>4 DEF T
<1>7. T = Nat
  <2>1. T \in SUBSET Nat
    OBVIOUS
  <2> HIDE DEF T
  <2> QED BY <1>5, <1>6, <2>1, CountingUp
<1>8. \A s \in SUBSET S : Step(s)
  <2>1. ASSUME NEW s \in SUBSET S PROVE Step(s)
    <3>1. Cardinality(s) \in T /\ Cardinality(s) <= Cardinality(s)
      BY <1>2, <1>7
    <3> HIDE DEF Step
    <3> QED BY <3>1
  <2> QED BY <2>1
<1>9. iter \in [SUBSET S -> Int]
  BY <1>1, <1>8 DEF Iterates
<1>10. ASSUME NEW s \in SUBSET S, NEW x \in S \ s PROVE iter[s \cup {x}] = f[x] + iter[s]
  <2>1. s \cup {x} \in SUBSET S /\ (s \cup {x}) \ {x} = s
    OBVIOUS
  <2> QED BY <1>8, <2>1
<1> QED BY <1>1, <1>3, <1>9, <1>10 DEF PartialSums

\* A sum of integers is one.
LEMMA SumIsInt ==
  ASSUME NEW S, IsFiniteSet(S), NEW f \in [S -> Int]
  PROVE  SumFunctionOnSet(f, S) \in Int
<1>1. PICK iter : PartialSums(iter, f, S)
  BY SumSteps
<1> QED BY <1>1 DEF PartialSums

\* Nothing adds up to nothing.
LEMMA SumOfZeros ==
  ASSUME NEW S, IsFiniteSet(S), NEW f \in [S -> Int], \A x \in S : f[x] = 0
  PROVE  SumFunctionOnSet(f, S) = 0
<1>1. PICK iter : PartialSums(iter, f, S)
  BY SumSteps
<1> DEFINE F == {s \in SUBSET S : iter[s] = 0}
<1>2. {} \in F /\ \A s \in F : \A x \in S \ s : s \cup {x} \in F
  BY <1>1 DEF PartialSums
<1>3. S \in F
  <2>1. F \in SUBSET SUBSET S
    OBVIOUS
  <2> HIDE DEF F
  <2> QED BY <1>2, <2>1, GrowingSubsets
<1> QED BY <1>1, <1>3 DEF PartialSums

\* A sum is not above the bound of its summands, once for each.
LEMMA SumBound ==
  ASSUME NEW S, IsFiniteSet(S), NEW f \in [S -> Int], NEW c \in Int, \A x \in S : f[x] <= c
  PROVE  SumFunctionOnSet(f, S) <= Cardinality(S) * c
<1>1. PICK iter : PartialSums(iter, f, S)
  BY SumSteps
<1> DEFINE F == {s \in SUBSET S : iter[s] <= Cardinality(s) * c}
<1>2. {} \in F
  <2>1. Cardinality({}) = 0 /\ iter[{}] = 0
    BY <1>1, FS_EmptySet DEF PartialSums
  <2> QED BY <2>1
<1>3. ASSUME NEW s \in F, NEW x \in S \ s PROVE s \cup {x} \in F
  <2>1. Cardinality(s \cup {x}) = Cardinality(s) + 1 /\ Cardinality(s) \in Nat
    BY FS_Subset, FS_AddElement, FS_CardinalityType
  <2>2. iter[s \cup {x}] = f[x] + iter[s] /\ iter[s] \in Int /\ f[x] \in Int /\ f[x] <= c
    BY <1>1 DEF PartialSums
  <2>3. (Cardinality(s) + 1) * c = Cardinality(s) * c + c
    BY <2>1
  <2>4. Cardinality(s) * c \in Int /\ iter[s] <= Cardinality(s) * c
    BY <2>1
  <2>5. f[x] + iter[s] <= Cardinality(s) * c + c
    BY <2>2, <2>4
  <2> QED BY <2>1, <2>2, <2>3, <2>5
<1>4. S \in F
  <2>1. F \in SUBSET SUBSET S
    OBVIOUS
  <2> HIDE DEF F
  <2> QED BY <1>2, <1>3, <2>1, GrowingSubsets
<1> QED BY <1>1, <1>4 DEF PartialSums

\* A sum moves by what its one changed summand moves.
LEMMA SumChange ==
  ASSUME NEW S, IsFiniteSet(S), NEW f \in [S -> Int], NEW g \in [S -> Int], NEW x \in S,
         \A y \in S \ {x} : g[y] = f[y]
  PROVE  SumFunctionOnSet(g, S) = SumFunctionOnSet(f, S) + g[x] - f[x]
<1>1. PICK i : PartialSums(i, f, S)
  BY SumSteps
<1>2. PICK j : PartialSums(j, g, S)
  BY SumSteps
<1> DEFINE F == {s \in SUBSET S : j[s] = IF x \in s THEN i[s] + g[x] - f[x] ELSE i[s]}
<1>3. {} \in F
  BY <1>1, <1>2 DEF PartialSums
<1>4. ASSUME NEW s \in F, NEW y \in S \ s PROVE s \cup {y} \in F
  <2>1. i[s \cup {y}] = f[y] + i[s] /\ i[s] \in Int /\ f[y] \in Int /\ f[x] \in Int
    BY <1>1 DEF PartialSums
  <2>2. j[s \cup {y}] = g[y] + j[s] /\ j[s] \in Int /\ g[y] \in Int /\ g[x] \in Int
    BY <1>2 DEF PartialSums
  <2>3. CASE y = x
    BY <2>1, <2>2, <2>3
  <2>4. CASE y # x
    BY <2>1, <2>2, <2>4
  <2> QED BY <2>3, <2>4
<1>5. S \in F
  <2>1. F \in SUBSET SUBSET S
    OBVIOUS
  <2> HIDE DEF F
  <2> QED BY <1>3, <1>4, <2>1, GrowingSubsets
<1> QED BY <1>1, <1>2, <1>5 DEF PartialSums

\* A finite set of integers has a greatest.
LEMMA GreatestExists ==
  ASSUME NEW S \in SUBSET Int, IsFiniteSet(S), S # {}
  PROVE  Max(S) \in S /\ \A x \in S : Max(S) >= x
<1> DEFINE F == {s \in SUBSET S : s = {} \/ \E x \in s : \A y \in s : x >= y}
<1>1. {} \in F
  OBVIOUS
<1>2. ASSUME NEW s \in F, NEW x \in S \ s PROVE s \cup {x} \in F
  <2>1. CASE s = {}
    BY <2>1
  <2>2. CASE s # {}
    <3>1. PICK z \in s : \A y \in s : z >= y
      BY <2>2
    <3>2. CASE x >= z
      <4>1. \A y \in s \cup {x} : x >= y
        BY <3>1, <3>2
      <4> QED BY <4>1
    <3>3. CASE ~(x >= z)
      <4>1. z \in s \cup {x} /\ \A y \in s \cup {x} : z >= y
        BY <3>1, <3>3
      <4> QED BY <4>1
    <3> QED BY <3>2, <3>3
  <2> QED BY <2>1, <2>2
<1>3. S \in F
  <2>1. F \in SUBSET SUBSET S
    OBVIOUS
  <2> HIDE DEF F
  <2> QED BY <1>1, <1>2, <2>1, GrowingSubsets
<1> QED BY <1>3 DEF Max
----------------------------------------------------------------------------
\* Types

Place == {"idle", "account", "positions", "read", "truncated", "written",
          "agents", "order", "done"}

\* A process between idle and done has read an equity.
Typed ==
  /\ TypeOK
  /\ \A r \in Runs : pc[r] \notin {"idle", "done"} => acct[r] \in Equities

\* A floor division leaves no more than the dividend.
LEMMA FloorBound ==
  ASSUME NEW x \in Int, NEW y \in Nat \ {0}
  PROVE  x \div y \in Int /\ y * (x \div y) <= x
OBVIOUS

\* A product grows with its factor.
LEMMA ProductGrows ==
  ASSUME NEW c \in Nat, NEW x \in Int, NEW y \in Int, x <= y
  PROVE  c * x \in Int /\ c * y \in Int /\ c * x <= c * y
OBVIOUS

\* What the gateway approves costs a natural number, within the room of the account.
LEMMA SizeFits ==
  ASSUME NEW r \in Runs, acct[r] \in Nat, exposure[r] \in Int,
         NEW p \in Plans, NEW m \in Markets, p.bias # "flat",
         Gateway!Approves(p, Account(r), m)
  PROVE  LET value == Gateway!Qty(p, Account(r), m) * Gateway!UnitPrice(p, m)
         IN  value \in Nat /\ 100 * value <= MaxExposurePct * acct[r] - 100 * exposure[r]
<1> DEFINE a == Account(r)
           q == Gateway!Qty(p, a, m)
           u == Gateway!UnitPrice(p, m)
           k == Gateway!RiskPerUnit(p, m)
           w == Gateway!RiskBudget(p, a)
           e == Gateway!ExposureBudget(a)
<1>1. /\ p.entry \in Nat \ {0} /\ p.stop \in Nat \ {0} /\ p.riskPct \in {1, 2}
      /\ p.alert \in BOOLEAN /\ p.bias \in {"long", "short", "flat"} /\ p.target \in Int
      /\ m.multiplier \in Nat \ {0}
  BY DeskAssumption DEF Gateway!Plan, Gateway!Market, Gateway!Price
<1>2. /\ MaxRiskPct \in Nat /\ MaxExposurePct \in Nat /\ AlertSizePct \in Nat
  BY DeskAssumption
<1>3. u \in Nat \ {0}
  BY <1>1 DEF Gateway!UnitPrice
<1>4. k \in Nat \ {0}
  <2>1. p.entry # p.stop
    BY <1>1 DEF Gateway!Approves, Gateway!Geometry
  <2>2. Gateway!Distance(p) \in Nat \ {0}
    BY <1>1, <2>1 DEF Gateway!Distance, Gateway!Abs
  <2> QED BY <1>1, <2>2 DEF Gateway!RiskPerUnit
<1>5. w \in Int
  <2>1. Gateway!Lesser(p.riskPct, MaxRiskPct) \in Nat
    BY <1>1, <1>2 DEF Gateway!Lesser
  <2>2. (IF p.alert THEN AlertSizePct ELSE 100) \in Nat
    BY <1>2
  <2>3. a.equity \in Nat
    BY DEF Account
  <2> QED BY <2>1, <2>2, <2>3 DEF Gateway!RiskBudget
<1>6. e = MaxExposurePct * acct[r] - 100 * exposure[r] /\ e \in Int
  BY <1>2 DEF Gateway!ExposureBudget, Account
<1>7. a.buyingPower \in Int
  BY DEF Account
<1> DEFINE x == e \div (100 * u)
<1>8. q \in Nat /\ q <= x /\ x \in Int
  <2>1. /\ 10000 * k \in Nat \ {0} /\ 100 * u \in Nat \ {0}
    BY <1>3, <1>4
  <2>2. /\ Gateway!QtyByRisk(p, a, m) \in Int
        /\ Gateway!QtyByPower(p, a, m) \in Int
        /\ x \in Int /\ Gateway!QtyByExposure(p, a, m) = x
    BY <1>3, <1>5, <1>6, <1>7, <2>1, FloorBound
       DEF Gateway!QtyByRisk, Gateway!QtyByPower, Gateway!QtyByExposure
  <2>3. x > 0
    BY <2>2 DEF Gateway!Approves
  <2> QED BY <2>2, <2>3 DEF Gateway!Qty, Gateway!Greater, Gateway!Lesser
<1> HIDE DEF a, q, u, k, w, e, x
<1>9. (100 * u) * x <= e
  <2>1. 100 * u \in Nat \ {0}
    BY <1>3
  <2> QED BY <1>6, <2>1, FloorBound DEF x
<1>10. (100 * u) * q <= (100 * u) * x
  BY <1>3, <1>8, ProductGrows
<1>11. (100 * u) * q = 100 * (q * u) /\ q * u \in Nat
  BY <1>3, <1>8
<1>12. (100 * u) * x \in Int
  BY <1>3, <1>8
<1>13. q * u \in Nat /\ 100 * (q * u) <= e
  BY <1>6, <1>9, <1>10, <1>11, <1>12
<1> QED BY <1>6, <1>13 DEF q, u, a

LEMMA TypedInit == Init => Typed
<1> SUFFICES ASSUME Init PROVE Typed
  OBVIOUS
<1>1. /\ equity \in Equities /\ file \in Nat \cup {Missing, Garbled}
      /\ highest \in Nat /\ disturbed \in BOOLEAN
  BY DEF Init
<1>2. /\ positions \in [Symbols -> Int] /\ exposure \in [Runs -> Int]
      /\ acct \in [Runs -> Nat] /\ hwm \in [Runs -> Nat]
  BY DEF Init
<1>3. order \in [Runs -> [bias : {"long", "short", "flat"}, value : Nat]]
  BY DEF Init, NoOrder
<1>4. pc \in [Runs -> Place] /\ \A r \in Runs : pc[r] = "idle"
  BY DEF Init, Place
<1> QED BY <1>1, <1>2, <1>3, <1>4 DEF Typed, TypeOK, Place

LEMMA TypedStep == Typed /\ [Next]_vars => Typed'
<1> SUFFICES ASSUME Typed, [Next]_vars PROVE Typed'
  OBVIOUS
<1>1. TypeOK /\ Equities \subseteq Nat \ {0}
  BY DeskAssumption DEF Typed
<1>2. \A r \in Runs : pc[r] \notin {"idle", "done"} => acct[r] \in Equities
  BY DEF Typed
<1>3. ASSUME NEW r \in Runs, ReadEquity(r) PROVE Typed'
  BY <1>1, <1>2, <1>3 DEF Typed, TypeOK, ReadEquity, Goes, broker
<1>4. ASSUME NEW r \in Runs, ReadPositions(r) PROVE Typed'
  <2>1. OpenValue \in Int
    BY <1>1, DeskAssumption, SumIsInt DEF TypeOK, OpenValue
  <2> QED BY <1>1, <1>2, <1>4, <2>1 DEF Typed, TypeOK, ReadPositions, Goes, broker
<1>5. ASSUME NEW r \in Runs, ReadHighWater(r) PROVE Typed'
  <2>1. Peak(r) \in Nat
    BY <1>1 DEF TypeOK, Peak, Gateway!Greater
  <2> QED BY <1>1, <1>2, <1>5, <2>1 DEF Typed, TypeOK, ReadHighWater, Goes, broker
<1>6. ASSUME NEW r \in Runs, TruncateHighWater(r) PROVE Typed'
  BY <1>1, <1>2, <1>6 DEF Typed, TypeOK, TruncateHighWater, Goes, broker, locals
<1>7. ASSUME NEW r \in Runs, WriteHighWater(r) PROVE Typed'
  <2>1. Gateway!Greater(highest, acct[r]) \in Nat
    BY <1>1 DEF TypeOK, Gateway!Greater
  <2> QED BY <1>1, <1>2, <1>7, <2>1 DEF Typed, TypeOK, WriteHighWater, Goes, broker, locals
<1>8. ASSUME NEW r \in Runs, Approve(r) PROVE Typed'
  <2>1. PICK p \in Plans, m \in Markets :
          /\ Approved(r, p, m)
          /\ order' = [order EXCEPT ![r] =
               [bias |-> p.bias,
                value |-> Gateway!Qty(p, Account(r), m) * Gateway!UnitPrice(p, m)]]
    BY <1>8 DEF Approve
  <2>2. Gateway!Qty(p, Account(r), m) * Gateway!UnitPrice(p, m) \in Nat
    BY <1>1, <2>1, SizeFits DEF TypeOK, Approved
  <2>3. p.bias \in {"long", "short", "flat"}
    BY DeskAssumption DEF Gateway!Plan
  <2>4. order' \in [Runs -> [bias : {"long", "short", "flat"}, value : Nat]]
    BY <1>1, <2>1, <2>2, <2>3 DEF TypeOK
  <2> QED BY <1>1, <1>2, <1>8, <2>4 DEF Typed, TypeOK, Approve, Goes, broker
<1>9. ASSUME NEW r \in Runs, Submit(r) PROVE Typed'
  <2>1. positions' \in [Symbols -> Int]
    BY <1>1, <1>9 DEF TypeOK, Submit
  <2> QED BY <1>1, <1>2, <1>9, <2>1 DEF Typed, TypeOK, Submit, Goes, locals
<1>10. ASSUME NEW r \in Runs, Start(r) PROVE Typed'
  BY <1>1, <1>2, <1>10 DEF Typed, TypeOK, Start, Goes, broker, NoOrder
<1>11. ASSUME NEW r \in Runs, Snapshot(r) \/ NoTrade(r) \/ NotSubmitted(r) \/ Die(r)
       PROVE  Typed'
  <2>1. /\ UNCHANGED <<broker, file, locals, highest>> /\ disturbed' \in BOOLEAN
    BY <1>1, <1>11 DEF TypeOK, Snapshot, NoTrade, NotSubmitted, Die
  <2>2. /\ pc[r] \notin {"idle", "done"}
        /\ pc' = [pc EXCEPT ![r] = "agents"] \/ pc' = [pc EXCEPT ![r] = "done"]
    BY <1>11 DEF Snapshot, NoTrade, NotSubmitted, Die, Goes
  <2> QED BY <1>1, <1>2, <2>1, <2>2 DEF Typed, TypeOK, broker, locals
<1>12. CASE EquityMoves
  BY <1>1, <1>2, <1>12 DEF Typed, TypeOK, EquityMoves, locals
<1>13. ASSUME NEW s \in Symbols, Close(s) PROVE Typed'
  <2>1. positions' \in [Symbols -> Int]
    BY <1>1, <1>13 DEF TypeOK, Close
  <2> QED BY <1>1, <1>2, <1>13, <2>1 DEF Typed, TypeOK, Close, locals
<1>14. CASE UNCHANGED vars
  BY <1>1, <1>2, <1>14 DEF Typed, TypeOK, vars, broker, locals
<1> QED
  BY <1>3, <1>4, <1>5, <1>6, <1>7, <1>8, <1>9, <1>10, <1>11, <1>12, <1>13, <1>14
     DEF Next, RunSymbol

\* Money stays a whole number and every process at a place of run_symbol.
THEOREM TypeCorrect == Spec => []TypeOK
<1>1. Typed => TypeOK
  BY DEF Typed
<1> QED BY TypedInit, TypedStep, <1>1, PTL DEF Spec

----------------------------------------------------------------------------
\* The high-water file

Kept == IF highest = 0 THEN Missing ELSE highest

\* While nothing is disturbed there is one update at most, and it carries the larger
\* of its own equity and the highest one written before.
OneUpdate ==
  ~disturbed =>
    \A r \in Updating :
      /\ \A q \in Updating : q = r
      /\ hwm[r] = Gateway!Greater(acct[r], highest)
      /\ pc[r] = "read" => file = Kept

Inv == Typed /\ OneUpdate /\ PeakIsKept

\* What the proofs below use of the types: what was read is positive.
LEMMA ReadType ==
  ASSUME Typed
  PROVE  /\ pc \in [Runs -> Place] /\ file \in Nat \cup {Missing, Garbled}
         /\ acct \in [Runs -> Nat] /\ hwm \in [Runs -> Nat]
         /\ highest \in Nat /\ disturbed \in BOOLEAN
         /\ \A r \in Runs : pc[r] \notin {"idle", "done"} => acct[r] > 0
BY DeskAssumption DEF Typed, TypeOK, Place

LEMMA InvInit == Init => Inv
<1> SUFFICES ASSUME Init PROVE Inv
  OBVIOUS
<1>1. Updating = {}
  BY DEF Init, Updating
<1>2. OneUpdate
  BY <1>1 DEF OneUpdate
<1>3. PeakIsKept
  BY DEF Init, PeakIsKept
<1> QED BY TypedInit, <1>2, <1>3 DEF Inv

\* Steps that leave the file and all updates alone.
LEMMA Bystander ==
  ASSUME Inv, UNCHANGED <<file, highest, disturbed>>, Updating' = Updating,
         \A q \in Updating : /\ acct'[q] = acct[q] /\ hwm'[q] = hwm[q]
                             /\ pc'[q] = pc[q]
  PROVE  OneUpdate' /\ PeakIsKept'
<1>1. OneUpdate'
  BY DEF Inv, OneUpdate, Kept, Gateway!Greater
<1>2. PeakIsKept'
  BY DEF Inv, PeakIsKept
<1> QED BY <1>1, <1>2

\* A step of one process that is neither in an update nor enters one.
LEMMA Elsewhere ==
  ASSUME Inv, NEW r \in Runs, NEW from \in Place \ {"read", "truncated"},
         NEW to \in Place \ {"read", "truncated"},
         pc[r] = from, pc' = [pc EXCEPT ![r] = to],
         \A q \in Runs \ {r} : acct'[q] = acct[q] /\ hwm'[q] = hwm[q],
         UNCHANGED <<file, highest, disturbed>>
  PROVE  OneUpdate' /\ PeakIsKept'
<1>1. pc \in [Runs -> Place]
  BY ReadType DEF Inv
<1>2. \A q \in Runs : pc'[q] = IF q = r THEN to ELSE pc[q]
  BY <1>1
<1>3. r \notin Updating
  BY DEF Updating
<1>4. Updating' = Updating
  BY <1>2 DEF Updating
<1>5. \A q \in Updating : /\ acct'[q] = acct[q] /\ hwm'[q] = hwm[q]
                          /\ pc'[q] = pc[q]
  BY <1>2, <1>3 DEF Updating
<1> QED BY <1>4, <1>5, Bystander

LEMMA MarkStep == Inv /\ [Next]_vars => OneUpdate' /\ PeakIsKept'
<1> SUFFICES ASSUME Inv, [Next]_vars PROVE OneUpdate' /\ PeakIsKept'
  OBVIOUS
<1>1. /\ pc \in [Runs -> Place] /\ file \in Nat \cup {Missing, Garbled}
      /\ acct \in [Runs -> Nat] /\ hwm \in [Runs -> Nat] /\ highest \in Nat
      /\ \A r \in Runs : pc[r] \notin {"idle", "done"} => acct[r] > 0
  BY ReadType DEF Inv
<1>2. OneUpdate /\ PeakIsKept
  BY DEF Inv
<1>3. ASSUME NEW r \in Runs, ReadHighWater(r) PROVE OneUpdate' /\ PeakIsKept'
  <2>1. /\ pc[r] = "positions" /\ pc' = [pc EXCEPT ![r] = "read"]
        /\ hwm' = [hwm EXCEPT ![r] = Peak(r)]
        /\ UNCHANGED <<file, acct, highest>>
    BY <1>3 DEF ReadHighWater, Goes
  <2>2. disturbed' = (disturbed \/ Updating # {})
    BY <1>3 DEF ReadHighWater
  <2>3. Updating' = Updating \cup {r}
    BY <1>1, <2>1 DEF Updating
  <2>4. PeakIsKept'
    BY <2>3 DEF PeakIsKept
  <2>5. ASSUME ~disturbed' PROVE /\ Updating' = {r} /\ file = Kept
                                 /\ hwm'[r] = Gateway!Greater(acct[r], highest)
    <3>1. Updating = {} /\ file = Kept
      BY <1>2, <2>2, <2>5 DEF PeakIsKept, Kept
    <3>2. Peak(r) = Gateway!Greater(acct[r], highest)
      BY <1>1, <2>1, <3>1 DEF Kept, Peak, Gateway!Greater, Missing, Garbled
    <3> QED BY <1>1, <2>1, <2>3, <3>1, <3>2
  <2>6. OneUpdate'
    BY <2>1, <2>5 DEF OneUpdate, Kept, Gateway!Greater
  <2> QED BY <2>4, <2>6
<1>4. ASSUME NEW r \in Runs, TruncateHighWater(r) PROVE OneUpdate' /\ PeakIsKept'
  <2>1. /\ pc[r] = "read" /\ pc' = [pc EXCEPT ![r] = "truncated"]
        /\ UNCHANGED <<hwm, acct, highest, disturbed>>
    BY <1>4 DEF TruncateHighWater, Goes, locals
  <2>2. Updating' = Updating /\ r \in Updating
    BY <1>1, <2>1 DEF Updating
  <2>3. PeakIsKept'
    BY <2>2 DEF PeakIsKept
  <2>4. pc'[r] = "truncated"
    BY <1>1, <2>1
  <2>5. OneUpdate'
    BY <1>2, <2>1, <2>2, <2>4 DEF OneUpdate, Gateway!Greater
  <2> QED BY <2>3, <2>5
<1>5. ASSUME NEW r \in Runs, WriteHighWater(r) PROVE OneUpdate' /\ PeakIsKept'
  <2>1. /\ pc[r] = "truncated" /\ pc' = [pc EXCEPT ![r] = "written"]
        /\ file' = hwm[r] /\ highest' = Gateway!Greater(highest, acct[r])
        /\ UNCHANGED disturbed
    BY <1>5 DEF WriteHighWater, Goes
  <2>2. Updating' = Updating \ {r} /\ r \in Updating
    BY <1>1, <2>1 DEF Updating
  <2>3. ASSUME ~disturbed' PROVE Updating' = {} /\ file' = Gateway!Greater(acct[r], highest)
    BY <1>2, <2>1, <2>2, <2>3 DEF OneUpdate
  <2>4. OneUpdate'
    BY <2>3 DEF OneUpdate
  <2>5. acct[r] > 0
    BY <1>1, <2>1
  <2>6. PeakIsKept'
    BY <1>1, <2>1, <2>3, <2>5 DEF PeakIsKept, Gateway!Greater
  <2> QED BY <2>4, <2>6
<1>6. ASSUME NEW r \in Runs, Die(r), pc[r] \in {"read", "truncated"}
      PROVE  OneUpdate' /\ PeakIsKept'
  <2>1. pc' = [pc EXCEPT ![r] = "done"] /\ UNCHANGED <<file, highest>>
    BY <1>6 DEF Die
  <2>2. disturbed' = (disturbed \/ pc[r] = "truncated")
    BY <1>6 DEF Die
  <2>3. Updating' = Updating \ {r} /\ r \in Updating
    BY <1>1, <1>6, <2>1 DEF Updating
  <2>4. ASSUME ~disturbed' PROVE Updating' = {} /\ file = Kept
    BY <1>2, <1>6, <2>2, <2>3, <2>4 DEF OneUpdate
  <2> QED BY <2>1, <2>4 DEF OneUpdate, PeakIsKept, Kept
<1>7. ASSUME NEW r \in Runs,
             \/ ReadEquity(r) \/ ReadPositions(r) \/ Snapshot(r) \/ Approve(r) \/ NoTrade(r)
             \/ Submit(r) \/ NotSubmitted(r) \/ Start(r)
             \/ Die(r) /\ pc[r] \notin {"read", "truncated"}
      PROVE  OneUpdate' /\ PeakIsKept'
  <2>1. UNCHANGED <<file, highest>>
    BY <1>7 DEF ReadEquity, ReadPositions, Snapshot, Approve, NoTrade, Submit,
            NotSubmitted, Start, Die, locals
  <2>2. disturbed' = disturbed
    BY <1>7, ReadType DEF Inv, ReadEquity, ReadPositions, Snapshot, Approve, NoTrade,
            Submit, NotSubmitted, Start, Die
  <2>3. \A q \in Runs \ {r} : acct'[q] = acct[q] /\ hwm'[q] = hwm[q]
    BY <1>1, <1>7 DEF ReadEquity, ReadPositions, Snapshot, Approve, NoTrade, Submit,
            NotSubmitted, Start, Die, locals
  <2>4. PICK from \in Place \ {"read", "truncated"}, to \in Place \ {"read", "truncated"} :
          pc[r] = from /\ pc' = [pc EXCEPT ![r] = to]
    <3>1. CASE Die(r) /\ pc[r] \notin {"read", "truncated"}
      <4>1. pc[r] \in Place \ {"read", "truncated"} /\ "done" \in Place \ {"read", "truncated"}
        BY <1>1, <3>1 DEF Place
      <4> QED BY <3>1, <4>1 DEF Die
    <3>2. CASE ReadEquity(r) \/ ReadPositions(r)
      BY <3>2 DEF ReadEquity, ReadPositions, Goes, Place
    <3>3. CASE Snapshot(r)
      BY <3>3 DEF Snapshot, Goes, Place
    <3>4. CASE Approve(r) \/ NoTrade(r) \/ Submit(r) \/ NotSubmitted(r) \/ Start(r)
      BY <3>4 DEF Approve, NoTrade, Submit, NotSubmitted, Start, Goes, Place
    <3> QED BY <1>7, <3>1, <3>2, <3>3, <3>4
  <2> QED BY <2>1, <2>2, <2>3, <2>4, Elsewhere
<1>8. CASE EquityMoves \/ (\E s \in Symbols : Close(s)) \/ UNCHANGED vars
  <2>1. UNCHANGED <<file, pc, acct, hwm, highest>>
    BY <1>8 DEF EquityMoves, Close, vars, locals
  <2>2. disturbed' = disturbed
    BY <1>8 DEF EquityMoves, Close, vars
  <2>3. Updating' = Updating
    BY <2>1 DEF Updating
  <2> QED BY <2>1, <2>2, <2>3, Bystander
<1> QED BY <1>3, <1>4, <1>5, <1>6, <1>7, <1>8 DEF Next, RunSymbol

\* The mark that the drawdown lock measures from is never lowered by processes that
\* come one after the other, nor by one that dies before it truncates the file
\* (_update_high_water of run_phase2).
THEOREM HighWaterKept == Spec => []PeakIsKept
<1>1. Inv /\ [Next]_vars => Inv'
  BY TypedStep, MarkStep DEF Inv
<1>2. Inv => PeakIsKept
  BY DEF Inv
<1> QED BY InvInit, <1>1, <1>2, PTL DEF Spec
----------------------------------------------------------------------------
\* The open positions

\* What a process may still add to the positions, in hundredths: the room its
\* snapshot left while it has none but that to go by, then the order it is about to
\* send.
Sizing == {"positions", "read", "truncated", "written", "agents"}
Room ==
  [r \in Runs |->
     IF pc[r] \in Sizing THEN Gateway!Greater(0, Cap - 100 * exposure[r])
     ELSE IF pc[r] = "order" THEN 100 * order[r].value ELSE 0]

NoShorts == \A p \in Plans : p.bias # "short"

\* What is open and what may still be added to it is one cap for each process; no
\* process has room for more than one.
RoomInv ==
  /\ \A s \in Symbols : positions[s] >= 0
  /\ \A r \in Runs : exposure[r] >= 0
  /\ \A r \in Runs : pc[r] = "order" => order[r].bias = "long"
  /\ \A r \in Runs : Room[r] <= Cap
  /\ 100 * GrossExposure + SumFunctionOnSet(Room, Runs) <= Cardinality(Runs) * Cap

SizedInv == Typed /\ (NoShorts => RoomInv)

\* No account has a larger cap.
LEMMA CapIsLargest ==
  Cap \in Nat /\ \A e \in Equities : MaxExposurePct * e <= Cap
<1>1. Max(Equities) \in Nat /\ \A e \in Equities : Max(Equities) >= e
  <2>1. Equities \in SUBSET Int /\ Equities \subseteq Nat
    BY DeskAssumption
  <2> QED BY <2>1, DeskAssumption, GreatestExists
<1>2. MaxExposurePct \in Nat
  BY DeskAssumption
<1>3. ASSUME NEW e \in Equities PROVE MaxExposurePct * e <= MaxExposurePct * Max(Equities)
  BY <1>1, <1>2, ProductGrows, DeskAssumption
<1>4. MaxExposurePct * Max(Equities) \in Nat
  BY <1>1, <1>2
<1> QED BY <1>3, <1>4 DEF Cap

RoomTyped ==
  /\ Room \in [Runs -> Int] /\ SumFunctionOnSet(Room, Runs) \in Int
  /\ \A r \in Runs : Room[r] >= 0
  /\ GrossExposure \in Int
  /\ [s \in Symbols |-> Gateway!Abs(positions[s])] \in [Symbols -> Int]

LEMMA RoomOfTypes == Typed => RoomTyped
<1> SUFFICES ASSUME Typed PROVE RoomTyped
  OBVIOUS
<1>1. /\ exposure \in [Runs -> Int] /\ positions \in [Symbols -> Int]
      /\ order \in [Runs -> [bias : {"long", "short", "flat"}, value : Nat]]
  BY DEF Typed, TypeOK
<1>2. \A r \in Runs : order[r].value \in Nat
  BY <1>1
<1>3. Room \in [Runs -> Int] /\ \A r \in Runs : Room[r] >= 0
  BY <1>1, <1>2, CapIsLargest DEF Room, Gateway!Greater
<1>4. [s \in Symbols |-> Gateway!Abs(positions[s])] \in [Symbols -> Int]
  BY <1>1 DEF Gateway!Abs
<1> QED BY <1>3, <1>4, SumIsInt, DeskAssumption DEF RoomTyped, GrossExposure

LEMMA RoomTypes == (Typed => RoomTyped) /\ (Typed' => RoomTyped')
BY RoomOfTypes, PTL

LEMMA RoomInit == Init => (NoShorts => RoomInv)
<1> SUFFICES ASSUME Init PROVE RoomInv
  OBVIOUS
<1>1. /\ \A r \in Runs : Room[r] = 0 /\ exposure[r] = 0 /\ pc[r] = "idle"
      /\ \A s \in Symbols : positions[s] = 0
  BY DEF Init, Room, Sizing
<1>2. SumFunctionOnSet(Room, Runs) = 0
  BY <1>1, TypedInit, RoomTypes, SumOfZeros, DeskAssumption DEF RoomTyped
<1>3. GrossExposure = 0
  <2>1. \A s \in Symbols : Gateway!Abs(positions[s]) = 0
    BY <1>1 DEF Gateway!Abs
  <2> QED BY <2>1, TypedInit, RoomTypes, SumOfZeros, DeskAssumption DEF RoomTyped, GrossExposure
<1>4. Cardinality(Runs) * Cap >= 0 /\ Cap >= 0
  <2>1. Cardinality(Runs) \in Nat
    BY DeskAssumption, FS_CardinalityType
  <2> QED BY <2>1, CapIsLargest
<1> QED BY <1>1, <1>2, <1>3, <1>4 DEF RoomInv

\* A step of one process that opens nothing and gives it no more room.
LEMMA LessRoom ==
  ASSUME Typed, Typed', RoomInv, NEW r \in Runs,
         \A q \in Runs \ {r} : Room'[q] = Room[q],
         Room'[r] <= Room[r], UNCHANGED positions
  PROVE  /\ \A q \in Runs : Room'[q] <= Cap
         /\ 100 * GrossExposure' + SumFunctionOnSet(Room', Runs) <= Cardinality(Runs) * Cap
<1>1. Room \in [Runs -> Int] /\ Room' \in [Runs -> Int] /\ GrossExposure \in Int
  BY RoomTypes DEF RoomTyped
<1>2. SumFunctionOnSet(Room', Runs) = SumFunctionOnSet(Room, Runs) + Room'[r] - Room[r]
  BY <1>1, SumChange, DeskAssumption
<1>3. GrossExposure' = GrossExposure
  BY DEF GrossExposure
<1>4. Room[r] \in Int /\ Room'[r] \in Int /\ SumFunctionOnSet(Room, Runs) \in Int
  BY <1>1, RoomTypes DEF RoomTyped
<1>5. \A q \in Runs : Room'[q] <= Cap
  BY <1>1, <1>4, CapIsLargest DEF RoomInv
<1>6. Cardinality(Runs) * Cap \in Int
  BY CapIsLargest, DeskAssumption, FS_CardinalityType
<1> QED BY <1>1, <1>2, <1>3, <1>4, <1>5, <1>6 DEF RoomInv

\* The step that reads the positions: with the others it has one cap each at most.
LEMMA RoomAsRead ==
  ASSUME Typed, Typed', RoomInv, NEW r \in Runs, ReadPositions(r)
  PROVE  RoomInv'
<1>1. /\ pc[r] = "account" /\ pc' = [pc EXCEPT ![r] = "positions"]
      /\ exposure' = [exposure EXCEPT ![r] = OpenValue] /\ UNCHANGED <<positions, order>>
  BY DEF ReadPositions, Goes, broker
<1>2. /\ positions \in [Symbols -> Int] /\ exposure \in [Runs -> Int] /\ pc \in [Runs -> Place]
      /\ \A s \in Symbols : positions[s] >= 0
  BY DEF Typed, TypeOK, RoomInv, Place
<1>3. OpenValue = GrossExposure
  <2>1. positions = [s \in Symbols |-> Gateway!Abs(positions[s])]
    BY <1>2 DEF Gateway!Abs
  <2> QED BY <2>1 DEF OpenValue, GrossExposure
<1>4. OpenValue >= 0
  <2>1. PICK sums : PartialSums(sums, positions, Symbols)
    BY <1>2, SumSteps, DeskAssumption
  <2> DEFINE F == {S \in SUBSET Symbols : sums[S] >= 0}
  <2>2. {} \in F
    BY <2>1 DEF PartialSums
  <2>3. ASSUME NEW S \in F, NEW s \in Symbols \ S PROVE S \cup {s} \in F
    BY <1>2, <2>1 DEF PartialSums
  <2>4. Symbols \in F
    <3>1. F \in SUBSET SUBSET Symbols
      OBVIOUS
    <3> HIDE DEF F
    <3> QED BY <2>2, <2>3, <3>1, GrowingSubsets, DeskAssumption
  <2> QED BY <2>1, <2>4 DEF PartialSums, OpenValue
<1>5. Room \in [Runs -> Int] /\ Room' \in [Runs -> Int] /\ GrossExposure \in Int
  BY RoomTypes DEF RoomTyped
<1>6. Room[r] = 0 /\ Room'[r] = Gateway!Greater(0, Cap - 100 * GrossExposure)
  BY <1>1, <1>2, <1>3 DEF Room, Sizing
<1>7. \A q \in Runs \ {r} : Room'[q] = Room[q]
  BY <1>1, <1>2 DEF Room
<1>8. /\ \A q \in Runs : exposure'[q] >= 0
      /\ \A s \in Symbols : positions'[s] >= 0
      /\ \A q \in Runs : pc'[q] = "order" => order'[q].bias = "long"
  BY <1>1, <1>2, <1>4 DEF RoomInv
<1>9. /\ \A q \in Runs : Room'[q] <= Cap
      /\ 100 * GrossExposure' + SumFunctionOnSet(Room', Runs) <= Cardinality(Runs) * Cap
  <2>1. CASE Cap <= 100 * GrossExposure
    <3>1. Room'[r] <= Room[r]
      BY <1>5, <1>6, <2>1, CapIsLargest DEF Gateway!Greater
    <3> QED BY <1>1, <1>7, <3>1, LessRoom
  <2>2. CASE ~(Cap <= 100 * GrossExposure)
    <3> DEFINE Full == [Room' EXCEPT ![r] = Cap]
    <3>1. Room'[r] = Cap - 100 * GrossExposure
      BY <1>5, <1>6, <2>2, CapIsLargest DEF Gateway!Greater
    <3>2. \A q \in Runs : Room'[q] <= Cap
      BY <1>3, <1>4, <1>5, <1>7, <3>1, CapIsLargest DEF RoomInv
    <3>3. Full \in [Runs -> Int] /\ Full[r] = Cap /\ \A q \in Runs \ {r} : Full[q] = Room'[q]
      BY <1>5, CapIsLargest
    <3>4. \A q \in Runs : Full[q] <= Cap
      BY <3>2, <3>3, CapIsLargest
    <3> HIDE DEF Full
    <3>5. SumFunctionOnSet(Full, Runs) <= Cardinality(Runs) * Cap
      BY <3>3, <3>4, SumBound, CapIsLargest, DeskAssumption
    <3>6. SumFunctionOnSet(Full, Runs) = SumFunctionOnSet(Room', Runs) + Full[r] - Room'[r]
      BY <1>5, <3>3, SumChange, DeskAssumption
    <3>7. GrossExposure' = GrossExposure
      BY <1>1 DEF GrossExposure
    <3>8. /\ Cardinality(Runs) * Cap \in Int /\ SumFunctionOnSet(Room', Runs) \in Int
          /\ Room'[r] \in Int /\ Cap \in Int /\ GrossExposure \in Int
      BY RoomTypes, CapIsLargest, DeskAssumption, FS_CardinalityType DEF RoomTyped
    <3> QED BY <3>1, <3>2, <3>3, <3>5, <3>6, <3>7, <3>8
  <2> QED BY <2>1, <2>2
<1> QED BY <1>8, <1>9 DEF RoomInv

\* An order has no more than the room of its snapshot.
LEMMA RoomAsApproved ==
  ASSUME Typed, Typed', NoShorts, RoomInv, NEW r \in Runs, Approve(r)
  PROVE  RoomInv'
<1>1. /\ pc[r] = "agents" /\ pc' = [pc EXCEPT ![r] = "order"]
      /\ UNCHANGED <<positions, exposure>>
  BY DEF Approve, Goes, broker
<1>2. PICK p \in Plans, m \in Markets :
        /\ Approved(r, p, m)
        /\ order' = [order EXCEPT ![r] =
             [bias |-> p.bias,
              value |-> Gateway!Qty(p, Account(r), m) * Gateway!UnitPrice(p, m)]]
  BY DEF Approve
<1> DEFINE value == Gateway!Qty(p, Account(r), m) * Gateway!UnitPrice(p, m)
<1>3. /\ acct \in [Runs -> Nat] /\ exposure \in [Runs -> Int] /\ pc \in [Runs -> Place]
      /\ order \in [Runs -> [bias : {"long", "short", "flat"}, value : Nat]]
      /\ acct[r] \in Equities
  BY <1>1 DEF Typed, TypeOK, Place
<1>4. value \in Nat /\ 100 * value <= MaxExposurePct * acct[r] - 100 * exposure[r]
  BY <1>2, <1>3, SizeFits DEF Approved
<1>5. p.bias = "long"
  <2>1. p.bias \in {"long", "short", "flat"}
    BY DeskAssumption DEF Gateway!Plan
  <2> QED BY <1>2, <2>1 DEF Approved, NoShorts
<1> HIDE DEF value
<1>6. MaxExposurePct * acct[r] <= Cap /\ MaxExposurePct * acct[r] \in Int
  BY <1>3, CapIsLargest, DeskAssumption
<1>7. pc'[r] = "order" /\ order'[r] = [bias |-> "long", value |-> value]
  BY <1>1, <1>2, <1>3, <1>5 DEF value
<1>8. Room[r] = Gateway!Greater(0, Cap - 100 * exposure[r]) /\ Room'[r] = 100 * value
  BY <1>1, <1>7 DEF Room, Sizing
<1>9. Room'[r] <= Room[r]
  BY <1>3, <1>4, <1>6, <1>8, CapIsLargest DEF Gateway!Greater
<1>10. \A q \in Runs \ {r} : Room'[q] = Room[q] /\ pc'[q] = pc[q] /\ order'[q] = order[q]
  BY <1>1, <1>2, <1>3 DEF Room
<1>11. \A q \in Runs : pc'[q] = "order" => order'[q].bias = "long"
  BY <1>7, <1>10 DEF RoomInv
<1>12. \A s \in Symbols : positions'[s] >= 0
  BY <1>1 DEF RoomInv
<1>13. \A q \in Runs : exposure'[q] >= 0
  BY <1>1 DEF RoomInv
<1>14. /\ \A q \in Runs : Room'[q] <= Cap
       /\ 100 * GrossExposure' + SumFunctionOnSet(Room', Runs) <= Cardinality(Runs) * Cap
  BY <1>1, <1>9, <1>10, LessRoom
<1> QED BY <1>11, <1>12, <1>13, <1>14 DEF RoomInv

\* An order that is filled uses its room up.
LEMMA RoomAsFilled ==
  ASSUME Typed, Typed', RoomInv, NEW r \in Runs, Submit(r)
  PROVE  RoomInv'
<1>1. pc[r] = "order" /\ pc' = [pc EXCEPT ![r] = "done"] /\ UNCHANGED <<exposure, order>>
  BY DEF Submit, Goes, locals
<1>2. /\ positions \in [Symbols -> Int] /\ pc \in [Runs -> Place]
      /\ order \in [Runs -> [bias : {"long", "short", "flat"}, value : Nat]]
      /\ order[r].bias = "long"
  BY <1>1 DEF Typed, TypeOK, Place, RoomInv
<1>3. order[r].value \in Nat
  BY <1>2
<1>4. PICK s \in Symbols : positions' = [positions EXCEPT ![s] = @ + order[r].value]
  BY <1>2 DEF Submit
<1> DEFINE Gross == [x \in Symbols |-> Gateway!Abs(positions[x])]
           Gross2 == [x \in Symbols |-> Gateway!Abs(positions'[x])]
<1>5. /\ \A x \in Symbols : positions[x] >= 0 /\ positions'[x] >= 0
      /\ positions'[s] = positions[s] + order[r].value
      /\ \A x \in Symbols \ {s} : positions'[x] = positions[x]
  BY <1>2, <1>3, <1>4 DEF RoomInv
<1>6. /\ Gross2[s] = Gross[s] + order[r].value
      /\ \A x \in Symbols \ {s} : Gross2[x] = Gross[x]
  BY <1>2, <1>3, <1>5 DEF Gateway!Abs
<1>7. Gross \in [Symbols -> Int] /\ Gross2 \in [Symbols -> Int]
  BY RoomTypes DEF RoomTyped
<1>8. GrossExposure = SumFunctionOnSet(Gross, Symbols)
      /\ GrossExposure' = SumFunctionOnSet(Gross2, Symbols)
  BY DEF GrossExposure
<1> HIDE DEF Gross, Gross2
<1>9. GrossExposure' = GrossExposure + order[r].value
  <2>1. GrossExposure' = GrossExposure + Gross2[s] - Gross[s]
    BY <1>6, <1>7, <1>8, SumChange, DeskAssumption
  <2>2. GrossExposure \in Int /\ Gross[s] \in Int
    BY <1>7, RoomTypes DEF RoomTyped
  <2> QED BY <1>3, <1>6, <2>1, <2>2
<1>10. Room[r] = 100 * order[r].value /\ Room'[r] = 0
  BY <1>1, <1>2 DEF Room, Sizing
<1>11. \A q \in Runs \ {r} : Room'[q] = Room[q]
  BY <1>1, <1>2 DEF Room
<1>12. SumFunctionOnSet(Room', Runs) = SumFunctionOnSet(Room, Runs) - 100 * order[r].value
  <2>1. Room \in [Runs -> Int] /\ Room' \in [Runs -> Int]
    BY RoomTypes DEF RoomTyped
  <2>2. SumFunctionOnSet(Room', Runs) = SumFunctionOnSet(Room, Runs) + Room'[r] - Room[r]
    BY <1>11, <2>1, SumChange, DeskAssumption
  <2>3. SumFunctionOnSet(Room, Runs) \in Int
    BY RoomTypes DEF RoomTyped
  <2> QED BY <1>3, <1>10, <2>2, <2>3
<1>13. 100 * GrossExposure' + SumFunctionOnSet(Room', Runs) <= Cardinality(Runs) * Cap
  <2>1. GrossExposure \in Int /\ SumFunctionOnSet(Room, Runs) \in Int
    BY RoomTypes DEF RoomTyped
  <2> QED BY <1>3, <1>9, <1>12, <2>1 DEF RoomInv
<1>14. \A q \in Runs : Room'[q] <= Cap
  BY <1>10, <1>11, CapIsLargest DEF RoomInv
<1>15. \A q \in Runs : pc'[q] = "order" => order'[q].bias = "long"
  BY <1>1, <1>2 DEF RoomInv
<1> QED BY <1>1, <1>5, <1>13, <1>14, <1>15 DEF RoomInv

\* A position that is closed leaves what is open smaller.
LEMMA RoomAsClosed ==
  ASSUME Typed, Typed', RoomInv, NEW s \in Symbols, Close(s)
  PROVE  RoomInv'
<1>1. /\ positions' = [positions EXCEPT ![s] = 0] /\ UNCHANGED <<pc, exposure, order>>
  BY DEF Close, locals
<1> DEFINE Gross == [x \in Symbols |-> Gateway!Abs(positions[x])]
           Gross2 == [x \in Symbols |-> Gateway!Abs(positions'[x])]
<1>2. positions \in [Symbols -> Int]
  BY DEF Typed, TypeOK
<1>3. Gross2[s] = 0 /\ Gross[s] >= 0 /\ \A x \in Symbols \ {s} : Gross2[x] = Gross[x]
  BY <1>1, <1>2 DEF Gateway!Abs
<1>4. Gross \in [Symbols -> Int] /\ Gross2 \in [Symbols -> Int]
  BY RoomTypes DEF RoomTyped
<1>5. GrossExposure = SumFunctionOnSet(Gross, Symbols)
      /\ GrossExposure' = SumFunctionOnSet(Gross2, Symbols)
  BY DEF GrossExposure
<1> HIDE DEF Gross, Gross2
<1>6. GrossExposure' <= GrossExposure /\ GrossExposure' \in Int /\ GrossExposure \in Int
  <2>1. GrossExposure' = GrossExposure + Gross2[s] - Gross[s]
    BY <1>3, <1>4, <1>5, SumChange, DeskAssumption
  <2>2. GrossExposure \in Int /\ Gross[s] \in Int /\ GrossExposure' \in Int
    BY <1>4, RoomTypes DEF RoomTyped
  <2> QED BY <1>3, <2>1, <2>2
<1>7. Room' = Room
  BY <1>1 DEF Room, Cap
<1>8. Cardinality(Runs) * Cap \in Int /\ SumFunctionOnSet(Room, Runs) \in Int
  BY RoomTypes, CapIsLargest, DeskAssumption, FS_CardinalityType DEF RoomTyped
<1>9. 100 * GrossExposure' + SumFunctionOnSet(Room', Runs) <= Cardinality(Runs) * Cap
  BY <1>6, <1>7, <1>8 DEF RoomInv
<1>10. \A x \in Symbols : positions'[x] >= 0
  BY <1>1, <1>2 DEF RoomInv
<1> QED BY <1>1, <1>7, <1>9, <1>10 DEF RoomInv

LEMMA RoomStep == SizedInv /\ [Next]_vars => SizedInv'
<1> SUFFICES ASSUME Typed, NoShorts, RoomInv, [Next]_vars, Typed' PROVE RoomInv'
  BY TypedStep DEF SizedInv, NoShorts
<1>1. /\ pc \in [Runs -> Place] /\ exposure \in [Runs -> Int]
      /\ order \in [Runs -> [bias : {"long", "short", "flat"}, value : Nat]]
  BY DEF Typed, TypeOK, Place
<1>2. Room \in [Runs -> Int] /\ \A r \in Runs : Room[r] >= 0
  BY RoomTypes DEF RoomTyped
\* A process that keeps its room, or gives it up.
<1>3. ASSUME NEW r \in Runs,
             \/ ReadHighWater(r) \/ TruncateHighWater(r) \/ WriteHighWater(r) \/ Snapshot(r)
             \/ NoTrade(r) \/ NotSubmitted(r) \/ Start(r) \/ Die(r) \/ ReadEquity(r)
      PROVE  RoomInv'
  <2>1. UNCHANGED positions
    BY <1>3 DEF ReadHighWater, TruncateHighWater, WriteHighWater, Snapshot, NoTrade,
            NotSubmitted, Start, Die, ReadEquity, broker
  <2>2. \A q \in Runs \ {r} :
          pc'[q] = pc[q] /\ exposure'[q] = exposure[q] /\ order'[q] = order[q]
    BY <1>1, <1>3 DEF ReadHighWater, TruncateHighWater, WriteHighWater, Snapshot, NoTrade,
            NotSubmitted, Start, Die, ReadEquity, locals, Goes
  <2>3. pc'[r] # "order"
    BY <1>1, <1>3 DEF ReadHighWater, TruncateHighWater, WriteHighWater, Snapshot, NoTrade,
            NotSubmitted, Start, Die, ReadEquity, Goes
  <2>4. exposure'[r] \in {0, exposure[r]}
    BY <1>1, <1>3 DEF ReadHighWater, TruncateHighWater, WriteHighWater, Snapshot, NoTrade,
            NotSubmitted, Start, Die, ReadEquity, locals
  <2>5. pc'[r] \in Sizing => pc[r] \in Sizing /\ exposure'[r] = exposure[r]
    BY <1>1, <1>3 DEF ReadHighWater, TruncateHighWater, WriteHighWater, Snapshot, NoTrade,
            NotSubmitted, Start, Die, ReadEquity, Goes, Sizing, locals
  <2>6. Room'[r] = IF pc'[r] \in Sizing THEN Gateway!Greater(0, Cap - 100 * exposure'[r]) ELSE 0
    BY <2>3 DEF Room, Cap
  <2>7. Room'[r] <= Room[r]
    <3>1. CASE pc'[r] \in Sizing
      <4>1. Room'[r] = Room[r]
        BY <2>5, <2>6, <3>1 DEF Room
      <4> QED BY <1>2, <4>1
    <3>2. CASE pc'[r] \notin Sizing
      BY <1>2, <2>6, <3>2
    <3> QED BY <3>1, <3>2
  <2>8. \A q \in Runs \ {r} : Room'[q] = Room[q]
    BY <2>2 DEF Room, Cap
  <2>9. /\ \A q \in Runs : Room'[q] <= Cap
        /\ 100 * GrossExposure' + SumFunctionOnSet(Room', Runs) <= Cardinality(Runs) * Cap
    BY <2>1, <2>7, <2>8, LessRoom
  <2>10. \A q \in Runs : exposure'[q] >= 0
    BY <2>2, <2>4 DEF RoomInv
  <2>11. \A q \in Runs : pc'[q] = "order" => order'[q].bias = "long"
    BY <2>2, <2>3 DEF RoomInv
  <2> QED BY <2>1, <2>9, <2>10, <2>11 DEF RoomInv
<1>4. CASE EquityMoves \/ UNCHANGED vars
  <2>1. UNCHANGED <<positions, pc, exposure, order>>
    BY <1>4 DEF EquityMoves, vars, broker, locals
  <2>2. Room' = Room /\ GrossExposure' = GrossExposure
    BY <2>1 DEF Room, GrossExposure, Cap
  <2> QED BY <2>1, <2>2 DEF RoomInv
<1> QED
  BY <1>3, <1>4, RoomAsRead, RoomAsApproved, RoomAsFilled, RoomAsClosed DEF Next, RunSymbol

\* As long as nothing is sold short, the open positions are within the exposure cap of
\* the largest account for every process that may run at once, however slow its agents
\* and however often the others size against the same snapshot (get_account, evaluate,
\* submit_bracket).
THEOREM CapHeldPerProcess == Spec => []ExposureWithinCaps
<1>1. Init => SizedInv
  BY TypedInit, RoomInit DEF SizedInv
<1>2. SizedInv => ExposureWithinCaps
  <2> SUFFICES ASSUME Typed, NoShorts, RoomInv
               PROVE  100 * GrossExposure <= Cardinality(Runs) * Cap
    BY DEF SizedInv, ExposureWithinCaps, NoShorts
  <2>1. SumFunctionOnSet(Room, Runs) >= 0
    <3>1. PICK sums : PartialSums(sums, Room, Runs)
      BY RoomTypes, SumSteps, DeskAssumption DEF RoomTyped
    <3> DEFINE F == {S \in SUBSET Runs : sums[S] >= 0}
    <3>2. {} \in F
      BY <3>1 DEF PartialSums
    <3>3. ASSUME NEW S \in F, NEW r \in Runs \ S PROVE S \cup {r} \in F
      BY <3>1, RoomTypes DEF PartialSums, RoomTyped
    <3>4. Runs \in F
      <4>1. F \in SUBSET SUBSET Runs
        OBVIOUS
      <4> HIDE DEF F
      <4> QED BY <3>2, <3>3, <4>1, GrowingSubsets, DeskAssumption
    <3> QED BY <3>1, <3>4 DEF PartialSums
  <2>2. /\ Cardinality(Runs) * Cap \in Int /\ GrossExposure \in Int
        /\ SumFunctionOnSet(Room, Runs) \in Int
    BY RoomTypes, CapIsLargest, DeskAssumption, FS_CardinalityType DEF RoomTyped
  <2> QED BY <2>1, <2>2 DEF RoomInv
<1> QED BY <1>1, <1>2, RoomStep, PTL DEF Spec
=============================================================================
