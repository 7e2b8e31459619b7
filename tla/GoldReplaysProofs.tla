-------------------------- MODULE GoldReplaysProofs --------------------------
(***************************************************************************)
(* Theorems about the gold backtests of MCGoldReplays, for any prices,     *)
(* buffers, holding times and candles that GoldAssumption admits.  Each of *)
(* the backtests has an invariant of its own, and the theorems at the end  *)
(* put them together.                                                      *)
(***************************************************************************)
EXTENDS MCGoldReplays, FiniteSetTheorems, SequenceTheorems, TLAPS

----------------------------------------------------------------------------
\* run_crt_backtest and run_crt_full_backtest

\* An open trade has risk to lose and a target that is no loss.
CrtTrade(p) ==
  /\ p \in CR!Positions
  /\ CR!Risk(p) > 0 /\ CR!Gain(p.dir, p.entry, p.target) >= 0

\* In "crt", as long as the reference may be traded: a wick lies beyond the edge and
\* beyond every price seen since the reference; without a sweep no price passed the edge.
WickInv ==
  cEngine = "crt" /\ ~cTraded =>
    \A d \in CR!Dir :
      IF cSwept[d]
      THEN /\ cWick[d] # CR!NoWick /\ cWorst[d] # CR!NoWick
           /\ CR!Gain(d, CR!Edge(d, cRef), cWick[d]) < 0
           /\ CR!Gain(d, cWorst[d], cWick[d]) <= 0
      ELSE /\ cWick[d] = CR!NoWick
           /\ cWorst[d] = CR!NoWick \/ CR!Gain(d, CR!Edge(d, cRef), cWorst[d]) >= 0

\* In "crt" the flag goes up with the one entry, and a reference comes with a trend.
OnceInv == cEngine = "crt" => cEntries <= 1 /\ (cEntries = 1 => cTraded)
TrendInv == cEngine = "crt" /\ cRef # CR!NoRef => cTrend # "none"
\* Without a reference nothing was swept.
NothingSwept ==
  cRef = CR!NoRef =>
    \A d \in CR!Dir : cWick[d] = CR!NoWick /\ cWorst[d] = CR!NoWick /\ ~cSwept[d]

\* The invariant of the two engines.
CrtInv ==
  /\ CR!TypeOK
  /\ cPos = CR!NoPos \/ CrtTrade(cPos)
  /\ CR!RealizedWithinRisk
  /\ OnceInv /\ TrendInv /\ NothingSwept /\ WickInv

\* What is assumed of the constants, as the proofs cite it.
LEMMA CrtValues ==
  /\ CrtPrices \subseteq Nat \ {0} /\ MaxHold \in Nat \ {0} /\ CrtBuffer \in Nat
BY GoldAssumption DEF CR!BracketAssumption, CR!CrtAssumption

LEMMA CrtPriceIsNat == \A x \in CrtPrices \cup {CR!NoWick} : x \in Nat
BY CrtValues DEF CR!NoWick

\* A bar has prices.
LEMMA CrtBar ==
  ASSUME NEW b \in CR!Bar
  PROVE  /\ b.hi \in CrtPrices /\ b.lo \in CrtPrices /\ b.cl \in CrtPrices
         /\ b.hi \in Nat \ {0} /\ b.lo \in Nat \ {0} /\ b.cl \in Nat \ {0}
         /\ b.lo <= b.cl /\ b.cl <= b.hi
BY CrtValues DEF CR!Bar

LEMMA CrtInit == Init => CrtInv
<1> SUFFICES ASSUME Init PROVE CrtInv
  OBVIOUS
<1>1. CR!Init
  BY DEF Init
<1>2. /\ cEntries = 0 /\ cRef = CR!NoRef /\ cPos = CR!NoPos /\ cRow = CR!NoTrade
      /\ cWick = CR!Nothing /\ cSwept = [d \in CR!Dir |-> FALSE] /\ cWorst = CR!Nothing
      /\ cEngine \in {"crt", "full"} /\ cTrend = "none" /\ cTraded = FALSE
  BY <1>1 DEF CR!Init
<1>3. \A d \in CR!Dir : ~cSwept[d] /\ cWick[d] = CR!NoWick /\ cWorst[d] = CR!NoWick
  BY <1>2 DEF CR!Nothing
<1>4. /\ CR!Nothing \in [CR!Dir -> CrtPrices \cup {CR!NoWick}]
      /\ cSwept \in [CR!Dir -> BOOLEAN]
  BY <1>2 DEF CR!Nothing
<1>5. CR!TypeOK
  <2>1. cTraded \in BOOLEAN
    BY <1>2
  <2>2. cEntries \in 0..2
    BY <1>2
  <2>3. cTrend \in CR!Dir \cup {"none"}
    BY <1>2
  <2>4. /\ cWick \in [CR!Dir -> CrtPrices \cup {CR!NoWick}]
        /\ cWorst \in [CR!Dir -> CrtPrices \cup {CR!NoWick}]
    BY <1>2, <1>4
  <2> QED BY <1>2, <1>4, <2>1, <2>2, <2>3, <2>4 DEF CR!TypeOK
<1> QED BY <1>2, <1>3, <1>5 
         DEF CrtInv, WickInv, OnceInv, TrendInv, NothingSwept, CR!RealizedWithinRisk

\* What ends a trade on a bar loses no more than its risk.
LEMMA CrtRow ==
  ASSUME CrtInv, NEW b \in CR!Bar, cPos # CR!NoPos, CR!Flat(b)
  PROVE  CR!Row(b).risk > 0 /\ CR!Row(b).gain >= -CR!Row(b).risk
<1> DEFINE p == cPos
           reason == CR!ExitReason(p, b)
<1>1. /\ p.dir \in CR!Dir /\ p.entry \in Int /\ p.stop \in Int /\ p.target \in Int /\ p.hold \in Int
      /\ CR!Risk(p) > 0 /\ CR!Gain(p.dir, p.entry, p.target) >= 0
  BY DEF CrtInv, CrtTrade, CR!Positions
<1>2. /\ b.hi \in Int /\ b.lo \in Int /\ b.cl \in Int /\ b.lo <= b.cl /\ b.cl <= b.hi
  BY CrtBar
<1>3. CR!Row(b) = CR!Trade(p, b, reason) /\ reason # "open"
  BY DEF CR!Row, CR!Flat
<1>4. CR!Row(b).risk = CR!Risk(p)
      /\ CR!Row(b).gain = CR!Gain(p.dir, p.entry, CR!ExitPrice(p, b, reason))
  BY <1>3 DEF CR!Trade
<1>5. CASE CR!StopHit(p, b)
  <2>1. CR!ExitPrice(p, b, reason) = p.stop
    BY <1>5 DEF CR!ExitReason, CR!ExitPrice
  <2> QED BY <1>1, <1>4, <2>1 DEF CR!Risk, CR!Gain
<1>6. CASE ~CR!StopHit(p, b)
  <2>1. CR!ExitPrice(p, b, reason) \in {p.target, b.cl}
    BY <1>6 DEF CR!ExitReason, CR!ExitPrice
  <2>2. CR!Gain(p.dir, p.stop, b.cl) > 0
    BY <1>1, <1>2, <1>6 DEF CR!StopHit, CR!Gain, CR!Worst, CR!Dir
  <2> QED BY <1>1, <1>2, <1>4, <2>1, <2>2 DEF CR!Risk, CR!Gain
<1> QED BY <1>5, <1>6
\* So has a reference candle.
LEMMA CrtRange ==
  ASSUME NEW c \in CR!Range
  PROVE  /\ c.hi \in CrtPrices /\ c.lo \in CrtPrices /\ c # CR!NoRef
         /\ c.hi \in Nat \ {0} /\ c.lo \in Nat \ {0} /\ c.lo <= c.hi
<1>1. c.hi \in CrtPrices /\ c.lo \in CrtPrices /\ c.lo <= c.hi
  BY DEF CR!Range
<1>2. c.hi \in Nat \ {0} /\ c.lo \in Nat \ {0}
  BY <1>1, CrtValues
<1>3. c.hi # CR!NoRef.hi
  BY <1>2 DEF CR!NoRef
<1> QED BY <1>1, <1>2, <1>3

\* A candle of the higher time frame.
LEMMA CrtCandleStep ==
  ASSUME CrtInv, NEW c \in CR!Range, NEW q \in BOOLEAN,
         NEW side \in CR!Dir \cup {"none"},
         CR!CrtCandle(c, side, q) \/ CR!FullCandle(c, q)
  PROVE  CrtInv'
<1>1. CR!TypeOK /\ CR!RealizedWithinRisk /\ (cPos = CR!NoPos \/ CrtTrade(cPos))
      /\ OnceInv /\ TrendInv /\ NothingSwept /\ WickInv
  BY DEF CrtInv
<1>2. cPos' = cPos /\ cRow' = cRow /\ cEngine' = cEngine
  BY DEF CR!CrtCandle, CR!FullCandle
<1>3. cTrend' \in CR!Dir \cup {"none"}
  BY <1>1 DEF CR!TypeOK, CR!CrtCandle, CR!FullCandle
<1>4. /\ cPos' = CR!NoPos \/ CrtTrade(cPos')
      /\ CR!RealizedWithinRisk'
      /\ cPos' = CR!NoPos \/ cPos' \in CR!Positions
  BY <1>1, <1>2 DEF CR!RealizedWithinRisk, CrtTrade
<1>5. cEngine' \in {"crt", "full"}
  BY <1>1, <1>2 DEF CR!TypeOK
<1> DEFINE resets == q /\ (cEngine = "crt" => side # "none")
<1>6. CASE resets
  <2>1. /\ cRef' = c /\ cEntries' = 0 /\ cTraded' \in {FALSE, cTraded}
        /\ cWick' = CR!Nothing /\ cSwept' = [d \in CR!Dir |-> FALSE] /\ cWorst' = CR!Nothing
    BY <1>1, <1>6 DEF CR!CrtCandle, CR!FullCandle, CR!SetReference
  <2>2. \A d \in CR!Dir : ~cSwept'[d] /\ cWick'[d] = CR!NoWick /\ cWorst'[d] = CR!NoWick
    BY <2>1 DEF CR!Nothing
  <2>3. /\ cWick' \in [CR!Dir -> CrtPrices \cup {CR!NoWick}]
        /\ cWorst' \in [CR!Dir -> CrtPrices \cup {CR!NoWick}]
        /\ cSwept' \in [CR!Dir -> BOOLEAN]
    BY <2>1 DEF CR!Nothing
  <2>4. cTraded' \in BOOLEAN
    BY <1>1, <2>1 DEF CR!TypeOK
  <2>5. cEntries' \in 0..2 /\ cRef' \in CR!Range
    BY <2>1
  <2>6. CR!TypeOK'
    BY <1>3, <1>4, <1>5, <2>3, <2>4, <2>5 DEF CR!TypeOK
  <2>7. cEngine = "crt" => cTrend' # "none"
    BY <1>6 DEF CR!CrtCandle, CR!FullCandle
  <2>8. OnceInv' /\ TrendInv' /\ NothingSwept' /\ WickInv'
    BY <1>2, <2>1, <2>2, <2>7 DEF OnceInv, TrendInv, NothingSwept, WickInv
  <2> QED BY <1>4, <2>6, <2>8 DEF CrtInv
<1>7. CASE ~resets
  <2>1. UNCHANGED <<cRef, cEntries, cTraded, cWick, cSwept, cWorst>>
    BY <1>1, <1>7 DEF CR!CrtCandle, CR!FullCandle, CR!KeepReference
  <2>2. cEngine = "crt" /\ cTrend # "none" => cTrend' # "none"
    BY <1>1 DEF CR!CrtCandle, CR!FullCandle
  <2>3. OnceInv' /\ NothingSwept' /\ WickInv'
    BY <1>1, <1>2, <2>1 DEF OnceInv, NothingSwept, WickInv, CR!Edge, CR!Gain
  <2>4. TrendInv'
    BY <1>1, <1>2, <2>1, <2>2 DEF TrendInv
  <2>5. CR!TypeOK'
    BY <1>1, <1>3, <1>4, <1>5, <2>1 DEF CR!TypeOK
  <2> QED BY <1>4, <2>3, <2>4, <2>5 DEF CrtInv
<1> QED BY <1>6, <1>7

----------------------------------------------------------------------------
\* A bar of the entry time frame

\* The deeper of two prices is one of them, and no less deep than either.
LEMMA CrtDeeper ==
  ASSUME NEW d \in CR!Dir, NEW known \in CrtPrices \cup {CR!NoWick}, NEW price \in CrtPrices
  PROVE  /\ CR!Deeper(d, known, price) \in {known, price}
         /\ CR!Deeper(d, known, price) \in CrtPrices
         /\ CR!Gain(d, known, CR!Deeper(d, known, price)) <= 0 \/ known = CR!NoWick
         /\ CR!Gain(d, price, CR!Deeper(d, known, price)) <= 0
<1>1. known \in Nat /\ price \in Nat /\ (known # CR!NoWick => known \in CrtPrices)
  BY CrtValues DEF CR!NoWick
<1> QED BY <1>1 DEF CR!Deeper, CR!Gain

LEMMA CrtWorst ==
  ASSUME NEW d \in CR!Dir, NEW b \in CR!Bar
  PROVE  CR!Worst(d, b) \in CrtPrices /\ CR!Worst(d, b) \in Nat \ {0}
BY CrtBar DEF CR!Worst

\* The types of what a bar leaves known.
LEMMA CrtKnown ==
  ASSUME CR!TypeOK, NEW b \in CR!Bar
  PROVE  /\ CR!Swept(b) \in [CR!Dir -> BOOLEAN]
         /\ CR!Wick(b) \in [CR!Dir -> CrtPrices \cup {CR!NoWick}]
         /\ [d \in CR!Dir |-> CR!Deeper(d, cWorst[d], CR!Worst(d, b))]
              \in [CR!Dir -> CrtPrices \cup {CR!NoWick}]
<1>1. /\ cSwept \in [CR!Dir -> BOOLEAN]
      /\ cWick \in [CR!Dir -> CrtPrices \cup {CR!NoWick}]
      /\ cWorst \in [CR!Dir -> CrtPrices \cup {CR!NoWick}]
  BY DEF CR!TypeOK
<1>2. ASSUME NEW d \in CR!Dir
      PROVE  /\ CR!Deeper(d, cWick[d], CR!Worst(d, b)) \in CrtPrices
             /\ CR!Deeper(d, cWorst[d], CR!Worst(d, b)) \in CrtPrices
  <2>1. CR!Worst(d, b) \in CrtPrices
    BY CrtWorst
  <2>2. cWick[d] \in CrtPrices \cup {CR!NoWick} /\ cWorst[d] \in CrtPrices \cup {CR!NoWick}
    BY <1>1
  <2> QED BY <2>1, <2>2, CrtDeeper
<1>3. CR!Swept(b) \in [CR!Dir -> BOOLEAN]
  BY <1>1 DEF CR!Swept
<1>4. CR!Wick(b) \in [CR!Dir -> CrtPrices \cup {CR!NoWick}]
  BY <1>1, <1>2 DEF CR!Wick
<1> QED BY <1>2, <1>3, <1>4

\* The two records of a bar, in numbers: e is the edge, v what the bar shows.
LEMMA DeeperWick ==
  ASSUME NEW d \in CR!Dir, NEW e \in Nat, NEW v \in Nat \ {0},
         NEW wick \in Nat, NEW seen \in Nat, NEW sw \in BOOLEAN,
         IF sw THEN /\ wick # CR!NoWick /\ seen # CR!NoWick
                    /\ CR!Gain(d, e, wick) < 0 /\ CR!Gain(d, seen, wick) <= 0
         ELSE wick = CR!NoWick /\ (seen = CR!NoWick \/ CR!Gain(d, e, seen) >= 0)
  PROVE  LET after == IF CR!Gain(d, e, v) < 0 THEN CR!Deeper(d, wick, v) ELSE wick
             known == CR!Deeper(d, seen, v)
         IN  IF sw \/ CR!Gain(d, e, v) < 0
             THEN /\ after # CR!NoWick /\ known # CR!NoWick
                  /\ CR!Gain(d, e, after) < 0 /\ CR!Gain(d, known, after) <= 0
             ELSE after = CR!NoWick /\ (known = CR!NoWick \/ CR!Gain(d, e, known) >= 0)
<1>1. CASE d = "bull"
  BY <1>1 DEF CR!Deeper, CR!NoWick, CR!Gain
<1>2. CASE d # "bull"
  BY <1>2 DEF CR!Deeper, CR!NoWick, CR!Gain
<1> QED BY <1>1, <1>2

\* What "crt" knows of a wick after a bar on which no trade is open.
LEMMA CrtWickKept ==
  ASSUME CrtInv, cEngine = "crt", ~cTraded, cRef # CR!NoRef,
         NEW b \in CR!Bar, NEW d \in CR!Dir
  PROVE  LET w == CR!Deeper(d, cWorst[d], CR!Worst(d, b))
         IN  IF CR!Swept(b)[d]
             THEN /\ CR!Wick(b)[d] # CR!NoWick /\ w # CR!NoWick
                  /\ CR!Gain(d, CR!Edge(d, cRef), CR!Wick(b)[d]) < 0
                  /\ CR!Gain(d, w, CR!Wick(b)[d]) <= 0
             ELSE /\ CR!Wick(b)[d] = CR!NoWick
                  /\ w = CR!NoWick \/ CR!Gain(d, CR!Edge(d, cRef), w) >= 0
<1>1. /\ cSwept[d] \in BOOLEAN
      /\ cWick[d] \in CrtPrices \cup {CR!NoWick}
      /\ cWorst[d] \in CrtPrices \cup {CR!NoWick}
  BY DEF CrtInv, CR!TypeOK
<1>2. cWick[d] \in Nat /\ cWorst[d] \in Nat
  BY <1>1, CrtValues DEF CR!NoWick
<1>3. CR!Worst(d, b) \in Nat \ {0}
  BY CrtWorst
<1>4. CR!Edge(d, cRef) \in Nat
  <2>1. cRef \in CR!Range
    BY DEF CrtInv, CR!TypeOK
  <2> QED BY <2>1, CrtRange DEF CR!Edge
<1>5. IF cSwept[d]
      THEN /\ cWick[d] # CR!NoWick /\ cWorst[d] # CR!NoWick
           /\ CR!Gain(d, CR!Edge(d, cRef), cWick[d]) < 0
           /\ CR!Gain(d, cWorst[d], cWick[d]) <= 0
      ELSE /\ cWick[d] = CR!NoWick
           /\ cWorst[d] = CR!NoWick \/ CR!Gain(d, CR!Edge(d, cRef), cWorst[d]) >= 0
  BY DEF CrtInv, WickInv
<1>6. /\ CR!Swept(b)[d] = (cSwept[d] \/ CR!Gain(d, CR!Edge(d, cRef), CR!Worst(d, b)) < 0)
      /\ CR!Wick(b)[d] = IF CR!Gain(d, CR!Edge(d, cRef), CR!Worst(d, b)) < 0
                         THEN CR!Deeper(d, cWick[d], CR!Worst(d, b)) ELSE cWick[d]
  BY DEF CR!Swept, CR!Wick
<1>7. LET v == CR!Worst(d, b)
          e == CR!Edge(d, cRef)
          after == IF CR!Gain(d, e, v) < 0 THEN CR!Deeper(d, cWick[d], v) ELSE cWick[d]
          known == CR!Deeper(d, cWorst[d], v)
      IN  IF cSwept[d] \/ CR!Gain(d, e, v) < 0
          THEN /\ after # CR!NoWick /\ known # CR!NoWick
               /\ CR!Gain(d, e, after) < 0 /\ CR!Gain(d, known, after) <= 0
          ELSE after = CR!NoWick /\ (known = CR!NoWick \/ CR!Gain(d, e, known) >= 0)
  BY <1>1, <1>2, <1>3, <1>4, <1>5, DeeperWick
<1> QED BY <1>6, <1>7

\* A trade that a bar opens: its row, its stop and its target.
LEMMA CrtEnters ==
  ASSUME CrtInv, NEW b \in CR!Bar, NEW d \in CR!Dir, cRef # CR!NoRef,
         CR!Setup(d, b), CR!WorthIt(d, b), CR!Enter(d, b)
  PROVE  CrtTrade(cPos') /\ cEntries' \in 0..2 /\ cPos'.dir = d
         /\ cPos'.stop = CR!StopAt(d, b)
<1>1. /\ cEntries \in 0..2 /\ cRef \in CR!Range
  BY DEF CrtInv, CR!TypeOK
<1>2. CR!Far(d, cRef) \in Nat /\ b.cl \in Nat
  BY <1>1, CrtRange, CrtBar DEF CR!Far
<1>3. CR!StopAt(d, b) \in Int
  <2>1. CR!Wick(b)[d] \in CrtPrices \cup {CR!NoWick}
    BY CrtKnown DEF CrtInv
  <2>2. CR!Wick(b)[d] \in Nat
    BY <2>1, CrtPriceIsNat
  <2>3. CrtBuffer \in Nat
    BY CrtValues
  <2> QED BY <2>2, <2>3 DEF CR!StopAt, CR!Along
<1>4. cPos' = CR!Open(d, b.cl, CR!StopAt(d, b), CR!Far(d, cRef)) /\ cEntries' \in 0..2
  BY <1>1 DEF CR!Enter
<1>5. cPos' \in CR!Positions
  BY <1>2, <1>3, <1>4, CrtValues DEF CR!Open, CR!Positions
<1>6. CR!Gain(d, CR!StopAt(d, b), b.cl) > 0 /\ CR!Gain(d, b.cl, CR!Far(d, cRef)) >= 0
  BY DEF CR!WorthIt, CR!Setup, CR!BackInside
<1> QED BY <1>4, <1>5, <1>6 DEF CrtTrade, CR!Open, CR!Risk

\* A trade that is held gets no older than the clock allows.
LEMMA CrtStays ==
  ASSUME CrtInv, NEW b \in CR!Bar, CR!Stay(b)
  PROVE  (cPos' = CR!NoPos \/ CrtTrade(cPos')) /\ cEntries' = cEntries
<1>1. CASE CR!Flat(b)
  BY <1>1 DEF CR!Stay
<1>2. CASE ~CR!Flat(b)
  <2>1. cPos # CR!NoPos /\ CR!ExitReason(cPos, b) = "open"
    BY <1>2 DEF CR!Flat
  <2>2. CrtTrade(cPos) /\ cPos \in CR!Positions
    BY <2>1 DEF CrtInv, CrtTrade
  <2>3. cPos.hold \in 0..MaxHold - 1 /\ MaxHold \in Nat
    BY <2>2, CrtValues DEF CR!Positions
  <2>4. ~(cPos.hold + 1 >= MaxHold)
    BY <2>1 DEF CR!ExitReason
  <2>5. cPos' = [cPos EXCEPT !.hold = cPos.hold + 1] /\ cEntries' = cEntries
    BY <1>2, <2>1 DEF CR!Stay, CR!Held
  <2>6. cPos.hold + 1 \in 0..MaxHold - 1
    BY <2>3, <2>4
  <2>7. cPos' \in CR!Positions /\ cPos'.dir = cPos.dir /\ cPos'.entry = cPos.entry
        /\ cPos'.stop = cPos.stop /\ cPos'.target = cPos.target
    BY <2>2, <2>5, <2>6 DEF CR!Positions
  <2> QED BY <2>2, <2>5, <2>7 DEF CrtTrade, CR!Risk
<1> QED BY <1>1, <1>2

\* What "crt" has seen of a wick, after a bar that may have opened a trade.
LEMMA CrtBarStep ==
  ASSUME CrtInv, NEW b \in CR!Bar, NEW inSession \in BOOLEAN, NEW shift \in CR!Dir \cup {"none"},
         CR!EntryBar(b, inSession, shift)
  PROVE  /\ CrtInv'
         /\ cEngine = "crt" /\ cEntries' # cEntries /\ cEntries' > 0 =>
              CR!Gain(cPos'.dir, cWorst'[cPos'.dir], cPos'.stop) =< -CrtBuffer
<1>1. CR!TypeOK /\ (cPos = CR!NoPos \/ CrtTrade(cPos)) /\ OnceInv /\ TrendInv
      /\ NothingSwept /\ WickInv
  BY DEF CrtInv
<1>2. /\ cEngine' = cEngine /\ cRef' = cRef /\ cTrend' = cTrend /\ cRow' = CR!Row(b)
      /\ CR!Observe(b)
  BY DEF CR!EntryBar
<1>3. CR!RealizedWithinRisk'
  <2>1. CR!Row(b) # CR!NoTrade => cPos # CR!NoPos /\ CR!Flat(b)
    BY DEF CR!Row
  <2> QED BY <1>2, <2>1, CrtRow DEF CR!RealizedWithinRisk
<1>4. cWorst' \in [CR!Dir -> CrtPrices \cup {CR!NoWick}]
  <2>1. cWorst \in [CR!Dir -> CrtPrices \cup {CR!NoWick}]
    BY <1>1 DEF CR!TypeOK
  <2> QED BY <1>1, <1>2, <2>1, CrtKnown DEF CR!Observe
<1>5. /\ cEngine' \in {"crt", "full"} /\ cTrend' \in CR!Dir \cup {"none"}
      /\ cRef' = CR!NoRef \/ cRef' \in CR!Range
  BY <1>1, <1>2 DEF CR!TypeOK
<1>6. TrendInv'
  BY <1>1, <1>2 DEF TrendInv
<1>7. CASE CR!Pass(b, inSession)
  <2>1. CR!Stay(b) /\ cWick' = cWick /\ cSwept' = cSwept /\ cTraded' = cTraded
    BY <1>7 DEF CR!Pass, CR!found
  <2>2. (cPos' = CR!NoPos \/ CrtTrade(cPos')) /\ cEntries' = cEntries
    BY <2>1, CrtStays
  <2>3. CR!TypeOK'
    <3>1. cPos' = CR!NoPos \/ cPos' \in CR!Positions
      BY <2>2 DEF CrtTrade
    <3> QED BY <1>1, <1>4, <1>5, <2>1, <2>2, <3>1 DEF CR!TypeOK
  <2>4. OnceInv'
    BY <1>1, <1>2, <2>1, <2>2 DEF OnceInv
  <2>5. cEngine = "crt" /\ ~cTraded => cWorst' = cWorst
    <3>1. SUFFICES ASSUME cEngine = "crt", ~cTraded, CR!Flat(b), cRef # CR!NoRef PROVE FALSE
      BY <1>2 DEF CR!Observe
    <3>2. cTrend # "none"
      BY <1>1, <3>1 DEF TrendInv
    <3> QED BY <1>7, <3>1, <3>2 DEF CR!Pass, CR!Scans
  <2>6. WickInv'
    BY <1>1, <1>2, <2>1, <2>5 DEF WickInv, CR!Edge, CR!Gain
  <2>7. NothingSwept'
    <3>1. cRef = CR!NoRef => cWorst' = cWorst
      BY <1>2 DEF CR!Observe
    <3> QED BY <1>1, <1>2, <2>1, <3>1 DEF NothingSwept
  <2> QED BY <1>3, <1>6, <2>2, <2>3, <2>4, <2>6, <2>7 DEF CrtInv
<1>8. CASE CR!CrtScan(b, inSession)
  <2> DEFINE enters == inSession /\ CR!Setup(cTrend, b) /\ CR!WorthIt(cTrend, b)
  <2>1. /\ cEngine = "crt" /\ cRef # CR!NoRef /\ ~cTraded /\ CR!Flat(b) /\ cTrend \in CR!Dir
        /\ cSwept' = CR!Swept(b) /\ cWick' = CR!Wick(b)
        /\ cWorst' = [d \in CR!Dir |-> CR!Deeper(d, cWorst[d], CR!Worst(d, b))]
    BY <1>1, <1>2, <1>8 DEF CR!CrtScan, CR!Scans, CR!Track, CR!Observe, CR!TypeOK
  <2>2. /\ cSwept' \in [CR!Dir -> BOOLEAN]
        /\ cWick' \in [CR!Dir -> CrtPrices \cup {CR!NoWick}]
    BY <1>1, <2>1, CrtKnown
  <2>3. NothingSwept'
    BY <1>2, <2>1 DEF NothingSwept
  <2>4. ASSUME NEW d \in CR!Dir
        PROVE  IF cSwept'[d]
               THEN /\ cWick'[d] # CR!NoWick /\ cWorst'[d] # CR!NoWick
                    /\ CR!Gain(d, CR!Edge(d, cRef'), cWick'[d]) < 0
                    /\ CR!Gain(d, cWorst'[d], cWick'[d]) <= 0
               ELSE /\ cWick'[d] = CR!NoWick
                    /\ cWorst'[d] = CR!NoWick \/ CR!Gain(d, CR!Edge(d, cRef'), cWorst'[d]) >= 0
    BY <1>2, <2>1, <2>4, CrtWickKept
  <2>5. WickInv'
    BY <2>4 DEF WickInv, CR!Edge, CR!Gain
  <2>6. CASE enters
    <3>1. CR!Enter(cTrend, b) /\ cTraded' = TRUE
      BY <1>8, <2>6 DEF CR!CrtScan
    <3>2. /\ CrtTrade(cPos') /\ cEntries' \in 0..2 /\ cPos'.dir = cTrend
          /\ cPos'.stop = CR!StopAt(cTrend, b)
      BY <2>1, <2>6, <3>1, CrtEnters
    <3>3. CR!TypeOK'
      <4>1. cPos' \in CR!Positions
        BY <3>2 DEF CrtTrade
      <4>2. cTraded' \in BOOLEAN
        BY <3>1
      <4> QED BY <1>4, <1>5, <2>2, <3>2, <4>1, <4>2 DEF CR!TypeOK
    <3>4. OnceInv'
      <4>1. cEntries = 0
        BY <1>1, <2>1 DEF OnceInv, CR!TypeOK
      <4> QED BY <3>1, <4>1 DEF OnceInv, CR!Enter
    <3>5. CR!Gain(cPos'.dir, cWorst'[cPos'.dir], cPos'.stop) =< -CrtBuffer
      <4>1. CR!Gain(cTrend, cWorst'[cTrend], cWick'[cTrend]) <= 0
        BY <2>1, <2>4, <2>6 DEF CR!Setup
      <4>2. CR!Wick(b)[cTrend] \in Nat /\ cWorst'[cTrend] \in Nat
        BY <1>4, <2>1, <2>2, CrtPriceIsNat
      <4>3. CrtBuffer \in Nat
        BY CrtValues
      <4> QED BY <2>1, <3>2, <4>1, <4>2, <4>3 DEF CR!StopAt, CR!Along, CR!Gain
    <3> QED BY <1>3, <1>6, <2>3, <2>5, <3>2, <3>3, <3>4, <3>5 DEF CrtInv
  <2>7. CASE ~enters
    <3>1. CR!Stay(b) /\ cTraded' = cTraded
      BY <1>8, <2>7 DEF CR!CrtScan
    <3>2. (cPos' = CR!NoPos \/ CrtTrade(cPos')) /\ cEntries' = cEntries
      BY <3>1, CrtStays
    <3>3. CR!TypeOK'
      <4>1. cPos' = CR!NoPos \/ cPos' \in CR!Positions
        BY <3>2 DEF CrtTrade
      <4> QED BY <1>1, <1>4, <1>5, <2>2, <3>1, <3>2, <4>1 DEF CR!TypeOK
    <3>4. OnceInv'
      BY <1>1, <1>2, <3>1, <3>2 DEF OnceInv
    <3> QED BY <1>3, <1>6, <2>3, <2>5, <3>2, <3>3, <3>4 DEF CrtInv
  <2> QED BY <2>6, <2>7
<1>9. CASE CR!FullScan(b, inSession, shift)
  <2> DEFINE enters == shift \in CR!Dir /\ CR!Setup(shift, b) /\ CR!WorthIt(shift, b)
  <2>1. /\ cEngine = "full" /\ cEngine' = "full" /\ cRef # CR!NoRef /\ cTraded' = cTraded
        /\ cRef' # CR!NoRef
    BY <1>2, <1>9 DEF CR!FullScan, CR!Scans
  <2>2. cSwept' \in [CR!Dir -> BOOLEAN] /\ cWick' = CR!Wick(b)
    <3>1. CR!Swept(b) \in [CR!Dir -> BOOLEAN]
      BY <1>1, CrtKnown
    <3> QED BY <1>9, <3>1 DEF CR!FullScan, CR!Track
  <2>3. cWick' \in [CR!Dir -> CrtPrices \cup {CR!NoWick}]
    BY <1>1, <2>2, CrtKnown
  <2>4. (cPos' = CR!NoPos \/ CrtTrade(cPos')) /\ cEntries' \in 0..2
    <3>1. CASE enters
      BY <1>9, <2>1, <3>1, CrtEnters DEF CR!FullScan
    <3>2. CASE ~enters
      <4>1. CR!Stay(b)
        BY <1>9, <3>2 DEF CR!FullScan
      <4> QED BY <1>1, <4>1, CrtStays DEF CR!TypeOK
    <3> QED BY <3>1, <3>2
  <2>5. CR!TypeOK'
    <3>1. cPos' = CR!NoPos \/ cPos' \in CR!Positions
      BY <2>4 DEF CrtTrade
    <3> QED BY <1>1, <1>4, <1>5, <2>1, <2>2, <2>3, <2>4, <3>1 DEF CR!TypeOK
  <2>6. OnceInv' /\ NothingSwept' /\ WickInv'
    BY <2>1 DEF OnceInv, NothingSwept, WickInv
  <2> QED BY <1>3, <1>6, <2>1, <2>4, <2>5, <2>6 DEF CrtInv
<1> QED BY <1>7, <1>8, <1>9 DEF CR!EntryBar

LEMMA CrtStep == CrtInv /\ [Next]_vars => CrtInv'
<1> SUFFICES ASSUME CrtInv, [Next]_vars PROVE CrtInv'
  OBVIOUS
<1>1. CASE UNCHANGED crt
  <2>1. UNCHANGED <<cEngine, cRef, cTrend, cWick, cSwept, cTraded, cPos, cRow, cEntries, cWorst>>
    BY <1>1 DEF crt
  <2>2. CR!TypeOK'
    BY <2>1 DEF CrtInv, CR!TypeOK
  <2>3. CR!RealizedWithinRisk' /\ (cPos' = CR!NoPos \/ CrtTrade(cPos'))
    BY <2>1 DEF CrtInv, CR!RealizedWithinRisk
  <2>4. OnceInv' /\ TrendInv' /\ NothingSwept' /\ WickInv'
    BY <2>1 DEF CrtInv, OnceInv, TrendInv, NothingSwept, WickInv, CR!Edge, CR!Gain
  <2> QED BY <2>2, <2>3, <2>4 DEF CrtInv
<1>2. CASE CR!Next
  BY <1>2, CrtCandleStep, CrtBarStep DEF CR!Next, CR!Candle, CR!Feed
<1>3. CR!Next \/ UNCHANGED crt
  BY DEF Next, vars
<1> QED BY <1>1, <1>2, <1>3

LEMMA CrtAlways == Spec => []CrtInv
BY CrtInit, CrtStep, PTL DEF Spec

\* StopBeyondWick, from what the invariant says of the bar that enters.
LEMMA CrtStopBeyondWick == Spec => CR!StopBeyondWick
<1>1. CrtInv /\ [Next]_vars =>
        [cEngine = "crt" /\ cEntries' # cEntries /\ cEntries' > 0 =>
           CR!Gain(cPos'.dir, cWorst'[cPos'.dir], cPos'.stop) =< -CrtBuffer]_(CR!vars)
  <2> SUFFICES ASSUME CrtInv, [Next]_vars, cEntries' # cEntries, cEntries' > 0, cEngine = "crt"
               PROVE  CR!Gain(cPos'.dir, cWorst'[cPos'.dir], cPos'.stop) =< -CrtBuffer
    OBVIOUS
  <2>1. CR!Next
    BY DEF Next, vars, crt
  <2>2. CASE CR!Candle
    BY <2>2 DEF CR!Candle, CR!CrtCandle, CR!FullCandle, CR!SetReference, CR!KeepReference
  <2>3. CASE CR!Feed
    BY <2>3, CrtBarStep DEF CR!Feed
  <2> QED BY <2>1, <2>2, <2>3 DEF CR!Next
<1> QED BY <1>1, CrtAlways, PTL DEF Spec, CR!StopBeyondWick

----------------------------------------------------------------------------
\* run_crt_v2 implements run_crt_backtest

\* What the engine keeps: there is no reference, or one with a range; the flag is up when the
\* reference has opened its trade.
V2Inv ==
  /\ vTrend \in -1..1
  /\ vHigh \in Nat /\ vLow \in Nat
  /\ vHigh < vLow => vHigh = 0 /\ vLow = 1
  /\ vBull \in BOOLEAN /\ vBear \in BOOLEAN /\ vTraded \in BOOLEAN
  /\ vLo \in Nat /\ vHi \in Nat
  /\ vEntries \in {0, 1} /\ (vEntries = 1 => vTraded)

\* What is assumed of the constants.
LEMMA V2Values ==
  /\ V2Prices \subseteq Nat \ {0} /\ MaxHold \in Nat \ {0} /\ V2Buffer \in Nat /\ V2MinRR \in Nat
BY GoldAssumption DEF V2!BracketAssumption, V2!CostAssumption

LEMMA V2Bar ==
  ASSUME NEW b \in V2!Bar
  PROVE  b.hi \in Nat \ {0} /\ b.lo \in Nat \ {0} /\ b.cl \in Nat \ {0}
BY V2Values DEF V2!Bar

LEMMA V2InvInit == Init => V2Inv
<1> SUFFICES ASSUME Init PROVE V2Inv
  OBVIOUS
<1>1. /\ vHigh = 0 /\ vLow = 1 /\ vTrend = 0 /\ vBull = FALSE /\ vBear = FALSE
      /\ vLo = 0 /\ vHi = 0 /\ vTraded = FALSE /\ vEntries = 0
  BY DEF Init, V2!Init, V2!None
<1>2. vBull \in BOOLEAN /\ vBear \in BOOLEAN /\ vTraded \in BOOLEAN
  BY <1>1
<1> QED BY <1>1, <1>2 DEF V2Inv

LEMMA V2InvStep == V2Inv /\ [Next]_vars => V2Inv'
<1> SUFFICES ASSUME V2Inv, [Next]_vars PROVE V2Inv'
  OBVIOUS
<1>1. CASE UNCHANGED v2
  BY <1>1 DEF v2, V2Inv
<1>2. ASSUME NEW c \in V2!Range, NEW side \in -1..1, NEW wide \in BOOLEAN, V2!Candle(c, side, wide)
      PROVE  V2Inv'
  <2>1. c.hi \in Nat /\ c.lo \in Nat /\ c.lo <= c.hi
    BY V2Values DEF V2!Range
  <2>2. vTrend' = side
    BY <1>2 DEF V2!Candle
  <2>3. CASE side # 0 /\ wide
    <3>1. /\ vHigh' = c.hi /\ vLow' = c.lo /\ vBull' = FALSE /\ vBear' = FALSE
          /\ vLo' = 0 /\ vHi' = 0 /\ vTraded' = FALSE /\ vEntries' = 0
      BY <1>2, <2>3 DEF V2!Candle, V2!None
    <3>2. vBull' \in BOOLEAN /\ vBear' \in BOOLEAN /\ vTraded' \in BOOLEAN
      BY <3>1
    <3> QED BY <2>1, <2>2, <3>1, <3>2 DEF V2Inv
  <2>4. CASE ~(side # 0 /\ wide)
    <3>1. UNCHANGED <<vHigh, vLow, vBull, vBear, vLo, vHi, vTraded, vEntries>>
      BY <1>2, <2>4 DEF V2!Candle, V2!sweep
    <3> QED BY <2>2, <3>1 DEF V2Inv
  <2> QED BY <2>3, <2>4
<1>3. ASSUME NEW b \in V2!Bar, NEW inSession \in BOOLEAN, V2!EntryBar(b, inSession)
      PROVE  V2Inv'
  <2>1. vHigh' = vHigh /\ vLow' = vLow /\ vTrend' = vTrend
    BY <1>3 DEF V2!EntryBar
  <2>2. V2!Look(b, inSession) \/ (V2!Keep(b) /\ UNCHANGED V2!sweep)
    BY <1>3 DEF V2!EntryBar
  <2>3. CASE V2!Look(b, inSession)
    <3>1. vBull' \in BOOLEAN /\ vBear' \in BOOLEAN /\ vLo' \in Nat /\ vHi' \in Nat
      BY <2>3, V2Bar DEF V2!Look, V2!SweptLow, V2!SweptHigh, V2!LowAfter, V2!HighAfter, V2Inv
    <3>2. \/ vTraded' = TRUE /\ vEntries' = 1
          \/ vTraded' = vTraded /\ vEntries' = vEntries
      BY <2>3 DEF V2!Look, V2!Enter, V2!Keep
    <3> QED BY <2>1, <3>1, <3>2 DEF V2Inv
  <2>4. CASE V2!Keep(b) /\ UNCHANGED V2!sweep
    BY <2>1, <2>4 DEF V2!Keep, V2!sweep, V2Inv
  <2> QED BY <2>2, <2>3, <2>4
<1>4. V2!Next \/ UNCHANGED v2
  BY DEF Next, vars
<1> QED BY <1>1, <1>2, <1>3, <1>4 DEF V2!Next

\* A candle of run_crt_v2 is one of run_crt_backtest.
LEMMA V2CandleIsV1Candle ==
  ASSUME V2Inv, NEW c \in V2!Range, NEW side \in -1..1, NEW wide \in BOOLEAN,
         V2!Candle(c, side, wide)
  PROVE  V2!V1!Next
<1> DEFINE d == CASE side = 1 -> "bull" [] side = -1 -> "bear" [] OTHER -> "none"
<1>1. d \in V2!V1!Dir \cup {"none"} /\ (d = "none" <=> side = 0)
  BY DEF V2!V1!Dir
<1>2. c = [hi |-> c.hi, lo |-> c.lo] /\ c \in V2!V1!Range
  BY DEF V2!Range, V2!V1!Range
<1>3. side = 0 => vTrend = 0
  BY DEF V2!Candle
<1>4. V2!V1!CrtCandle(c, d, wide)
  <2>1. CASE side # 0 /\ wide
    <3>1. /\ vHigh' = c.hi /\ vLow' = c.lo /\ vBull' = FALSE /\ vBear' = FALSE
          /\ vLo' = 0 /\ vHi' = 0 /\ vTraded' = FALSE /\ vEntries' = 0
          /\ vWorst' = [x \in V2!Dir |-> 0]
          /\ vTrend' = side /\ vPos' = vPos /\ vNet' = vNet
      BY <2>1 DEF V2!Candle, V2!None
    <3>2. V2!V1!SetReference(c)
      BY <1>2, <3>1 DEF V2!V1!SetReference, V2!V1!Nothing, V2!V1!NoWick, V2!V1!Dir, V2!Dir
    <3> QED BY <1>1, <1>3, <2>1, <3>1, <3>2 DEF V2!V1!CrtCandle
  <2>2. CASE ~(side # 0 /\ wide)
    <3>1. UNCHANGED <<vHigh, vLow, vBull, vBear, vLo, vHi, vTraded, vEntries, vWorst, vPos, vNet>>
          /\ vTrend' = side
      BY <2>2 DEF V2!Candle, V2!sweep
    <3>2. V2!V1!KeepReference
      BY <3>1 DEF V2!V1!KeepReference
    <3> QED BY <1>1, <1>3, <2>2, <3>1, <3>2 DEF V2!V1!CrtCandle
  <2> QED BY <2>1, <2>2
<1> QED BY <1>1, <1>2, <1>4 DEF V2!V1!Next, V2!V1!Candle

\* The exits of the two are looked at in the same order.
LEMMA V2Exits ==
  ASSUME NEW b \in V2!Bar
  PROVE  /\ V2!Exit(b) = IF vPos = V2!NoPos THEN "flat" ELSE V2!V1!ExitReason(vPos, b)
         /\ V2!V1!Flat(b) <=> V2!Exit(b) # "open"
         /\ V2!V1!Row(b) = IF V2!Exit(b) \in {"flat", "open"} THEN V2!NoTrade
                           ELSE V2!Trade(vPos, b, V2!Exit(b))
<1>1. V2!Exit(b) = IF vPos = V2!NoPos THEN "flat" ELSE V2!V1!ExitReason(vPos, b)
  BY DEF V2!Exit, V2!V1!ExitReason, V2!V1!StopHit, V2!StopHit, V2!V1!TargetHit, V2!TargetHit,
         V2!V1!Gain, V2!Gain, V2!V1!Worst, V2!Worst, V2!V1!Best, V2!Best
<1>2. vPos # V2!NoPos => V2!Exit(b) # "flat"
  BY <1>1 DEF V2!V1!ExitReason
<1>3. V2!V1!Flat(b) <=> V2!Exit(b) # "open"
  BY <1>1 DEF V2!V1!Flat, V2!V1!NoPos, V2!NoPos
<1>4. V2!V1!Row(b) = IF V2!Exit(b) \in {"flat", "open"} THEN V2!NoTrade
                     ELSE V2!Trade(vPos, b, V2!Exit(b))
  BY <1>1, <1>2, <1>3
     DEF V2!V1!Row, V2!V1!NoPos, V2!NoPos, V2!V1!NoTrade, V2!NoTrade, V2!V1!Trade, V2!Trade,
         V2!V1!Risk, V2!Risk, V2!V1!Gain, V2!Gain, V2!V1!ExitPrice, V2!ExitPrice
<1> QED BY <1>1, <1>3, <1>4

\* A trade is kept or closed by both or by neither.
LEMMA V2KeepIsStay ==
  ASSUME NEW b \in V2!Bar, V2!Keep(b)
  PROVE  V2!V1!Stay(b) /\ vTraded' = vTraded
<1>1. V2!Exit(b) = "open" => vPos # V2!NoPos
  BY DEF V2!Exit
<1> QED BY <1>1, V2Exits DEF V2!Keep, V2!V1!Stay, V2!V1!Held, V2!V1!NoPos, V2!NoPos

\* What the two know of sweeps.
LEMMA V2Tracks ==
  ASSUME V2Inv, NEW b \in V2!Bar
  PROVE  /\ [d \in V2!V1!Dir |-> IF d = "bull" THEN V2!SweptLow(b) ELSE V2!SweptHigh(b)]
              = V2!V1!Swept(b)
         /\ [d \in V2!V1!Dir |-> IF d = "bull" THEN V2!LowAfter(b) ELSE V2!HighAfter(b)]
              = V2!V1!Wick(b)
<1>1. b.lo \in Nat /\ b.hi \in Nat /\ vHigh \in Nat /\ vLow \in Nat /\ vLo \in Nat /\ vHi \in Nat
  BY V2Bar DEF V2Inv
<1>2. ASSUME NEW d \in V2!V1!Dir
      PROVE  /\ (IF d = "bull" THEN V2!SweptLow(b) ELSE V2!SweptHigh(b)) = V2!V1!Swept(b)[d]
             /\ (IF d = "bull" THEN V2!LowAfter(b) ELSE V2!HighAfter(b)) = V2!V1!Wick(b)[d]
  <2>1. CASE d = "bull"
    <3>1. V2!V1!Edge(d, [hi |-> vHigh, lo |-> vLow]) = vLow /\ V2!V1!Worst(d, b) = b.lo
      BY <2>1 DEF V2!V1!Edge, V2!V1!Worst
    <3>2. V2!V1!Gain(d, vLow, b.lo) < 0 <=> b.lo < vLow
      BY <1>1, <2>1 DEF V2!V1!Gain
    <3>3. V2!V1!Swept(b)[d] = (vBull \/ V2!V1!Gain(d, vLow, b.lo) < 0)
      BY <2>1, <3>1 DEF V2!V1!Swept, V2!V1!Dir, V2!Dir
    <3>4. V2!SweptLow(b) = V2!V1!Swept(b)[d]
      BY <3>2, <3>3 DEF V2!SweptLow
    <3>5. V2!V1!Wick(b)[d] = IF V2!V1!Gain(d, vLow, b.lo) < 0
                             THEN V2!V1!Deeper(d, vLo, b.lo) ELSE vLo
      BY <2>1, <3>1 DEF V2!V1!Wick, V2!V1!Dir, V2!Dir
    <3>6. V2!V1!Deeper(d, vLo, b.lo) = IF vLo = 0 \/ b.lo < vLo THEN b.lo ELSE vLo
      BY <1>1, <2>1 DEF V2!V1!Deeper, V2!V1!NoWick, V2!V1!Gain
    <3>7. V2!LowAfter(b) = V2!V1!Wick(b)[d]
      BY <3>2, <3>5, <3>6 DEF V2!LowAfter, V2!None
    <3> QED BY <2>1, <3>4, <3>7
  <2>2. CASE d # "bull"
    <3>1. V2!V1!Edge(d, [hi |-> vHigh, lo |-> vLow]) = vHigh /\ V2!V1!Worst(d, b) = b.hi
      BY <2>2 DEF V2!V1!Edge, V2!V1!Worst
    <3>2. V2!V1!Gain(d, vHigh, b.hi) < 0 <=> b.hi > vHigh
      BY <1>1, <2>2 DEF V2!V1!Gain
    <3>3. V2!V1!Swept(b)[d] = (vBear \/ V2!V1!Gain(d, vHigh, b.hi) < 0)
      BY <2>2, <3>1 DEF V2!V1!Swept, V2!V1!Dir, V2!Dir
    <3>4. V2!SweptHigh(b) = V2!V1!Swept(b)[d]
      BY <3>2, <3>3 DEF V2!SweptHigh
    <3>5. V2!V1!Wick(b)[d] = IF V2!V1!Gain(d, vHigh, b.hi) < 0
                             THEN V2!V1!Deeper(d, vHi, b.hi) ELSE vHi
      BY <2>2, <3>1 DEF V2!V1!Wick, V2!V1!Dir, V2!Dir
    <3>6. V2!V1!Deeper(d, vHi, b.hi) = IF vHi = 0 \/ b.hi > vHi THEN b.hi ELSE vHi
      BY <1>1, <2>2 DEF V2!V1!Deeper, V2!V1!NoWick, V2!V1!Gain
    <3>7. V2!HighAfter(b) = V2!V1!Wick(b)[d]
      BY <3>2, <3>5, <3>6 DEF V2!HighAfter, V2!None
    <3> QED BY <2>2, <3>4, <3>7
  <2> QED BY <2>1, <2>2
<1> QED BY <1>2 DEF V2!V1!Swept, V2!V1!Wick

\* A bar is looked at by both or by neither.
LEMMA V2WaitsIsPass ==
  ASSUME V2Inv, NEW b \in V2!Bar, NEW inSession
  PROVE  V2!Waits(b) <=> ~V2!V1!Scans(b, inSession)
<1>1. [hi |-> vHigh, lo |-> vLow] = V2!V1!NoRef <=> vHigh < vLow
  BY DEF V2Inv, V2!V1!NoRef
<1>2. (CASE vTrend = 1 -> "bull" [] vTrend = -1 -> "bear" [] OTHER -> "none") = "none"
        <=> vTrend = 0
  BY DEF V2Inv
<1> QED BY <1>1, <1>2, V2Exits DEF V2!Waits, V2!V1!Scans

\* The setup of a direction and the trade it opens.
LEMMA V2Setups ==
  ASSUME V2Inv, NEW b \in V2!Bar
  PROVE  LET t == CASE vTrend = 1 -> "bull" [] vTrend = -1 -> "bear" [] OTHER -> "none"
         IN  /\ vTrend = 1 =>
                  /\ V2!BullSetup(b) <=> V2!V1!Setup(t, b) /\ V2!V1!WorthIt(t, b)
                  /\ ~V2!BearSetup(b)
                  /\ V2!Open("bull", b.cl, V2!LowAfter(b) - V2Buffer, vHigh)
                       = V2!V1!Open(t, b.cl, V2!V1!StopAt(t, b),
                                    V2!V1!Far(t, [hi |-> vHigh, lo |-> vLow]))
             /\ vTrend = -1 =>
                  /\ V2!BearSetup(b) <=> V2!V1!Setup(t, b) /\ V2!V1!WorthIt(t, b)
                  /\ ~V2!BullSetup(b)
                  /\ V2!Open("bear", b.cl, V2!HighAfter(b) + V2Buffer, vLow)
                       = V2!V1!Open(t, b.cl, V2!V1!StopAt(t, b),
                                    V2!V1!Far(t, [hi |-> vHigh, lo |-> vLow]))
<1>1. b.lo \in Nat /\ b.hi \in Nat /\ b.cl \in Nat /\ vHigh \in Nat /\ vLow \in Nat
      /\ V2!LowAfter(b) \in Nat /\ V2!HighAfter(b) \in Nat
  BY V2Bar DEF V2Inv, V2!LowAfter, V2!HighAfter
<1>2. V2Buffer \in Nat /\ V2MinRR \in Nat
  BY V2Values
<1>3. CASE vTrend = 1
  <2>1. /\ V2!V1!Swept(b)["bull"] = V2!SweptLow(b)
        /\ V2!V1!Wick(b)["bull"] = V2!LowAfter(b)
    BY V2Tracks DEF V2!V1!Dir
  <2>2. V2!V1!StopAt("bull", b) = V2!LowAfter(b) - V2Buffer
    BY <1>1, <1>2, <2>1 DEF V2!V1!StopAt, V2!V1!Along
  <2>3. V2!V1!Far("bull", [hi |-> vHigh, lo |-> vLow]) = vHigh
        /\ V2!V1!Edge("bull", [hi |-> vHigh, lo |-> vLow]) = vLow
    BY DEF V2!V1!Far, V2!V1!Edge
  <2>4. V2!V1!BackInside("bull", b.cl) <=> vLow < b.cl /\ b.cl <= vHigh
    BY <1>1, <2>3 DEF V2!V1!BackInside, V2!V1!Gain
  <2>5. V2!V1!WorthIt("bull", b)
          <=> V2!Worth(vHigh - b.cl, b.cl - (V2!LowAfter(b) - V2Buffer))
    BY <1>1, <1>2, <2>2, <2>3 DEF V2!V1!WorthIt, V2!Worth, V2!V1!Gain
  <2>6. V2!BullSetup(b) <=> V2!V1!Setup("bull", b) /\ V2!V1!WorthIt("bull", b)
    BY <1>3, <2>1, <2>4, <2>5 DEF V2!BullSetup, V2!V1!Setup
  <2>7. ~V2!BearSetup(b)
    BY <1>3 DEF V2!BearSetup
  <2> QED BY <1>3, <2>2, <2>3, <2>6, <2>7 DEF V2!Open, V2!V1!Open
<1>4. CASE vTrend = -1
  <2>1. /\ V2!V1!Swept(b)["bear"] = V2!SweptHigh(b)
        /\ V2!V1!Wick(b)["bear"] = V2!HighAfter(b)
    BY V2Tracks DEF V2!V1!Dir
  <2>2. V2!V1!StopAt("bear", b) = V2!HighAfter(b) + V2Buffer
    BY <1>1, <1>2, <2>1 DEF V2!V1!StopAt, V2!V1!Along
  <2>3. V2!V1!Far("bear", [hi |-> vHigh, lo |-> vLow]) = vLow
        /\ V2!V1!Edge("bear", [hi |-> vHigh, lo |-> vLow]) = vHigh
    BY DEF V2!V1!Far, V2!V1!Edge
  <2>4. V2!V1!BackInside("bear", b.cl) <=> vLow <= b.cl /\ b.cl < vHigh
    BY <1>1, <2>3 DEF V2!V1!BackInside, V2!V1!Gain
  <2>5. V2!V1!WorthIt("bear", b)
          <=> V2!Worth(b.cl - vLow, V2!HighAfter(b) + V2Buffer - b.cl)
    BY <1>1, <1>2, <2>2, <2>3 DEF V2!V1!WorthIt, V2!Worth, V2!V1!Gain
  <2>6. V2!BearSetup(b) <=> V2!V1!Setup("bear", b) /\ V2!V1!WorthIt("bear", b)
    BY <1>4, <2>1, <2>4, <2>5 DEF V2!BearSetup, V2!V1!Setup
  <2>7. ~V2!BullSetup(b)
    BY <1>4 DEF V2!BullSetup
  <2> QED BY <1>4, <2>2, <2>3, <2>6, <2>7 DEF V2!Open, V2!V1!Open
<1> QED BY <1>3, <1>4

\* So is a bar, of any of the three kinds.
LEMMA V2BarIsV1Bar ==
  ASSUME V2Inv, NEW b \in V2!Bar, NEW inSession \in BOOLEAN, V2!EntryBar(b, inSession)
  PROVE  V2!V1!Next
<1> DEFINE t == CASE vTrend = 1 -> "bull" [] vTrend = -1 -> "bear" [] OTHER -> "none"
           enters == inSession /\ V2!V1!Setup(t, b) /\ V2!V1!WorthIt(t, b)
<1>1. vHigh' = vHigh /\ vLow' = vLow /\ vTrend' = vTrend /\ V2!V1!Observe(b)
  BY DEF V2!EntryBar
<1>2. vNet'.trade = V2!V1!Row(b)
  BY V2Exits DEF V2!EntryBar, V2!Manage, V2!NoNet
<1>3. V2!V1!Pass(b, inSession) \/ V2!V1!CrtScan(b, inSession)
  <2>1. CASE V2!Waits(b) /\ V2!Keep(b) /\ UNCHANGED V2!sweep
    <3>1. V2!V1!Stay(b) /\ vTraded' = vTraded
      BY <2>1, V2KeepIsStay
    <3>2. ~V2!V1!Scans(b, inSession)
      BY <2>1, V2WaitsIsPass
    <3>3. vBull' = vBull /\ vBear' = vBear /\ vLo' = vLo /\ vHi' = vHi
      BY <2>1 DEF V2!sweep
    <3> QED BY <3>1, <3>2, <3>3 DEF V2!V1!Pass, V2!V1!found
  <2>2. CASE V2!Look(b, inSession)
    <3>1. V2!V1!Scans(b, inSession) /\ ~vTraded /\ vTrend \in {-1, 1} /\ vEntries = 0
      <4>1. ~V2!Waits(b)
        BY <2>2 DEF V2!Look
      <4> QED BY <4>1, V2WaitsIsPass DEF V2!Waits, V2Inv
    <3>2. V2!V1!Track(b)
      <4>1. /\ vBull' = V2!SweptLow(b) /\ vBear' = V2!SweptHigh(b)
            /\ vLo' = V2!LowAfter(b) /\ vHi' = V2!HighAfter(b)
        BY <2>2 DEF V2!Look
      <4>2. V2!V1!Dir = V2!Dir
        BY DEF V2!V1!Dir, V2!Dir
      <4> QED BY <4>1, <4>2, V2Tracks DEF V2!V1!Track
    <3>3. CASE enters
      <4>1. \/ vTrend = 1 /\ V2!Enter(V2!Open("bull", b.cl, V2!LowAfter(b) - V2Buffer, vHigh))
            \/ vTrend = -1 /\ V2!Enter(V2!Open("bear", b.cl, V2!HighAfter(b) + V2Buffer, vLow))
        BY <2>2, <3>1, <3>3, V2Setups DEF V2!Look
      <4>2. V2!Enter(V2!V1!Open(t, b.cl, V2!V1!StopAt(t, b),
                                V2!V1!Far(t, [hi |-> vHigh, lo |-> vLow])))
        BY <4>1, V2Setups
      <4>3. V2!V1!Enter(t, b) /\ vTraded' = TRUE
        BY <3>1, <4>2 DEF V2!Enter, V2!V1!Enter
      <4> QED BY <3>1, <3>2, <3>3, <4>3 DEF V2!V1!CrtScan
    <3>4. CASE ~enters
      <4>1. V2!Keep(b)
        BY <2>2, <3>1, <3>4, V2Setups DEF V2!Look
      <4>2. V2!V1!Stay(b) /\ vTraded' = vTraded
        BY <4>1, V2KeepIsStay
      <4> QED BY <3>1, <3>2, <3>4, <4>2 DEF V2!V1!CrtScan
    <3> QED BY <3>3, <3>4
  <2> QED BY <2>1, <2>2 DEF V2!EntryBar
<1>4. V2!V1!EntryBar(b, inSession, "none")
  BY <1>1, <1>2, <1>3 DEF V2!V1!EntryBar
<1>5. b \in V2!V1!Bar
  BY DEF V2!V1!Bar, V2!Bar
<1> QED BY <1>4, <1>5 DEF V2!V1!Next, V2!V1!Feed

\* run_crt_v2 does what run_crt_backtest does, step by step.
THEOREM V2ImplementsV1 == Spec => ImplementsV1
<1>1. Init => V2!V1!Init
  <2> SUFFICES ASSUME Init PROVE V2!V1!Init
    OBVIOUS
  <2>1. /\ vHigh = 0 /\ vLow = 1 /\ vTrend = 0 /\ vBull = FALSE /\ vBear = FALSE
        /\ vLo = 0 /\ vHi = 0 /\ vTraded = FALSE /\ vPos = V2!NoPos /\ vEntries = 0
        /\ vNet.trade = V2!NoTrade /\ vWorst = [d \in V2!Dir |-> 0]
    BY DEF Init, V2!Init, V2!None, V2!NoNet
  <2>2. [d \in V2!Dir |-> IF d = "bull" THEN vBull ELSE vBear] = [d \in V2!V1!Dir |-> FALSE]
    BY <2>1 DEF V2!Dir, V2!V1!Dir
  <2>3. [d \in V2!Dir |-> IF d = "bull" THEN vLo ELSE vHi] = V2!V1!Nothing
        /\ vWorst = V2!V1!Nothing
    BY <2>1 DEF V2!Dir, V2!V1!Dir, V2!V1!Nothing, V2!V1!NoWick
  <2>4. [hi |-> vHigh, lo |-> vLow] = V2!V1!NoRef
    BY <2>1 DEF V2!V1!NoRef
  <2>5. vPos = V2!V1!NoPos /\ vNet.trade = V2!V1!NoTrade
    BY <2>1 DEF V2!NoPos, V2!NoTrade, V2!V1!NoPos, V2!V1!NoTrade
  <2>6. (CASE vTrend = 1 -> "bull" [] vTrend = -1 -> "bear" [] OTHER -> "none") = "none"
    BY <2>1
  <2> QED BY <2>1, <2>2, <2>3, <2>4, <2>5, <2>6 DEF V2!V1!Init
<1>2. V2Inv /\ [Next]_vars => [V2!vars' # V2!vars => V2!V1!Next]_(V2!V1!vars)
  <2> SUFFICES ASSUME V2Inv, [Next]_vars, V2!vars' # V2!vars PROVE V2!V1!Next
    OBVIOUS
  <2>1. V2!Next
    BY DEF Next, vars, v2, V2!vars, V2!sweep
  <2> QED BY <2>1, V2CandleIsV1Candle, V2BarIsV1Bar DEF V2!Next
<1>3. Spec => []V2Inv
  BY V2InvInit, V2InvStep, PTL DEF Spec
<1> QED BY <1>1, <1>2, <1>3, PTL DEF Spec, ImplementsV1, V2!ImplementsV1

----------------------------------------------------------------------------
\* The order-block backtests

\* An open trade has risk to lose and RR times that to win.
BlockTrade(p) ==
  /\ p \in OB!Positions
  /\ OB!Risk(p) > 0 /\ OB!Gain(p.dir, p.entry, p.target) = RR * OB!Risk(p)

\* A direction whose block was closed through has no block.
BrokenIsGone == \A d \in bThrough : bBlock[d] = OB!NoBlock

\* The invariant of the engines.
BlockInv ==
  /\ OB!TypeOK
  /\ bBlock \in [OB!Dir -> OB!Range \cup {OB!NoBlock}]
  /\ bPos = OB!NoPos \/ BlockTrade(bPos)
  /\ OB!RealizedWithinBracket
  /\ BrokenIsGone

\* What is assumed of the constants.
LEMMA BlockValues ==
  /\ Prices \subseteq Nat \ {0} /\ MaxHold \in Nat \ {0}
  /\ Buffer \in Nat /\ RR \in Nat /\ Breach \in Nat /\ BreachHtf \in Nat
BY GoldAssumption DEF OB!BracketAssumption, OB!BlockAssumption

LEMMA BlockBar ==
  ASSUME NEW b \in OB!Bar
  PROVE  /\ b.hi \in Nat \ {0} /\ b.lo \in Nat \ {0} /\ b.cl \in Nat \ {0}
         /\ b.lo <= b.cl /\ b.cl <= b.hi
BY BlockValues DEF OB!Bar

\* An edge is a price, or zero without a block.
LEMMA BlockEdge ==
  ASSUME NEW d \in OB!Dir, NEW k \in OB!Range \cup {OB!NoBlock}
  PROVE  OB!Edge(d, k) \in Nat
<1>1. k.hi \in Nat /\ k.lo \in Nat
  <2>1. CASE k \in OB!Range
    <3>1. k.hi \in Prices /\ k.lo \in Prices
      BY <2>1 DEF OB!Range
    <3> QED BY <3>1, BlockValues
  <2>2. CASE k = OB!NoBlock
    BY <2>2 DEF OB!NoBlock
  <2> QED BY <2>1, <2>2
<1> QED BY <1>1 DEF OB!Edge

LEMMA BlockInit == Init => BlockInv
<1> SUFFICES ASSUME Init PROVE BlockInv
  OBVIOUS
<1>1. /\ bEngine \in {"v1", "v2"} /\ bBlock = [d \in OB!Dir |-> OB!NoBlock] /\ bTrend = "none"
      /\ bPos = OB!NoPos /\ bRow = OB!NoTrade /\ bThrough = {}
  BY DEF Init, OB!Init
<1>2. OB!TypeOK
  BY <1>1 DEF OB!TypeOK
<1> QED BY <1>1, <1>2 DEF BlockInv, OB!RealizedWithinBracket, BrokenIsGone

\* Every way out lies between the stop and the target.
LEMMA BlockRow ==
  ASSUME BlockInv, NEW b \in OB!Bar
  PROVE  OB!Row(b) = OB!NoTrade \/ OB!Row(b).gain \in -OB!Row(b).risk .. RR * OB!Row(b).risk
<1> SUFFICES ASSUME OB!Reason(b) \notin {"flat", "open"}
             PROVE  OB!Row(b).gain \in -OB!Row(b).risk .. RR * OB!Row(b).risk
  BY DEF OB!Row
<1> DEFINE p == bPos
           reason == OB!Reason(b)
           at == OB!ExitPrice(p, b, reason)
<1>1. /\ p # OB!NoPos
      /\ p.dir \in OB!Dir /\ p.entry \in Int /\ p.stop \in Int /\ p.target \in Int /\ p.hold \in Int
      /\ OB!Risk(p) > 0 /\ OB!Gain(p.dir, p.entry, p.target) = RR * OB!Risk(p)
  BY DEF OB!Reason, BlockInv, BlockTrade, OB!Positions
<1>2. /\ b.hi \in Int /\ b.lo \in Int /\ b.cl \in Int /\ b.lo <= b.cl /\ b.cl <= b.hi /\ RR \in Nat
  BY BlockBar, BlockValues
<1>3. /\ OB!Row(b).risk = OB!Risk(p) /\ OB!Row(b).gain = OB!Gain(p.dir, p.entry, at)
  BY DEF OB!Row, OB!Trade
<1>4. OB!Risk(p) \in Int /\ OB!Gain(p.dir, p.entry, p.stop) = -OB!Risk(p)
  BY <1>1 DEF OB!Risk, OB!Gain
<1>5. RR * OB!Risk(p) \in Int /\ RR * OB!Risk(p) >= 0
  BY <1>1, <1>2, <1>4
<1>6. CASE OB!StopHit(p, b)
  <2>1. at = p.stop
    BY <1>1, <1>6 DEF OB!Reason, OB!ExitReason, OB!ExitPrice
  <2> QED BY <1>1, <1>3, <1>4, <1>5, <2>1
<1>7. CASE ~OB!StopHit(p, b) /\ OB!TargetHit(p, b)
  <2>1. at = p.target
    BY <1>1, <1>7 DEF OB!Reason, OB!ExitReason, OB!ExitPrice
  <2> QED BY <1>1, <1>3, <1>4, <1>5, <2>1
<1>8. CASE ~OB!StopHit(p, b) /\ ~OB!TargetHit(p, b)
  <2>1. at = b.cl
    BY <1>1, <1>8 DEF OB!Reason, OB!ExitReason, OB!ExitPrice
  <2>2. OB!Gain(p.dir, p.stop, b.cl) > 0 /\ OB!Gain(p.dir, p.target, b.cl) < 0
    BY <1>1, <1>2, <1>8
       DEF OB!StopHit, OB!TargetHit, OB!Gain, OB!Worst, OB!Best, OB!Dir
  <2>3. /\ OB!Gain(p.dir, p.entry, b.cl) \in Int
        /\ OB!Gain(p.dir, p.entry, b.cl) > OB!Gain(p.dir, p.entry, p.stop)
        /\ OB!Gain(p.dir, p.entry, b.cl) < OB!Gain(p.dir, p.entry, p.target)
    BY <1>1, <1>2, <2>2 DEF OB!Gain
  <2> QED BY <1>1, <1>3, <1>4, <1>5, <2>1, <2>3
<1> QED BY <1>6, <1>7, <1>8

\* What a close breaks is no block any more.
LEMMA BlockUnbroken ==
  ASSUME NEW ks \in [OB!Dir -> OB!Range \cup {OB!NoBlock}], NEW cl, NEW margin
  PROVE  /\ OB!Unbroken(ks, cl, margin) \in [OB!Dir -> OB!Range \cup {OB!NoBlock}]
         /\ \A d \in OB!Dir : ks[d] = OB!NoBlock \/ OB!Breached(d, ks[d], cl, margin)
                                => OB!Unbroken(ks, cl, margin)[d] = OB!NoBlock
BY DEF OB!Unbroken

\* A candle of the higher time frame.
LEMMA BlockCandleStep ==
  ASSUME BlockInv, NEW d \in OB!Dir \cup {"none"}, NEW range \in OB!Range, NEW cl \in Prices,
         NEW side \in OB!Dir \cup {"none"}, OB!H4Candle(d, range, cl, side)
  PROVE  BlockInv'
<1> DEFINE ks == IF d = "none" THEN bBlock ELSE [bBlock EXCEPT ![d] = range]
<1>1. /\ bBlock' = OB!Unbroken(ks, cl, BreachHtf) /\ bThrough' = bThrough \ {d}
      /\ bEngine' = bEngine /\ bPos' = bPos /\ bRow' = bRow /\ bTrend' \in {bTrend, side}
  BY DEF OB!H4Candle
<1>2. bBlock \in [OB!Dir -> OB!Range \cup {OB!NoBlock}]
  BY DEF BlockInv
<1>3. ks \in [OB!Dir -> OB!Range \cup {OB!NoBlock}]
  BY <1>2
<1>4. bBlock' \in [OB!Dir -> OB!Range \cup {OB!NoBlock}]
  BY <1>1, <1>3, BlockUnbroken
<1>5. BrokenIsGone'
  <2>1. ASSUME NEW x \in bThrough' PROVE bBlock'[x] = OB!NoBlock
    <3>1. x \in OB!Dir /\ x # d /\ bBlock[x] = OB!NoBlock
      BY <1>1, <2>1 DEF BlockInv, BrokenIsGone, OB!TypeOK
    <3>2. ks[x] = OB!NoBlock
      BY <1>2, <3>1
    <3> QED BY <1>1, <1>3, <3>1, <3>2, BlockUnbroken
  <2> QED BY <2>1 DEF BrokenIsGone
<1>6. OB!TypeOK'
  BY <1>1 DEF BlockInv, OB!TypeOK
<1>7. OB!RealizedWithinBracket' /\ (bPos' = OB!NoPos \/ BlockTrade(bPos'))
  BY <1>1 DEF BlockInv, OB!RealizedWithinBracket
<1> QED BY <1>4, <1>5, <1>6, <1>7 DEF BlockInv

\* A bar that goes with its block before the entry is looked for.
LEMMA BlockGiven ==
  ASSUME BlockInv, NEW b \in OB!Bar
  PROVE  /\ OB!Given(b) \in [OB!Dir -> OB!Range \cup {OB!NoBlock}]
         /\ \A d \in OB!Dir : OB!Given(b)[d] \in {bBlock[d], OB!NoBlock}
BY DEF BlockInv, OB!Given

\* A bar of the entry time frame; a trade it opens stands on a block nothing closed through.
LEMMA BlockBarStep ==
  ASSUME BlockInv, NEW b \in OB!Bar, NEW inGo \in BOOLEAN, NEW shift \in OB!Dir \cup {"none"},
         OB!LtfBar(b, inGo, shift)
  PROVE  /\ BlockInv'
         /\ bPos' # OB!NoPos /\ bPos' # bPos /\ bPos'.hold = 0 => bPos'.dir \notin bThrough'
<1> DEFINE cleared == OB!Unbroken(OB!Given(b), b.cl, Breach)
           enters == OB!Looks(b, inGo) /\ shift # "none" /\ OB!Setup(shift, b)
<1>1. /\ bEngine' = bEngine /\ bTrend' = bTrend /\ bRow' = OB!Row(b)
      /\ bBlock' = IF OB!Looks(b, inGo) THEN cleared ELSE OB!Given(b)
      /\ bThrough' = IF OB!Looks(b, inGo)
                     THEN bThrough \cup {d \in OB!Dir : OB!Breached(d, bBlock[d], b.cl, Breach)}
                     ELSE bThrough
  BY DEF OB!LtfBar
<1>2. /\ bBlock \in [OB!Dir -> OB!Range \cup {OB!NoBlock}] /\ bThrough \subseteq OB!Dir
      /\ bPos = OB!NoPos \/ BlockTrade(bPos)
  BY DEF BlockInv, OB!TypeOK
<1>3. OB!Given(b) \in [OB!Dir -> OB!Range \cup {OB!NoBlock}]
      /\ cleared \in [OB!Dir -> OB!Range \cup {OB!NoBlock}]
  BY BlockGiven, BlockUnbroken
<1>4. bBlock' \in [OB!Dir -> OB!Range \cup {OB!NoBlock}]
  BY <1>1, <1>3
<1>5. BrokenIsGone'
  <2>1. ASSUME NEW d \in bThrough' PROVE bBlock'[d] = OB!NoBlock
    <3>1. d \in OB!Dir /\ OB!Given(b)[d] \in {bBlock[d], OB!NoBlock}
      BY <1>1, <1>2, <2>1, BlockGiven
    <3>2. CASE d \in bThrough
      <4>1. OB!Given(b)[d] = OB!NoBlock
        BY <3>1, <3>2 DEF BlockInv, BrokenIsGone
      <4> QED BY <1>1, <1>3, <3>1, <4>1, BlockUnbroken
    <3>3. CASE d \notin bThrough
      <4>1. OB!Looks(b, inGo) /\ OB!Breached(d, bBlock[d], b.cl, Breach)
        BY <1>1, <2>1, <3>3
      <4>2. OB!Given(b)[d] = OB!NoBlock \/ OB!Breached(d, OB!Given(b)[d], b.cl, Breach)
        BY <3>1, <4>1
      <4>3. cleared[d] = OB!NoBlock
        BY <1>3, <3>1, <4>2, BlockUnbroken
      <4> QED BY <1>1, <4>1, <4>3
    <3> QED BY <3>2, <3>3
  <2> QED BY <2>1 DEF BrokenIsGone
<1>6. OB!RealizedWithinBracket'
  BY <1>1, BlockRow DEF OB!RealizedWithinBracket
<1>7. /\ bPos' = OB!NoPos \/ BlockTrade(bPos')
      /\ bPos' # OB!NoPos /\ bPos' # bPos /\ bPos'.hold = 0 => bPos'.dir \notin bThrough'
  <2>1. CASE enters
    <3> DEFINE risk == OB!Gain(shift, OB!StopAt(shift, b), b.cl)
    <3>1. bPos' = OB!Open(shift, b.cl, OB!StopAt(shift, b), OB!Along(shift, b.cl, RR * risk))
          /\ shift \in OB!Dir
      BY <2>1 DEF OB!LtfBar, OB!Enter
    <3>2. OB!StopAt(shift, b) \in Int
      <4>1. OB!Edge(shift, bBlock[shift]) \in Nat /\ Buffer \in Nat
        BY <1>2, <3>1, BlockEdge, BlockValues
      <4> QED BY <4>1 DEF OB!StopAt, OB!Along
    <3>3. b.cl \in Int /\ RR \in Nat /\ MaxHold \in Nat \ {0}
      BY BlockBar, BlockValues
    <3>4. risk \in Int /\ risk > 0
      BY <2>1, <3>2, <3>3 DEF OB!Setup, OB!Gain
    <3>5. RR * risk \in Int
      BY <3>3, <3>4
    <3>6. OB!Along(shift, b.cl, RR * risk) \in Int
          /\ OB!Gain(shift, b.cl, OB!Along(shift, b.cl, RR * risk)) = RR * risk
      BY <3>3, <3>5 DEF OB!Along, OB!Gain
    <3>7. bPos' \in OB!Positions
      BY <3>1, <3>2, <3>3, <3>6 DEF OB!Open, OB!Positions
    <3>8. BlockTrade(bPos')
      BY <3>1, <3>4, <3>6, <3>7 DEF BlockTrade, OB!Open, OB!Risk
    <3>9. shift \notin bThrough'
      <4>1. bBlock'[shift] # OB!NoBlock
        BY <1>1, <2>1 DEF OB!Setup
      <4> QED BY <1>5, <4>1 DEF BrokenIsGone
    <3>10. bPos'.dir = shift
      BY <3>1 DEF OB!Open
    <3> QED BY <3>8, <3>9, <3>10
  <2>2. CASE ~enters
    <3>1. CASE OB!Reason(b) # "open"
      BY <2>2, <3>1 DEF OB!LtfBar
    <3>2. CASE OB!Reason(b) = "open"
      <4>1. bPos # OB!NoPos /\ bPos' = [bPos EXCEPT !.hold = bPos.hold + 1]
        BY <2>2, <3>2 DEF OB!LtfBar, OB!Reason, OB!Looks
      <4>2. BlockTrade(bPos) /\ bPos \in OB!Positions
        BY <1>2, <4>1 DEF BlockTrade
      <4>3. bPos.hold \in 0..MaxHold - 1 /\ MaxHold \in Nat
        BY <4>2, BlockValues DEF OB!Positions
      <4>4. ~(bPos.hold + 1 >= MaxHold)
        BY <3>2, <4>1 DEF OB!Reason, OB!ExitReason
      <4>5. bPos.hold + 1 \in 0..MaxHold - 1 /\ bPos.hold + 1 # 0
        BY <4>3, <4>4
      <4>6. bPos' \in OB!Positions /\ bPos'.dir = bPos.dir /\ bPos'.entry = bPos.entry
            /\ bPos'.stop = bPos.stop /\ bPos'.target = bPos.target /\ bPos'.hold # 0
        BY <4>1, <4>2, <4>5 DEF OB!Positions
      <4> QED BY <4>2, <4>6 DEF BlockTrade, OB!Risk
    <3> QED BY <3>1, <3>2
  <2> QED BY <2>1, <2>2
<1>8. OB!TypeOK'
  <2>1. bPos' = OB!NoPos \/ bPos' \in OB!Positions
    BY <1>7 DEF BlockTrade
  <2>2. bThrough' \subseteq OB!Dir
    BY <1>1, <1>2
  <2> QED BY <1>1, <2>1, <2>2 DEF BlockInv, OB!TypeOK
<1> QED BY <1>4, <1>5, <1>6, <1>7, <1>8 DEF BlockInv

LEMMA BlockStep == BlockInv /\ [Next]_vars => BlockInv'
<1> SUFFICES ASSUME BlockInv, [Next]_vars PROVE BlockInv'
  OBVIOUS
<1>1. CASE UNCHANGED ob
  BY <1>1 DEF ob, BlockInv, OB!TypeOK, BlockTrade, OB!RealizedWithinBracket, BrokenIsGone
<1>2. CASE OB!Next
  BY <1>2, BlockCandleStep, BlockBarStep DEF OB!Next, OB!Feed
<1>3. OB!Next \/ UNCHANGED ob
  BY DEF Next, vars
<1> QED BY <1>1, <1>2, <1>3

LEMMA BlockAlways == Spec => []BlockInv
BY BlockInit, BlockStep, PTL DEF Spec

\* EntersStandingBlock, from what the invariant says of the bar that enters.
LEMMA BlockEntersStanding == Spec => OB!EntersStandingBlock
<1>1. BlockInv /\ [Next]_vars =>
        [bPos' # OB!NoPos /\ bPos' # bPos /\ bPos'.hold = 0
           => bPos'.dir \notin bThrough']_(OB!vars)
  <2> SUFFICES ASSUME BlockInv, [Next]_vars, bPos' # OB!NoPos, bPos' # bPos, bPos'.hold = 0
               PROVE  bPos'.dir \notin bThrough'
    OBVIOUS
  <2>1. OB!Next
    BY DEF Next, vars, ob
  <2>2. CASE OB!Feed
    BY <2>2, BlockBarStep DEF OB!Feed
  <2>3. CASE ~OB!Feed
    BY <2>1, <2>3 DEF OB!Next, OB!H4Candle
  <2> QED BY <2>2, <2>3
<1> QED BY <1>1, BlockAlways, PTL DEF Spec, OB!EntersStandingBlock

----------------------------------------------------------------------------
\* The power-of-three backtests

\* An armed sweep has candles left, as many as it is short of MaxSweep; one that has opened
\* its trade is disarmed by the exit, so that it is only armed while the trade is open.
SweepInv ==
  /\ SW!TypeOK
  /\ sSweep = [active |-> sSweep.active, dir |-> sSweep.dir, extreme |-> sSweep.extreme,
               pool |-> sSweep.pool, left |-> sSweep.left]
  /\ sSweep.active \in BOOLEAN /\ sSweep.extreme \in Int /\ sSweep.pool \in Int
  /\ sSweep.active => sSweep.left > 0 /\ sAge + sSweep.left = MaxSweep
  /\ sUsed /\ sSweep.active => sPos # SW!NoPos

\* What is assumed of the constants.
LEMMA SweepValues ==
  /\ Prices \subseteq Nat \ {0} /\ MaxHold \in Nat \ {0} /\ MaxSweep \in Nat \ {0}
  /\ Buffer \in Nat /\ Spread \in Nat /\ RR \in Nat
BY GoldAssumption DEF SW!BracketAssumption, SW!SweepAssumption

LEMMA SweepInit == Init => SweepInv
<1> SUFFICES ASSUME Init PROVE SweepInv
  OBVIOUS
<1>1. /\ sEngine \in {"v1", "v2"} /\ sSweep = SW!NoSweep /\ sPos = SW!NoPos
      /\ sAge = 0 /\ sUsed = FALSE
  BY DEF Init, SW!Init
<1>2. SW!TypeOK
  <2>1. sSweep.dir \in SW!Dir /\ sSweep.left = 0 /\ sUsed \in BOOLEAN
    BY <1>1 DEF SW!NoSweep, SW!Dir
  <2> QED BY <1>1, <2>1, SweepValues DEF SW!TypeOK
<1> QED BY <1>1, <1>2 DEF SweepInv, SW!NoSweep

\* A candle of the sweep frame.
LEMMA SweepCandleStep ==
  ASSUME SweepInv, NEW d \in SW!Dir \cup {"none"}, NEW extreme \in Prices, NEW pool \in Prices,
         SW!SweepCandle(d, extreme, pool)
  PROVE  SweepInv'
<1>1. sEngine' = sEngine /\ sPos' = sPos
  BY DEF SW!SweepCandle
<1>2. /\ sSweep.left \in 0..MaxSweep /\ sAge \in 0..MaxSweep /\ MaxSweep \in Nat \ {0}
      /\ sSweep.active => sSweep.left > 0 /\ sAge + sSweep.left = MaxSweep
  BY SweepValues DEF SweepInv, SW!TypeOK
<1>3. CASE d # "none" /\ sPos = SW!NoPos
  <2>1. /\ sSweep' = [active |-> TRUE, dir |-> d, extreme |-> extreme, pool |-> pool,
                      left |-> MaxSweep]
        /\ sAge' = 0 /\ sUsed' = FALSE
    BY <1>3 DEF SW!SweepCandle
  <2>2. /\ sSweep'.active = TRUE /\ sSweep'.dir = d /\ sSweep'.extreme = extreme
        /\ sSweep'.pool = pool /\ sSweep'.left = MaxSweep
    BY <2>1
  <2>3. SW!TypeOK'
    <3>1. sUsed' \in BOOLEAN
      BY <2>1
    <3>2. sPos' = SW!NoPos
      BY <1>1, <1>3
    <3>3. sSweep'.left \in 0..MaxSweep /\ sAge' \in 0..MaxSweep
      BY <1>2, <2>1, <2>2
    <3>4. sEngine' \in {"v1", "v2"} /\ sSweep'.dir \in SW!Dir
      BY <1>1, <1>3, <2>2 DEF SweepInv, SW!TypeOK
    <3> QED BY <3>1, <3>2, <3>3, <3>4 DEF SW!TypeOK
  <2>4. sSweep'.extreme \in Int /\ sSweep'.pool \in Int
    BY <2>2, SweepValues
  <2>5. sSweep'.active \in BOOLEAN /\ ~sUsed'
    BY <2>1, <2>2
  <2>6. sSweep'.left > 0 /\ sAge' + sSweep'.left = MaxSweep
    BY <1>2, <2>1, <2>2
  <2>7. sSweep' = [active |-> sSweep'.active, dir |-> sSweep'.dir, extreme |-> sSweep'.extreme,
                   pool |-> sSweep'.pool, left |-> sSweep'.left]
    BY <2>1, <2>2
  <2> QED BY <2>3, <2>4, <2>5, <2>6, <2>7 DEF SweepInv
<1>4. CASE ~(d # "none" /\ sPos = SW!NoPos)
  <2>1. /\ sSweep' = SW!Older /\ sUsed' = sUsed
        /\ sAge' = IF sAge < MaxSweep THEN sAge + 1 ELSE sAge
    BY <1>4 DEF SW!SweepCandle
  <2>2. /\ sSweep'.active = (sSweep.active /\ sSweep.left - 1 > 0)
        /\ sSweep'.left = IF sSweep.active THEN sSweep.left - 1 ELSE sSweep.left
        /\ sSweep'.dir = sSweep.dir /\ sSweep'.extreme = sSweep.extreme
        /\ sSweep'.pool = sSweep.pool
    BY <2>1 DEF SW!Older, SweepInv
  <2>3. sSweep' = [active |-> sSweep'.active, dir |-> sSweep'.dir, extreme |-> sSweep'.extreme,
                   pool |-> sSweep'.pool, left |-> sSweep'.left]
    BY <2>1 DEF SW!Older, SweepInv
  <2>4. sSweep'.left \in 0..MaxSweep /\ sAge' \in 0..MaxSweep
    BY <1>2, <2>1, <2>2
  <2>5. SW!TypeOK'
    BY <1>1, <2>1, <2>2, <2>4 DEF SweepInv, SW!TypeOK
  <2>6. sSweep'.active => sSweep'.left > 0 /\ sAge' + sSweep'.left = MaxSweep
    <3>1. SUFFICES ASSUME sSweep'.active PROVE sSweep'.left > 0 /\ sAge' + sSweep'.left = MaxSweep
      OBVIOUS
    <3>2. sSweep.active /\ sSweep.left - 1 > 0
      BY <2>2, <3>1
    <3>3. sSweep'.left = sSweep.left - 1
      BY <2>2, <3>2
    <3>4. sAge + sSweep.left = MaxSweep
      BY <1>2, <3>2
    <3> QED BY <1>2, <2>1, <3>2, <3>3, <3>4
  <2>7. sUsed' /\ sSweep'.active => sPos' # SW!NoPos
    BY <1>1, <2>1, <2>2 DEF SweepInv
  <2>8. sSweep'.active \in BOOLEAN /\ sSweep'.extreme \in Int /\ sSweep'.pool \in Int
    BY <2>2 DEF SweepInv
  <2> QED BY <2>3, <2>5, <2>6, <2>7, <2>8 DEF SweepInv
<1> QED BY <1>3, <1>4

\* A bar of the entry time frame; a trade it opens is the first of a sweep that is still young.
LEMMA SweepBarStep ==
  ASSUME SweepInv, NEW b \in SW!Bar, NEW inGo \in BOOLEAN, NEW shift \in SW!Dir \cup {"none"},
         NEW filtered \in BOOLEAN, NEW mode \in {"rr", "structure"},
         SW!EntryBar(b, inGo, shift, filtered, mode)
  PROVE  SweepInv' /\ (SW!Opens => ~sUsed /\ sAge < MaxSweep)
<1> DEFINE enters == SW!Enters(b, inGo, shift, filtered, mode)
<1>1. sEngine' = sEngine /\ sAge' = sAge /\ sSweep' = SW!Armed(b)
  BY DEF SW!EntryBar
<1>2. /\ sSweep'.active = (sSweep.active /\ ~(sPos # SW!NoPos /\ SW!Flat(b)))
      /\ sSweep'.left = sSweep.left /\ sSweep'.dir = sSweep.dir
      /\ sSweep'.extreme = sSweep.extreme /\ sSweep'.pool = sSweep.pool
  BY <1>1 DEF SW!Armed, SweepInv
<1>3. sSweep' = [active |-> sSweep'.active, dir |-> sSweep'.dir, extreme |-> sSweep'.extreme,
                 pool |-> sSweep'.pool, left |-> sSweep'.left]
  BY <1>1 DEF SW!Armed, SweepInv
<1>4. sSweep'.active => sSweep'.left > 0 /\ sAge' + sSweep'.left = MaxSweep
  BY <1>1, <1>2 DEF SweepInv
<1>5. CASE enters
  <2>1. sUsed' = TRUE /\ shift = sSweep.dir /\ SW!Flat(b) /\ SW!Armed(b).active
        /\ sPos' = SW!Open(shift, b.cl, SW!StopAt(shift), SW!Target(shift, b.cl, mode))
    BY <1>5 DEF SW!EntryBar, SW!Enters
  <2>2. sSweep.active /\ sPos = SW!NoPos
    BY <1>1, <1>2, <2>1
  <2>3. ~sUsed /\ sAge < MaxSweep
    BY <2>2, SweepValues DEF SweepInv, SW!TypeOK
  <2>4. sPos' \in SW!Positions
    <3>1. shift \in SW!Dir /\ sSweep.extreme \in Int /\ sSweep.pool \in Int
      BY <2>1 DEF SweepInv, SW!TypeOK
    <3>2. b.cl \in Int /\ Buffer \in Nat /\ Spread \in Nat /\ RR \in Nat /\ MaxHold \in Nat \ {0}
      <4>1. b.cl \in Prices
        BY DEF SW!Bar
      <4>2. b.cl \in Nat
        BY <4>1, SweepValues
      <4> QED BY <4>2, SweepValues
    <3>3. SW!StopAt(shift) \in Int
      BY <3>1, <3>2 DEF SW!StopAt, SW!Along
    <3>4. SW!Target(shift, b.cl, mode) \in Int
      <4>1. SW!Gain(shift, SW!StopAt(shift), b.cl) \in Int
        BY <3>2, <3>3 DEF SW!Gain
      <4>2. RR * SW!Gain(shift, SW!StopAt(shift), b.cl) \in Int
        BY <3>2, <4>1
      <4> QED BY <3>1, <3>2, <4>2 DEF SW!Target, SW!Along
    <3> QED BY <2>1, <3>1, <3>2, <3>3, <3>4 DEF SW!Open, SW!Positions
  <2>5. sPos' # SW!NoPos
    BY <2>4 DEF SW!Positions, SW!NoPos
  <2>6. SW!TypeOK'
    <3>1. sUsed' \in BOOLEAN
      BY <2>1
    <3> QED BY <1>1, <1>2, <2>4, <3>1 DEF SweepInv, SW!TypeOK
  <2>7. sSweep'.active \in BOOLEAN /\ sSweep'.extreme \in Int /\ sSweep'.pool \in Int
    BY <1>2 DEF SweepInv
  <2> QED BY <1>3, <1>4, <2>3, <2>5, <2>6, <2>7 DEF SweepInv
<1>6. CASE ~enters
  <2>1. /\ sUsed' = sUsed
        /\ sPos' = IF SW!Flat(b) THEN SW!NoPos ELSE [sPos EXCEPT !.hold = sPos.hold + 1]
    BY <1>6 DEF SW!EntryBar
  <2>2. CASE SW!Flat(b)
    <3>1. sPos' = SW!NoPos
      BY <2>1, <2>2
    <3>2. SW!TypeOK'
      BY <1>1, <1>2, <2>1, <3>1 DEF SweepInv, SW!TypeOK
    <3>3. ~(sUsed' /\ sSweep'.active)
      BY <1>2, <2>1, <2>2 DEF SweepInv
    <3>4. sSweep'.active \in BOOLEAN /\ sSweep'.extreme \in Int /\ sSweep'.pool \in Int
      BY <1>2 DEF SweepInv
    <3> QED BY <1>3, <1>4, <3>1, <3>2, <3>3, <3>4 DEF SweepInv, SW!Opens
  <2>3. CASE ~SW!Flat(b)
    <3>1. sPos # SW!NoPos /\ SW!ExitReason(sPos, b) = "open"
          /\ sPos' = [sPos EXCEPT !.hold = sPos.hold + 1]
      BY <2>1, <2>3 DEF SW!Flat
    <3>2. sPos \in SW!Positions
      BY <3>1 DEF SweepInv, SW!TypeOK
    <3>3. sPos.hold \in 0..MaxHold - 1 /\ MaxHold \in Nat
      BY <3>2, SweepValues DEF SW!Positions
    <3>4. ~(sPos.hold + 1 >= MaxHold)
      BY <3>1 DEF SW!ExitReason
    <3>5. sPos.hold + 1 \in 0..MaxHold - 1 /\ sPos.hold + 1 # 0
      BY <3>3, <3>4
    <3>6. sPos' \in SW!Positions /\ sPos'.hold # 0
      BY <3>1, <3>2, <3>5 DEF SW!Positions
    <3>7. sPos' # SW!NoPos
      BY <3>6 DEF SW!Positions, SW!NoPos
    <3>8. SW!TypeOK'
      BY <1>1, <1>2, <2>1, <3>6 DEF SweepInv, SW!TypeOK
    <3>9. sSweep'.active \in BOOLEAN /\ sSweep'.extreme \in Int /\ sSweep'.pool \in Int
      BY <1>2 DEF SweepInv
    <3> QED BY <1>3, <1>4, <3>6, <3>7, <3>8, <3>9 DEF SweepInv, SW!Opens
  <2> QED BY <2>2, <2>3
<1> QED BY <1>5, <1>6

LEMMA SweepStep == SweepInv /\ [Next]_vars => SweepInv'
<1> SUFFICES ASSUME SweepInv, [Next]_vars PROVE SweepInv'
  OBVIOUS
<1>1. CASE UNCHANGED po3
  BY <1>1 DEF po3, SweepInv, SW!TypeOK
<1>2. CASE SW!Next
  BY <1>2, SweepCandleStep, SweepBarStep DEF SW!Next
<1>3. SW!Next \/ UNCHANGED po3
  BY DEF Next, vars
<1> QED BY <1>1, <1>2, <1>3

LEMMA SweepAlways == Spec => []SweepInv
BY SweepInit, SweepStep, PTL DEF Spec

\* The two action properties, from what the invariant says of the bar that enters.
LEMMA SweepTrades == Spec => SW!OneTradePerSweep /\ SW!SweepIsFresh
<1>1. SweepInv /\ [Next]_vars =>
        [SW!Opens => ~sUsed]_(SW!vars) /\ [SW!Opens => sAge < MaxSweep]_(SW!vars)
  <2> SUFFICES ASSUME SweepInv, [Next]_vars, SW!Opens PROVE ~sUsed /\ sAge < MaxSweep
    OBVIOUS
  <2>1. SW!Next
    BY DEF Next, vars, po3, SW!Opens
  <2>2. sPos' # sPos
    BY DEF SW!Opens
  <2> QED BY <2>1, <2>2, SweepBarStep DEF SW!Next, SW!SweepCandle
<1> QED BY <1>1, SweepAlways, PTL DEF Spec, SW!OneTradePerSweep, SW!SweepIsFresh

----------------------------------------------------------------------------
\* TimesFM

\* Finitely many subsets have a smallest one.
LEMMA SmallestSubset ==
  ASSUME NEW S, IsFiniteSet(S), NEW F \in SUBSET SUBSET S, F # {}
  PROVE  \E A \in F : \A B \in F : B \subseteq A => B = A
<1>1. IsWellFoundedOn(StrictSubsetOrdering(S), FiniteSubsetsOf(S))
  BY FS_StrictSubsetOrderingWellFounded
<1>2. F \subseteq FiniteSubsetsOf(S)
  BY FS_Subset DEF FiniteSubsetsOf
<1>3. \E A \in F : \A B \in F : ~(<<B, A>> \in StrictSubsetOrdering(S))
  BY <1>1, <1>2, WFMin
<1> QED BY <1>3 DEF StrictSubsetOrdering

\* A family of subsets of S that holds the empty set, and with a set the same set and
\* one element more, holds S.
LEMMA GrowingSubsets ==
  ASSUME NEW S, IsFiniteSet(S), NEW F \in SUBSET SUBSET S, {} \in F,
         \A A \in F : \A x \in S \ A : A \cup {x} \in F
  PROVE  S \in F
<1> DEFINE G == {S \ A : A \in F}
<1>1. G \in SUBSET SUBSET S
  OBVIOUS
<1>2. S \ {} \in G
  OBVIOUS
<1>3. PICK B \in G : \A C \in G : C \subseteq B => C = B
  <2> HIDE DEF G
  <2> QED BY <1>1, <1>2, SmallestSubset
<1>4. PICK A \in F : B = S \ A
  BY <1>3
<1>5. A = S
  <2>1. SUFFICES ASSUME NEW x \in S \ A PROVE FALSE
    OBVIOUS
  <2>2. S \ (A \cup {x}) \in G
    OBVIOUS
  <2>3. S \ (A \cup {x}) \subseteq B
    BY <1>4
  <2> QED BY <1>3, <1>4, <2>2, <2>3
<1> QED BY <1>4, <1>5

\* A finite set of integers has a least and a greatest.
LEMMA ExtremesExist ==
  ASSUME NEW S \in SUBSET Int, IsFiniteSet(S), S # {}
  PROVE  /\ TF!Min(S) \in S /\ \A x \in S : TF!Min(S) <= x
         /\ TF!Max(S) \in S /\ \A x \in S : TF!Max(S) >= x
<1> DEFINE F == {s \in SUBSET S : s = {} \/ \E x, z \in s : \A y \in s : x <= y /\ y <= z}
<1>1. {} \in F
  OBVIOUS
<1>2. ASSUME NEW s \in F, NEW y \in S \ s PROVE s \cup {y} \in F
  <2>1. CASE s = {}
    BY <2>1
  <2>2. CASE s # {}
    <3>1. PICK x \in s, z \in s : \A w \in s : x <= w /\ w <= z
      BY <2>2
    <3>2. \E u, v \in s \cup {y} : \A w \in s \cup {y} : u <= w /\ w <= v
      <4>1. CASE y <= x
        <5>1. \A w \in s \cup {y} : y <= w /\ w <= z
          BY <3>1, <4>1
        <5> QED BY <5>1
      <4>2. CASE x <= y /\ y <= z
        <5>1. \A w \in s \cup {y} : x <= w /\ w <= z
          BY <3>1, <4>2
        <5> QED BY <5>1
      <4>3. CASE z <= y
        <5>1. \A w \in s \cup {y} : x <= w /\ w <= y
          BY <3>1, <4>3
        <5> QED BY <5>1
      <4> QED BY <3>1, <4>1, <4>2, <4>3
    <3> QED BY <3>2
  <2> QED BY <2>1, <2>2
<1>3. S \in F
  <2>1. F \in SUBSET SUBSET S
    OBVIOUS
  <2> HIDE DEF F
  <2> QED BY <1>1, <1>2, <2>1, GrowingSubsets
<1>4. PICK x \in S, z \in S : \A y \in S : x <= y /\ y <= z
  BY <1>3
<1> QED BY <1>4 DEF TF!Min, TF!Max

\* The greatest is the one that is not less than the others.
LEMMA GreatestIs ==
  ASSUME NEW S \in SUBSET Int, NEW k \in S, \A x \in S : k >= x
  PROVE  TF!Max(S) = k
<1>1. TF!Max(S) \in S /\ \A x \in S : TF!Max(S) >= x
  BY DEF TF!Max
<1>2. TF!Max(S) >= k /\ k >= TF!Max(S) /\ TF!Max(S) \in Int /\ k \in Int
  BY <1>1
<1> QED BY <1>2

\* What is assumed of the constants.
LEMMA TfmValues ==
  /\ MaxBars \in Nat \ {0} /\ PerH4 \in Nat \ {0} /\ Lookback \in Nat \ {0}
  /\ TfmBuffer \in Nat \ {0} /\ TfmRR \in Nat \ {0}
  /\ Right \in Nat /\ Left \in Nat /\ MaxHold \in Nat /\ Spread \in Nat
BY GoldAssumption DEF TF!TfmAssumption

\* The instance has a Cardinality of its own, which is the same.
LEMMA TfmCardinality == \A S : TF!Cardinality(S) = Cardinality(S)
BY DEF TF!Cardinality, Cardinality

LEMMA TfmOther == Context \in Nat /\ Stride \in Nat \ {0}
BY GoldAssumption DEF TF!TfmAssumption

\* A bar has prices in their order.
LEMMA TfmCandle ==
  ASSUME NEW c \in TfmCandles
  PROVE  /\ c.op \in Int /\ c.hi \in Int /\ c.lo \in Int /\ c.cl \in Int
         /\ c.lo <= c.op /\ c.op <= c.hi /\ c.lo <= c.cl /\ c.cl <= c.hi
<1>1. c \in {x \in [op : Int, hi : Int, lo : Int, cl : Int] :
               /\ x.lo <= x.op /\ x.op <= x.hi
               /\ x.lo <= x.cl /\ x.cl <= x.hi}
  BY GoldAssumption DEF TF!TfmAssumption
<1> QED BY <1>1

\* The number of the H4 candle that bar t is part of.
CandleOf(t) == ((t - 1) \div PerH4) + 1

\* Whole division, and products with a natural number.
LEMMA Division ==
  ASSUME NEW a \in Nat, NEW n \in Nat \ {0}
  PROVE  a \div n \in Nat /\ n * (a \div n) <= a /\ a < n * (a \div n) + n
OBVIOUS

LEMMA ProductOrder ==
  ASSUME NEW a \in Int, NEW b \in Int, NEW n \in Nat, a <= b
  PROVE  n * a <= n * b
<1>1. n * (b - a) = n * b - n * a /\ b - a \in Nat
  OBVIOUS
<1>2. n * (b - a) \in Nat
  BY <1>1
<1> QED BY <1>1, <1>2

\* A bar lies between the first and the last of its candle.
LEMMA CandleBounds ==
  ASSUME NEW t \in Nat \ {0}
  PROVE  /\ CandleOf(t) \in Nat \ {0}
         /\ TF!Label(CandleOf(t)) <= t /\ t <= CandleOf(t) * PerH4
<1>1. PerH4 \in Nat \ {0} /\ t - 1 \in Nat
  BY TfmValues
<1> DEFINE q == (t - 1) \div PerH4
<1>2. q \in Nat /\ PerH4 * q <= t - 1 /\ t - 1 < PerH4 * q + PerH4
  BY <1>1, Division
<1>3. CandleOf(t) = q + 1
  BY DEF CandleOf
<1> HIDE DEF q
<1>4. (q + 1) * PerH4 = PerH4 * q + PerH4 /\ (q + 1 - 1) * PerH4 = PerH4 * q
  BY <1>1, <1>2
<1>5. PerH4 * q \in Int
  BY <1>1, <1>2
<1> QED BY <1>1, <1>2, <1>3, <1>4, <1>5 DEF TF!Label

\* Bars of a candle up to t are those of candles up to t's.
LEMMA LabelOrder ==
  ASSUME NEW t \in Nat \ {0}, NEW k \in Nat \ {0}
  PROVE  /\ TF!Label(k) \in Nat \ {0}
         /\ TF!Label(k) <= t <=> k <= CandleOf(t)
         /\ k < CandleOf(t) => k * PerH4 < t
<1>1. PerH4 \in Nat \ {0}
  BY TfmValues
<1> DEFINE K == CandleOf(t)
<1>2. K \in Nat \ {0} /\ TF!Label(K) <= t /\ t <= K * PerH4
  BY CandleBounds
<1> HIDE DEF K
<1>3. TF!Label(k) = PerH4 * (k - 1) + 1 /\ TF!Label(K) = PerH4 * (K - 1) + 1
  BY <1>1, <1>2 DEF TF!Label
<1>4. PerH4 * (k - 1) \in Nat /\ PerH4 * (K - 1) \in Nat /\ PerH4 * K \in Nat /\ PerH4 * k \in Nat
      /\ K * PerH4 = PerH4 * K /\ k * PerH4 = PerH4 * k
  BY <1>1, <1>2
<1>5. k <= K => PerH4 * (k - 1) <= PerH4 * (K - 1)
  BY <1>1, <1>2, ProductOrder
<1>6. K <= k - 1 => PerH4 * K <= PerH4 * (k - 1)
  BY <1>1, <1>2, ProductOrder
<1>7. k <= K - 1 => PerH4 * k <= PerH4 * (K - 1)
  BY <1>1, <1>2, ProductOrder
<1>8. TF!Label(k) <= t <=> k <= K
  BY <1>1, <1>2, <1>3, <1>4, <1>5, <1>6
<1>9. k < K => k * PerH4 < t
  BY <1>1, <1>2, <1>3, <1>4, <1>7
<1> QED BY <1>3, <1>4, <1>8, <1>9 DEF K

\* The number of candles: enough for every bar.
LEMMA CandleCount ==
  ASSUME NEW b \in Seq(TfmCandles), NEW t \in 1..Len(b)
  PROVE  /\ Len(TF!resample_h4_ny(b)) \in Nat
         /\ CandleOf(t) <= Len(TF!resample_h4_ny(b))
         /\ DOMAIN TF!resample_h4_ny(b) = 1..Len(TF!resample_h4_ny(b))
<1> DEFINE n == (Len(b) + PerH4 - 1) \div PerH4
           K == CandleOf(t)
<1>1. PerH4 \in Nat \ {0} /\ Len(b) \in Nat /\ t \in Nat \ {0} /\ t <= Len(b)
  BY TfmValues
<1>2. n \in Nat /\ PerH4 * n <= Len(b) + PerH4 - 1 /\ Len(b) + PerH4 - 1 < PerH4 * n + PerH4
  <2>1. Len(b) + PerH4 - 1 \in Nat
    BY <1>1
  <2> QED BY <1>1, <2>1, Division
<1>3. DOMAIN TF!resample_h4_ny(b) = 1..n
  BY DEF TF!resample_h4_ny
<1>4. Len(TF!resample_h4_ny(b)) = n
  BY <1>2 DEF TF!resample_h4_ny
<1>5. K \in Nat \ {0} /\ TF!Label(K) <= t
  BY <1>1, CandleBounds
<1> HIDE DEF n, K
<1>6. PerH4 * (K - 1) + 1 <= t
  BY <1>1, <1>5 DEF TF!Label
<1>7. n + 1 <= K => PerH4 * n <= PerH4 * (K - 1)
  BY <1>1, <1>2, <1>5, ProductOrder
<1>8. PerH4 * n \in Int /\ PerH4 * (K - 1) \in Int
  BY <1>1, <1>2, <1>5
<1>9. K <= n
  BY <1>1, <1>2, <1>5, <1>6, <1>7, <1>8
<1> QED BY <1>2, <1>3, <1>4, <1>9 DEF n, K

\* causal_map: the candle a bar is part of, whatever bars come after it.
LEMMA CausalMap ==
  ASSUME NEW b \in Seq(TfmCandles), NEW t \in 1..Len(b)
  PROVE  TF!causal_map(b, t) = CandleOf(t)
<1> DEFINE n == Len(TF!resample_h4_ny(b))
           S == {k \in 1..n : TF!Label(k) <= t}
<1>1. n \in Nat /\ CandleOf(t) <= n /\ t \in Nat \ {0}
  BY CandleCount
<1>2. CandleOf(t) \in S
  BY <1>1, CandleBounds
<1>3. \A x \in S : CandleOf(t) >= x
  BY <1>1, <1>2, LabelOrder
<1>4. S \in SUBSET Int
  OBVIOUS
<1> HIDE DEF S
<1>5. TF!Max(S) = CandleOf(t)
  BY <1>2, <1>3, <1>4, GreatestIs
<1> QED BY <1>5 DEF S, TF!causal_map

----------------------------------------------------------------------------
\* Levels

LEMMA TfmEdge ==
  ASSUME NEW c \in TfmCandles, NEW s
  PROVE  TF!Edge(c, s) \in Int
BY TfmCandle DEF TF!Edge

LEMMA BarIsCandle ==
  ASSUME NEW b \in Seq(TfmCandles), NEW t \in 1..Len(b)
  PROVE  b[t] \in TfmCandles
BY ElementOfSeq

\* The bars of a candle that has begun by bar t.
LEMMA CandleSpan ==
  ASSUME NEW b \in Seq(TfmCandles), NEW t \in 1..Len(b), NEW k \in 1..CandleOf(t)
  PROVE  /\ TF!Label(k) \in 1..t /\ TF!Last(k, Len(b)) \in 1..Len(b)
         /\ TF!Label(k) <= TF!Last(k, Len(b))
<1>1. PerH4 \in Nat \ {0} /\ Len(b) \in Nat /\ t \in Nat \ {0} /\ k \in Nat \ {0}
      /\ t <= Len(b) /\ k <= CandleOf(t)
  BY TfmValues, CandleBounds
<1>2. TF!Label(k) \in Nat \ {0} /\ TF!Label(k) <= t
  BY <1>1, LabelOrder
<1>3. TF!Label(k) = PerH4 * (k - 1) + 1 /\ k * PerH4 = PerH4 * (k - 1) + PerH4
  BY <1>1 DEF TF!Label
<1>4. PerH4 * (k - 1) \in Nat
  BY <1>1
<1>5. TF!Label(k) <= k * PerH4 /\ k * PerH4 \in Nat
  BY <1>1, <1>3, <1>4
<1> QED BY <1>1, <1>2, <1>5 DEF TF!Last, TF!Lesser

\* The prices of such a candle are integers.
LEMMA CandlePrices ==
  ASSUME NEW b \in Seq(TfmCandles), NEW t \in 1..Len(b), NEW k \in 1..CandleOf(t)
  PROVE  LET h == TF!resample_h4_ny(b)
         IN  h[k].hi \in Int /\ h[k].lo \in Int /\ h[k].cl \in Int /\ k \in 1..Len(h)
<1> DEFINE span == TF!Label(k)..TF!Last(k, Len(b))
           n == (Len(b) + PerH4 - 1) \div PerH4
<1>1. /\ TF!Label(k) \in 1..t /\ TF!Last(k, Len(b)) \in 1..Len(b)
      /\ TF!Label(k) <= TF!Last(k, Len(b)) /\ Len(b) \in Nat
  BY CandleSpan
<1>2. span \subseteq 1..Len(b) /\ span # {} /\ IsFiniteSet(span)
  <2>1. TF!Label(k) \in Int /\ TF!Last(k, Len(b)) \in Int
    BY <1>1
  <2>2. IsFiniteSet(span)
    BY <2>1, FS_Interval
  <2> QED BY <1>1, <2>2
<1>3. k \in DOMAIN TF!resample_h4_ny(b) /\ k \in 1..Len(TF!resample_h4_ny(b))
  <2> DEFINE N == Len(TF!resample_h4_ny(b))
  <2>1. N \in Nat /\ CandleOf(t) <= N /\ DOMAIN TF!resample_h4_ny(b) = 1..N
    BY CandleCount
  <2>2. CandleOf(t) \in Nat
    BY CandleBounds
  <2> HIDE DEF N
  <2> QED BY <2>1, <2>2 DEF N
<1>4. k \in 1..n
  BY <1>3 DEF TF!resample_h4_ny
<1>5. /\ TF!resample_h4_ny(b)[k].hi = TF!Max({b[j].hi : j \in span})
      /\ TF!resample_h4_ny(b)[k].lo = TF!Min({b[j].lo : j \in span})
      /\ TF!resample_h4_ny(b)[k].cl = b[TF!Last(k, Len(b))].cl
  BY <1>4 DEF TF!resample_h4_ny
<1> HIDE DEF span
<1>6. \A j \in span : b[j] \in TfmCandles
  BY <1>2, BarIsCandle
<1>7. {b[j].hi : j \in span} \in SUBSET Int /\ {b[j].lo : j \in span} \in SUBSET Int
  BY <1>6, TfmCandle
<1>8. /\ {b[j].hi : j \in span} # {} /\ {b[j].lo : j \in span} # {}
      /\ IsFiniteSet({b[j].hi : j \in span}) /\ IsFiniteSet({b[j].lo : j \in span})
  <2>1. ASSUME NEW T, NEW f \in Surjection(span, T) PROVE IsFiniteSet(T)
    BY <1>2, <2>1, FS_Surjection
  <2>2. /\ [j \in span |-> b[j].hi] \in Surjection(span, {b[j].hi : j \in span})
        /\ [j \in span |-> b[j].lo] \in Surjection(span, {b[j].lo : j \in span})
    BY DEF Surjection
  <2> QED BY <1>2, <2>1, <2>2
<1>9. b[TF!Last(k, Len(b))].cl \in Int
  BY <1>1, BarIsCandle, TfmCandle
<1> QED BY <1>3, <1>5, <1>7, <1>8, <1>9, ExtremesExist

\* What build_levels hands out.
LEMMA LevelFacts ==
  ASSUME NEW b \in Seq(TfmCandles), Len(b) <= MaxBars, NEW t \in 1..Len(b), NEW s,
         NEW v \in TF!build_levels(b, t, s)
  PROVE  /\ v \in [price : Int, time : 1..MaxBars]
         /\ tSetting.levels = "swing" => v.time <= t
<1>1. MaxBars \in Nat /\ Right \in Nat /\ Len(b) \in Nat /\ t \in Nat \ {0} /\ t <= Len(b)
  BY TfmValues
<1>2. CASE tSetting.levels = "swing"
  <2>1. v \in TF!swing_levels(b, t, s)
    BY <1>2 DEF TF!build_levels
  <2>2. PICK p \in 1..(t - Right) : v = [price |-> TF!Edge(b[p], s), time |-> p + Right]
    BY <2>1 DEF TF!swing_levels, TF!Nearest
  <2>3. p \in 1..Len(b) /\ p + Right \in 1..MaxBars /\ p + Right <= t
    BY <1>1
  <2>4. TF!Edge(b[p], s) \in Int
    BY <2>3, BarIsCandle, TfmEdge
  <2> QED BY <2>2, <2>3, <2>4
<1>3. CASE tSetting.levels # "swing"
  <2> DEFINE h == TF!resample_h4_ny(b)
  <2>1. v \in TF!h4_candle_levels(b, t, s)
    BY <1>3 DEF TF!build_levels
  <2>2. PICK k \in TF!Greater(1, TF!causal_map(b, t) - Lookback + 1)..TF!causal_map(b, t) :
          v = [price |-> TF!Edge(h[k], s), time |-> TF!Label(k)]
    BY <2>1 DEF TF!h4_candle_levels, TF!Nearest
  <2>3. k \in 1..CandleOf(t)
    <3>1. CandleOf(t) \in Nat /\ Lookback \in Nat
      BY <1>1, CandleBounds, TfmValues
    <3> QED BY <2>2, <3>1, CausalMap DEF TF!Greater
  <2>4. TF!Label(k) \in 1..MaxBars
    BY <1>1, <2>3, CandleSpan
  <2>5. TF!Edge(h[k], s) \in Int
    BY <2>3, CandlePrices DEF TF!Edge
  <2> QED BY <1>3, <2>2, <2>4, <2>5
<1> QED BY <1>2, <1>3

----------------------------------------------------------------------------
\* Trades

\* Where a simulated trade ends: at its stop, at its target, or in the middle of its last
\* bar, which is the bar of its entry or touched neither.
LEMMA TfmEnds ==
  ASSUME tBars \in Seq(TfmCandles), NEW t \in 1..Len(tBars), NEW s, NEW stop, NEW target
  PROVE  LET end == TF!simulate(t, s, stop, target)
         IN  /\ end.out \in t..Len(tBars)
             /\ \/ end.price2 = 2 * stop
                \/ end.price2 = 2 * target
                \/ /\ end.price2 = tBars[end.out].hi + tBars[end.out].lo
                   /\ end.out # t => ~TF!Stopped(end.out, s, stop)
                                     /\ ~TF!OnTarget(end.out, s, target)
<1> DEFINE last == TF!Lesser(t + MaxHold, Len(tBars))
           ends == {j \in (t + 1)..last : TF!Stopped(j, s, stop) \/ TF!OnTarget(j, s, target)}
           end == TF!simulate(t, s, stop, target)
<1>1. Len(tBars) \in Nat /\ MaxHold \in Nat /\ t \in Nat /\ t <= Len(tBars)
  BY TfmValues
<1>2. last \in t..Len(tBars)
  BY <1>1 DEF TF!Lesser
<1>3. end = IF ends = {}
            THEN [out |-> last, why |-> "timeout", price2 |-> tBars[last].hi + tBars[last].lo]
            ELSE IF TF!Stopped(TF!Min(ends), s, stop)
            THEN [out |-> TF!Min(ends), why |-> "stop", price2 |-> 2 * stop]
            ELSE [out |-> TF!Min(ends), why |-> "target", price2 |-> 2 * target]
  BY DEF TF!simulate
<1>4. CASE ends = {}
  <2>1. end.out = last /\ end.price2 = tBars[last].hi + tBars[last].lo
    BY <1>3, <1>4
  <2>2. last # t => last \in (t + 1)..last
    BY <1>1, <1>2
  <2>3. last # t => ~TF!Stopped(last, s, stop) /\ ~TF!OnTarget(last, s, target)
    BY <1>4, <2>2
  <2> HIDE DEF last, end
  <2> QED BY <1>2, <2>1, <2>3 DEF end
<1>5. CASE ends # {}
  <2>1. ends \in SUBSET Int /\ IsFiniteSet(ends)
    <3>1. IsFiniteSet((t + 1)..last)
      <4>1. t + 1 \in Int /\ last \in Int
        BY <1>1, <1>2
      <4> HIDE DEF last
      <4> QED BY <4>1, FS_Interval
    <3>2. ends \in SUBSET ((t + 1)..last)
      OBVIOUS
    <3>3. ends \in SUBSET Int
      BY <3>2
    <3> HIDE DEF ends
    <3> QED BY <3>1, <3>2, <3>3, FS_Subset
  <2>2. TF!Min(ends) \in ends
    <3> HIDE DEF ends
    <3> QED BY <1>5, <2>1, ExtremesExist
  <2>3. TF!Min(ends) \in t..Len(tBars)
    BY <1>1, <1>2, <2>2
  <2>4. end.out = TF!Min(ends) /\ end.price2 \in {2 * stop, 2 * target}
    BY <1>3, <1>5
  <2> QED BY <2>3, <2>4
<1> QED BY <1>4, <1>5

\* A rejection leaves two fifths of the bar between its edge and its close.
LEMMA TfmWick ==
  ASSUME NEW c \in TfmCandles, NEW s \in {-1, 1}, TF!Rejects(c, s, 40)
  PROVE  100 * (s * c.cl - s * TF!Edge(c, s)) >= 40 * (c.hi - c.lo)
<1>1. /\ c.op \in Int /\ c.hi \in Int /\ c.lo \in Int /\ c.cl \in Int
  BY TfmCandle
<1>2. CASE s = 1
  BY <1>1, <1>2 DEF TF!Rejects, TF!Wick, TF!Edge, TF!Lesser
<1>3. CASE s = -1
  BY <1>1, <1>3 DEF TF!Rejects, TF!Wick, TF!Edge, TF!Greater
<1> QED BY <1>2, <1>3

\* The stop lies the buffer beyond the bar and the level.
LEMMA TfmStop ==
  ASSUME NEW c \in TfmCandles, NEW s \in {-1, 1}, NEW v, v.price \in Int
  PROVE  /\ TF!StopFor(c, v, s) \in Int
         /\ s * TF!StopFor(c, v, s) <= s * v.price - TfmBuffer
         /\ s * TF!StopFor(c, v, s) <= s * TF!Edge(c, s) - TfmBuffer
<1>1. TF!Edge(c, s) \in Int /\ TfmBuffer \in Nat
  BY TfmEdge, TfmValues
<1> DEFINE e == TF!Edge(c, s)
<1> HIDE DEF e
<1>2. CASE s = 1
  BY <1>1, <1>2 DEF TF!StopFor, TF!Lesser, e
<1>3. CASE s = -1
  BY <1>1, <1>3 DEF TF!StopFor, TF!Lesser, e
<1> QED BY <1>2, <1>3

\* The middle of a bar, seen from an entry: e is the bar's edge.
LEMMA MiddleOfEntryBar ==
  ASSUME NEW s \in {-1, 1}, NEW hi \in Int, NEW lo \in Int, NEW entry \in Int, NEW stop \in Int,
         NEW e \in Int, e = IF s = 1 THEN lo ELSE hi, lo <= hi,
         s * stop <= s * e, 100 * (s * entry - s * e) >= 40 * (hi - lo)
  PROVE  /\ s * (hi + lo - 2 * entry) >= -2 * (s * (entry - stop))
         /\ s * (hi + lo - 2 * entry) <= 2 * (s * (entry - stop))
<1>1. CASE s = 1
  BY <1>1
<1>2. CASE s = -1
  BY <1>2
<1> QED BY <1>1, <1>2

\* And of a bar that touched neither stop nor target: f is its other end.
LEMMA MiddleOfLastBar ==
  ASSUME NEW s \in {-1, 1}, NEW hi \in Int, NEW lo \in Int, NEW entry \in Int, NEW stop \in Int,
         NEW target \in Int, NEW e \in Int, NEW f \in Int, lo <= hi,
         e = IF s = 1 THEN lo ELSE hi, f = IF s = 1 THEN hi ELSE lo,
         ~(s * e <= s * stop), ~(s * f >= s * target)
  PROVE  /\ s * (hi + lo - 2 * entry) >= -2 * (s * (entry - stop))
         /\ s * (hi + lo - 2 * entry) <= 2 * (s * (target - entry))
<1>1. CASE s = 1
  BY <1>1
<1>2. CASE s = -1
  BY <1>2
<1> QED BY <1>1, <1>2

\* Whatever ends a trade, its gain is within the bracket: in points, doubled.
LEMMA TfmGain ==
  ASSUME tBars \in Seq(TfmCandles), NEW t \in 1..Len(tBars), NEW s \in {-1, 1},
         NEW v, v.price \in Int, TF!Rejects(tBars[t], s, 40),
         s * (tBars[t].cl - TF!StopFor(tBars[t], v, s)) > 0
  PROVE  LET a == TF!Trade(t, s, v)
             risk == s * (a.entry - a.stop)
         IN  /\ a.gain2 \in Int
             /\ a.gain2 >= -2 * risk /\ a.gain2 <= 2 * TfmRR * risk
<1> DEFINE c == tBars[t]
           stop == TF!StopFor(c, v, s)
           entry == c.cl
           d == entry - stop
           target == entry + TfmRR * d
           end == TF!simulate(t, s, stop, target)
<1>1. c \in TfmCandles /\ entry \in Int /\ c.hi \in Int /\ c.lo \in Int /\ c.lo <= c.hi
  <2>1. c \in TfmCandles
    BY BarIsCandle
  <2> QED BY <2>1, TfmCandle
<1>2. stop \in Int /\ s * stop <= s * TF!Edge(c, s) - TfmBuffer
  BY <1>1, TfmStop
<1>3. TfmBuffer \in Nat \ {0} /\ TfmRR \in Nat \ {0}
  BY TfmValues
<1>4. d \in Int /\ s * d > 0 /\ TfmRR * d \in Int
  BY <1>1, <1>2, <1>3
<1>5. s * (TfmRR * d) >= s * d /\ 2 * TfmRR * (s * d) = 2 * (s * (TfmRR * d))
  <2> HIDE DEF d
  <2>1. CASE s = 1
    <3>1. d * 1 <= d * TfmRR
      BY <1>3, <1>4, <2>1, ProductOrder
    <3> QED BY <1>3, <1>4, <2>1, <3>1
  <2>2. CASE s = -1
    <3>1. -d \in Nat
      BY <1>4, <2>2
    <3>2. (-d) * 1 <= (-d) * TfmRR
      BY <1>3, <3>1, ProductOrder
    <3>3. (-d) * TfmRR = -(TfmRR * d) /\ 2 * TfmRR * (-d) = 2 * (-(TfmRR * d))
      BY <1>3, <1>4
    <3> QED BY <1>3, <1>4, <2>2, <3>2, <3>3
  <2> QED BY <2>1, <2>2
<1>6. /\ TF!Trade(t, s, v).gain2 = s * (end.price2 - 2 * entry)
      /\ TF!Trade(t, s, v).entry = entry /\ TF!Trade(t, s, v).stop = stop
  BY DEF TF!Trade
<1> DEFINE G == /\ s * (end.price2 - 2 * entry) \in Int
                /\ s * (end.price2 - 2 * entry) >= -2 * (s * d)
                /\ s * (end.price2 - 2 * entry) <= 2 * TfmRR * (s * d)
<1>7. target \in Int /\ target = entry + TfmRR * d
  BY <1>1, <1>4
<1>8. /\ end.out \in t..Len(tBars)
      /\ \/ end.price2 = 2 * stop
         \/ end.price2 = 2 * target
         \/ /\ end.price2 = tBars[end.out].hi + tBars[end.out].lo
            /\ end.out # t => ~TF!Stopped(end.out, s, stop) /\ ~TF!OnTarget(end.out, s, target)
  BY TfmEnds
<1> HIDE DEF end, target, stop
<1>9. ASSUME end.price2 = 2 * stop PROVE G
  <2>1. s * (end.price2 - 2 * entry) = -2 * (s * d)
    BY <1>1, <1>2, <1>9
  <2> QED BY <1>4, <1>5, <2>1
<1>10. ASSUME end.price2 = 2 * target PROVE G
  <2>1. s * (end.price2 - 2 * entry) = 2 * (s * (TfmRR * d))
    <3> DEFINE x == TfmRR * d
    <3>1. x \in Int /\ end.price2 - 2 * entry = 2 * x
      <4>1. x \in Int /\ target = entry + x
        BY <1>4, <1>7
      <4> HIDE DEF x, d
      <4> QED BY <1>1, <1>10, <4>1
    <3>2. s * (2 * x) = 2 * (s * x)
      <4> HIDE DEF x
      <4> QED BY <3>1
    <3> HIDE DEF d
    <3> QED BY <3>1, <3>2
  <2> QED BY <1>4, <1>5, <2>1
<1>11. ASSUME end.price2 = tBars[end.out].hi + tBars[end.out].lo, end.out = t
       PROVE  G
  <2>1. end.price2 = c.hi + c.lo
    BY <1>11
  <2>2. 100 * (s * entry - s * TF!Edge(c, s)) >= 40 * (c.hi - c.lo)
    BY <1>1, TfmWick
  <2>3. TF!Edge(c, s) \in Int /\ TF!Edge(c, s) = IF s = 1 THEN c.lo ELSE c.hi
    BY <1>1 DEF TF!Edge
  <2>4. s * stop <= s * TF!Edge(c, s)
    BY <1>2, <1>3, <2>3
  <2>5. /\ s * (c.hi + c.lo - 2 * entry) >= -2 * (s * d)
        /\ s * (c.hi + c.lo - 2 * entry) <= 2 * (s * d)
    <3> HIDE DEF c, entry
    <3> QED BY <1>1, <1>2, <2>2, <2>3, <2>4, MiddleOfEntryBar
  <2>6. s * (c.hi + c.lo - 2 * entry) \in Int
    BY <1>1
  <2> HIDE DEF c, d, entry
  <2>7. s * d \in Int /\ s * (TfmRR * d) \in Int
    BY <1>4
  <2>8. s * (c.hi + c.lo - 2 * entry) <= 2 * TfmRR * (s * d)
    BY <1>5, <2>5, <2>6, <2>7
  <2>9. s * (end.price2 - 2 * entry) = s * (c.hi + c.lo - 2 * entry)
    BY <1>1, <2>1
  <2> QED BY <2>5, <2>6, <2>8, <2>9
<1>12. ASSUME end.price2 = tBars[end.out].hi + tBars[end.out].lo, end.out # t
       PROVE  G
  <2> DEFINE z == tBars[end.out]
  <2>1. end.out \in 1..Len(tBars)
    <3>1. Len(tBars) \in Nat
      OBVIOUS
    <3> QED BY <1>8, <3>1
  <2>2. z \in TfmCandles /\ z.hi \in Int /\ z.lo \in Int /\ z.lo <= z.hi
    <3>1. z \in TfmCandles
      BY <2>1, BarIsCandle
    <3> QED BY <3>1, TfmCandle
  <2>3. (~TF!Stopped(end.out, s, stop) /\ ~TF!OnTarget(end.out, s, target))
        \/ end.price2 = 2 * stop \/ end.price2 = 2 * target
    BY <1>8, <1>12
  <2>4. CASE end.price2 = 2 * stop
    BY <1>9, <2>4
  <2>5. CASE end.price2 = 2 * target
    BY <1>10, <2>5
  <2>6. CASE ~TF!Stopped(end.out, s, stop) /\ ~TF!OnTarget(end.out, s, target)
    <3>1. ~(s * TF!Edge(z, s) <= s * stop) /\ ~(s * TF!Edge(z, -s) >= s * target)
      BY <2>6 DEF TF!Stopped, TF!OnTarget
    <3>2. /\ TF!Edge(z, s) \in Int /\ TF!Edge(z, s) = IF s = 1 THEN z.lo ELSE z.hi
          /\ TF!Edge(z, -s) \in Int /\ TF!Edge(z, -s) = IF s = 1 THEN z.hi ELSE z.lo
      BY <2>2 DEF TF!Edge
    <3>3. end.price2 = z.hi + z.lo
      BY <1>12
    <3> HIDE DEF z
    <3>4. /\ s * (z.hi + z.lo - 2 * entry) >= -2 * (s * d)
          /\ s * (z.hi + z.lo - 2 * entry) <= 2 * (s * (target - entry))
      BY <1>1, <1>2, <1>7, <2>2, <3>1, <3>2, MiddleOfLastBar
    <3>5. target - entry = TfmRR * d
      BY <1>1, <1>4, <1>7
    <3>6. s * (z.hi + z.lo - 2 * entry) \in Int
      BY <1>1, <2>2
    <3> HIDE DEF d, entry, c
    <3>7. s * (z.hi + z.lo - 2 * entry) <= 2 * TfmRR * (s * d)
      BY <1>5, <3>4, <3>5
    <3>8. s * (end.price2 - 2 * entry) = s * (z.hi + z.lo - 2 * entry)
      BY <1>1, <2>2, <3>3
    <3> QED BY <3>4, <3>6, <3>7, <3>8
  <2> QED BY <2>3, <2>4, <2>5, <2>6
<1>13. G
  <2> HIDE DEF G
  <2> QED BY <1>8, <1>9, <1>10, <1>11, <1>12
<1> QED BY <1>6, <1>13 DEF stop

\* A trade: its level lies between stop and entry and was there before it, and its gain is
\* within its bracket.
TfmTrade(a, levels) ==
  /\ a.side * a.stop < a.side * a.level.price
  /\ a.side * a.level.price < a.side * a.entry
  /\ levels = "swing" => a.level.time <= a.at
  /\ LET risk == a.side * (a.entry - a.stop)
     IN  a.gain2 >= -2 * risk /\ a.gain2 <= 2 * TfmRR * risk /\ 2 * Spread < risk

\* What a trade is made of.
Levels == [price : Int, time : 1..MaxBars]
TfmTrades ==
  [side : {-1, 1}, level : Levels, at : 1..MaxBars, entry : Int, stop : Int, out : 1..MaxBars,
   why : {"stop", "target", "timeout"}, gain2 : Int]

\* A level that a trade was opened from is marked, and the replay is past the trade.
TfmInv ==
  /\ tSetting \in TF!Settings
  /\ tBars \in Seq(TfmCandles) /\ Len(tBars) <= MaxBars
  /\ tBar \in 0..(MaxBars + 1)
  /\ tUsed \subseteq {-1, 1} \X (1..MaxBars)
  /\ tTrades \in Seq(TfmTrades) /\ Len(tTrades) <= Cardinality(tUsed)
  /\ \A n \in 1..Len(tTrades) :
       LET a == tTrades[n]
       IN  TfmTrade(a, tSetting.levels) /\ <<a.side, a.level.time>> \in tUsed /\ a.out < tBar
  /\ \A m, n \in 1..Len(tTrades) :
       m < n => /\ <<tTrades[m].side, tTrades[m].level.time>>
                     # <<tTrades[n].side, tTrades[n].level.time>>
                /\ tTrades[m].out < tTrades[n].at

LEMMA TfmInit == Init => TfmInv
<1> SUFFICES ASSUME Init PROVE TfmInv
  OBVIOUS
<1>1. /\ tSetting \in TF!Settings /\ tBars = <<>> /\ tBar = 0 /\ tUsed = {} /\ tTrades = <<>>
  BY DEF Init, TF!Init
<1>2. tBars \in Seq(TfmCandles) /\ Len(tBars) = 0 /\ tTrades \in Seq(TfmTrades) /\ Len(tTrades) = 0
  BY <1>1
<1>3. Cardinality(tUsed) = 0
  BY <1>1, FS_EmptySet
<1> QED BY <1>1, <1>2, <1>3, TfmValues DEF TfmInv

\* What a setup is made of.
LEMMA TfmSetup ==
  ASSUME TfmInv, NEW t \in 1..Len(tBars), NEW u \in TF!Setups(t)
  PROVE  /\ u.side \in {-1, 1} /\ u.level \in Levels
         /\ <<u.side, u.level.time>> \notin tUsed
         /\ TF!Rejects(tBars[t], u.side, 40)
         /\ u.side * tBars[t].cl > u.side * u.level.price
         /\ u.side * (tBars[t].cl - TF!StopFor(tBars[t], u.level, u.side)) > 2 * Spread
         /\ tSetting.levels = "swing" => u.level.time <= t
<1> DEFINE s == TF!Bias(tBars, t)
<1>1. PICK x \in {s} \cap {-1, 1}, v \in TF!build_levels(tBars, t, s) :
        /\ u = [side |-> x, level |-> v]
        /\ <<s, v.time>> \notin tUsed
        /\ TF!Rejects(tBars[t], s, 40) /\ s * tBars[t].cl > s * v.price
        /\ s * (tBars[t].cl - TF!StopFor(tBars[t], v, s)) > 2 * Spread
  BY DEF TF!Setups
<1>2. u.side = s /\ s \in {-1, 1} /\ u.level = v
  BY <1>1
<1>3. v \in Levels /\ (tSetting.levels = "swing" => v.time <= t)
  BY LevelFacts DEF TfmInv, Levels
<1> HIDE DEF s
<1> QED BY <1>1, <1>2, <1>3

\* The trade of a setup.
LEMMA TfmOpened ==
  ASSUME TfmInv, NEW t \in 1..Len(tBars), NEW u \in TF!Setups(t)
  PROVE  LET a == TF!Trade(t, u.side, u.level)
         IN  /\ a \in TfmTrades /\ TfmTrade(a, tSetting.levels)
             /\ a.side = u.side /\ a.level = u.level /\ a.at = t /\ a.out \in t..Len(tBars)
<1> DEFINE s == u.side
           v == u.level
           c == tBars[t]
           stop == TF!StopFor(c, v, s)
           a == TF!Trade(t, s, v)
           end == TF!simulate(t, s, stop, c.cl + TfmRR * (c.cl - stop))
<1>1. /\ s \in {-1, 1} /\ v \in Levels /\ TF!Rejects(c, s, 40) /\ s * c.cl > s * v.price
      /\ s * (c.cl - stop) > 2 * Spread
      /\ tSetting.levels = "swing" => v.time <= t
  BY TfmSetup
<1>2. v.price \in Int
  BY <1>1 DEF Levels
<1>3. tBars \in Seq(TfmCandles) /\ Len(tBars) <= MaxBars /\ Len(tBars) \in Nat /\ MaxBars \in Nat
  BY TfmValues DEF TfmInv
<1>4. c \in TfmCandles /\ c.cl \in Int
  <2>1. c \in TfmCandles
    BY <1>3, BarIsCandle
  <2> QED BY <2>1, TfmCandle
<1>5. TfmBuffer \in Nat \ {0} /\ Spread \in Nat
  BY TfmValues
<1>6. stop \in Int /\ s * stop <= s * v.price - TfmBuffer
  BY <1>1, <1>2, <1>4, TfmStop
<1>7. a = [side |-> s, level |-> v, at |-> t, entry |-> c.cl, stop |-> stop, out |-> end.out,
           why |-> end.why, gain2 |-> s * (end.price2 - 2 * c.cl)]
  BY DEF TF!Trade
<1>8. end.out \in t..Len(tBars)
  BY <1>3, TfmEnds
<1>9. end.why \in {"stop", "target", "timeout"}
  BY DEF TF!simulate
<1>10. /\ a.side = s /\ a.level = v /\ a.at = t /\ a.entry = c.cl /\ a.stop = stop
       /\ a.out = end.out /\ a.why = end.why
  BY <1>7
<1>11. s * (c.cl - stop) > 0
  <2> HIDE DEF stop, c, s
  <2> QED BY <1>1, <1>4, <1>5, <1>6
<1>12. a.gain2 \in Int /\ a.gain2 >= -2 * (s * (a.entry - a.stop))
       /\ a.gain2 <= 2 * TfmRR * (s * (a.entry - a.stop))
  BY <1>1, <1>2, <1>3, <1>11, TfmGain
<1>13. a \in TfmTrades
  <2>1. t \in 1..MaxBars /\ end.out \in 1..MaxBars
    BY <1>3, <1>8
  <2>2. a = [side |-> s, level |-> v, at |-> t, entry |-> c.cl, stop |-> stop, out |-> end.out,
             why |-> end.why, gain2 |-> a.gain2]
    BY <1>7
  <2> HIDE DEF a, end, stop, c
  <2> QED BY <1>1, <1>4, <1>6, <1>9, <1>12, <2>1, <2>2 DEF TfmTrades
<1>14. s * stop < s * v.price
  <2> HIDE DEF stop
  <2> QED BY <1>1, <1>2, <1>5, <1>6
<1>15. TfmTrade(a, tSetting.levels)
  <2> HIDE DEF a, stop, end
  <2> QED BY <1>1, <1>10, <1>12, <1>14 DEF TfmTrade
<1> QED BY <1>8, <1>10, <1>13, <1>15

\* The replay takes a setup.
LEMMA TfmEnterStep ==
  ASSUME TfmInv, TF!Enter
  PROVE  TfmInv'
<1>1. PICK u \in TF!Setups(tBar) :
        LET tr == TF!Trade(tBar, u.side, u.level)
        IN  /\ tTrades' = Append(tTrades, tr)
            /\ tUsed' = tUsed \cup {<<u.side, u.level.time>>}
            /\ tBar' = tr.out + 1
  BY DEF TF!Enter
<1>2. tBar \in 1..Len(tBars) /\ tSetting' = tSetting /\ tBars' = tBars
  BY DEF TF!Enter
<1> DEFINE tr == TF!Trade(tBar, u.side, u.level)
           N == Len(tTrades)
<1>3. /\ u.side \in {-1, 1} /\ u.level \in Levels /\ <<u.side, u.level.time>> \notin tUsed
  BY <1>2, TfmSetup
<1>4. /\ tr \in TfmTrades /\ TfmTrade(tr, tSetting.levels)
      /\ tr.side = u.side /\ tr.level = u.level /\ tr.at = tBar /\ tr.out \in tBar..Len(tBars)
  BY <1>2, TfmOpened
<1> HIDE DEF tr
<1>5. tTrades \in Seq(TfmTrades) /\ N \in Nat
  BY DEF TfmInv
<1>6. /\ tTrades' \in Seq(TfmTrades) /\ Len(tTrades') = N + 1
      /\ \A n \in 1..N : tTrades'[n] = tTrades[n]
      /\ tTrades'[N + 1] = tr
  BY <1>1, <1>4, <1>5, AppendProperties DEF tr
<1>7. Len(tTrades') <= Cardinality(tUsed')
  <2>1. IsFiniteSet({-1, 1} \X (1..MaxBars))
    <3>1. IsFiniteSet({-1, 1})
      <4>1. IsFiniteSet({-1})
        BY FS_Singleton
      <4>2. {-1, 1} = {-1} \cup {1}
        OBVIOUS
      <4> QED BY <4>1, <4>2, FS_AddElement
    <3>2. IsFiniteSet(1..MaxBars)
      BY TfmValues, FS_Interval
    <3> QED BY <3>1, <3>2, FS_Product
  <2>2. IsFiniteSet(tUsed)
    BY <2>1, FS_Subset DEF TfmInv
  <2>3. Cardinality(tUsed') = Cardinality(tUsed) + 1 /\ Cardinality(tUsed) \in Nat
    BY <1>1, <1>3, <2>2, FS_AddElement, FS_CardinalityType
  <2> QED BY <1>5, <1>6, <2>3 DEF TfmInv
<1>8. tUsed' \subseteq {-1, 1} \X (1..MaxBars)
  BY <1>1, <1>3 DEF TfmInv, Levels
<1>9. tBar' = tr.out + 1 /\ tBar' \in 0..(MaxBars + 1) /\ tBar < tBar'
  <2>1. tBar' = tr.out + 1
    BY <1>1 DEF tr
  <2>2. Len(tBars) <= MaxBars /\ Len(tBars) \in Nat /\ MaxBars \in Nat
    BY TfmValues DEF TfmInv
  <2> QED BY <1>2, <1>4, <2>1, <2>2
<1>10. tSetting'.levels = tSetting.levels
  BY <1>2
<1>11. ASSUME NEW n \in 1..Len(tTrades')
       PROVE  /\ TfmTrade(tTrades'[n], tSetting'.levels)
              /\ <<tTrades'[n].side, tTrades'[n].level.time>> \in tUsed'
              /\ tTrades'[n].out < tBar'
  <2>1. CASE n \in 1..N
    <3>1. tTrades'[n] = tTrades[n] /\ tTrades[n] \in TfmTrades
      BY <1>5, <1>6, <2>1, ElementOfSeq
    <3>2. /\ TfmTrade(tTrades[n], tSetting.levels)
          /\ <<tTrades[n].side, tTrades[n].level.time>> \in tUsed
          /\ tTrades[n].out < tBar
      BY <2>1 DEF TfmInv
    <3>3. tTrades[n].out \in Int /\ tBar \in Int /\ tBar' \in Int
      BY <1>2, <1>9, <3>1 DEF TfmTrades
    <3>4. tTrades[n].out < tBar'
      BY <1>9, <3>2, <3>3
    <3>5. TfmTrade(tTrades'[n], tSetting'.levels)
      BY <1>10, <3>1, <3>2
    <3> QED BY <1>1, <3>1, <3>2, <3>4, <3>5
  <2>2. CASE n = N + 1
    <3>1. tTrades'[n] = tr
      BY <1>6, <2>2
    <3>2. tr.out < tBar'
      BY <1>4, <1>9
    <3>3. TfmTrade(tTrades'[n], tSetting'.levels)
      BY <1>4, <1>10, <3>1
    <3> QED BY <1>1, <1>4, <3>1, <3>2, <3>3
  <2> QED BY <1>5, <1>6, <2>1, <2>2
<1>12. ASSUME NEW m \in 1..Len(tTrades'), NEW n \in 1..Len(tTrades'), m < n
       PROVE  /\ <<tTrades'[m].side, tTrades'[m].level.time>>
                   # <<tTrades'[n].side, tTrades'[n].level.time>>
              /\ tTrades'[m].out < tTrades'[n].at
  <2>1. m \in 1..N /\ tTrades'[m] = tTrades[m]
    BY <1>5, <1>6, <1>12
  <2>2. CASE n \in 1..N
    <3>1. tTrades'[n] = tTrades[n]
      BY <1>6, <2>2
    <3> QED BY <1>12, <2>1, <2>2, <3>1 DEF TfmInv
  <2>3. CASE n = N + 1
    <3>1. tTrades'[n] = tr
      BY <1>6, <2>3
    <3>2. <<tTrades[m].side, tTrades[m].level.time>> \in tUsed /\ tTrades[m].out < tBar
      BY <2>1 DEF TfmInv
    <3> QED BY <1>3, <1>4, <2>1, <3>1, <3>2
  <2> QED BY <1>5, <1>6, <2>2, <2>3
<1>13. tBars' \in Seq(TfmCandles) /\ Len(tBars') <= MaxBars /\ tSetting' \in TF!Settings
  BY <1>2 DEF TfmInv
<1> QED BY <1>6, <1>7, <1>8, <1>9, <1>11, <1>12, <1>13 DEF TfmInv

LEMMA TfmStep == TfmInv /\ [Next]_vars => TfmInv'
<1> SUFFICES ASSUME TfmInv, [Next]_vars PROVE TfmInv'
  OBVIOUS
<1>1. CASE UNCHANGED tfm
  <2>1. UNCHANGED <<tSetting, tBars, tBar, tUsed, tTrades>>
    BY <1>1 DEF tfm
  <2> QED BY <2>1 DEF TfmInv, TfmTrade
<1>2. CASE TF!Read
  <2>1. PICK c \in TfmCandles : tBars' = Append(tBars, c)
    BY <1>2 DEF TF!Read
  <2>2. UNCHANGED <<tSetting, tBar, tUsed, tTrades>> /\ Len(tBars) < MaxBars
    BY <1>2 DEF TF!Read
  <2>3. tBars' \in Seq(TfmCandles) /\ Len(tBars') <= MaxBars
    BY <2>1, <2>2, TfmValues, AppendProperties DEF TfmInv
  <2> QED BY <2>2, <2>3 DEF TfmInv, TfmTrade
<1>3. CASE TF!run_tfm
  <2>1. UNCHANGED <<tSetting, tBars, tUsed, tTrades>> /\ tBar = 0 /\ tBar' = 2
    BY <1>3 DEF TF!run_tfm
  <2>2. \A n \in 1..Len(tTrades) : tTrades[n].out < tBar'
    <3>1. ASSUME NEW n \in 1..Len(tTrades) PROVE tTrades[n].out < tBar'
      <4>1. tTrades[n] \in TfmTrades /\ tTrades[n].out < 0
        BY <2>1, ElementOfSeq DEF TfmInv
      <4> QED BY <2>1, <4>1 DEF TfmTrades
    <3> QED BY <3>1
  <2>3. tBar' \in 0..(MaxBars + 1)
    BY <2>1, TfmValues
  <2> QED BY <2>1, <2>2, <2>3 DEF TfmInv, TfmTrade
<1>4. CASE TF!Pass
  <2>1. UNCHANGED <<tSetting, tBars, tUsed, tTrades>> /\ tBar \in 1..Len(tBars) /\ tBar' = tBar + 1
    BY <1>4 DEF TF!Pass
  <2>2. \A n \in 1..Len(tTrades) : tTrades[n].out < tBar'
    <3>1. ASSUME NEW n \in 1..Len(tTrades) PROVE tTrades[n].out < tBar'
      <4>1. tTrades[n] \in TfmTrades /\ tTrades[n].out < tBar
        BY <2>1, ElementOfSeq DEF TfmInv
      <4> QED BY <2>1, <4>1 DEF TfmTrades
    <3> QED BY <3>1
  <2>3. tBar' \in 0..(MaxBars + 1)
    BY <2>1, TfmValues DEF TfmInv
  <2> QED BY <2>1, <2>2, <2>3 DEF TfmInv, TfmTrade
<1>5. TF!Next \/ UNCHANGED tfm
  BY DEF Next, vars
<1> QED BY <1>1, <1>2, <1>3, <1>4, <1>5, TfmEnterStep DEF TF!Next

LEMMA TfmAlways == Spec => []TfmInv
BY TfmInit, TfmStep, PTL DEF Spec

\* What the invariant says of the trades.
LEMMA TfmTradesHold ==
  TfmInv => TF!TypeOK /\ TF!LevelsAreTradedOnce /\ TF!TradeStaysInBracket
<1> SUFFICES ASSUME TfmInv PROVE TF!TypeOK /\ TF!LevelsAreTradedOnce /\ TF!TradeStaysInBracket
  OBVIOUS
<1>1. TF!TypeOK
  <2>1. tTrades \in Seq(TfmTrades) /\ Len(tTrades) <= Cardinality(tUsed)
    BY DEF TfmInv
  <2>2. /\ tSetting \in TF!Settings /\ tBars \in Seq(TfmCandles) /\ Len(tBars) <= MaxBars
        /\ tBar \in 0..(MaxBars + 1) /\ tUsed \subseteq {-1, 1} \X (1..MaxBars)
    BY DEF TfmInv
  <2> QED BY <2>1, <2>2, TfmCardinality DEF TF!TypeOK
<1>2. TF!LevelsAreTradedOnce
  BY DEF TfmInv, TfmTrade, TF!LevelsAreTradedOnce
<1>3. TF!TradeStaysInBracket
  BY DEF TfmInv, TfmTrade, TF!TradeStaysInBracket
<1> QED BY <1>1, <1>2, <1>3

----------------------------------------------------------------------------
\* What later bars do not change

\* The first bars of the data.
LEMMA TfmCut ==
  ASSUME NEW b \in Seq(TfmCandles), NEW n \in 0..Len(b)
  PROVE  /\ SubSeq(b, 1, n) \in Seq(TfmCandles) /\ Len(SubSeq(b, 1, n)) = n
         /\ \A j \in 1..n : SubSeq(b, 1, n)[j] = b[j]
<1>1. n \in Nat /\ \A j \in 1..n : b[j] \in TfmCandles
  BY ElementOfSeq
<1>2. /\ SubSeq(b, 1, n) \in Seq(TfmCandles)
      /\ Len(SubSeq(b, 1, n)) = IF 1 <= n THEN n - 1 + 1 ELSE 0
      /\ \A j \in 1..(n - 1 + 1) : SubSeq(b, 1, n)[j] = b[1 + j - 1]
  BY <1>1, SubSeqProperties
<1>3. n - 1 + 1 = n /\ \A j \in 1..n : 1 + j - 1 = j
  BY <1>1
<1> QED BY <1>1, <1>2, <1>3

\* A confirmed pivot is one whatever comes after the bar that confirms it.
LEMMA PivotIsCausal ==
  ASSUME NEW b \in Seq(TfmCandles), NEW t \in 1..Len(b), NEW p \in 1..(t - Right), NEW s
  PROVE  TF!Pivot(b, p, s) <=> TF!Pivot(SubSeq(b, 1, t), p, s)
<1> DEFINE c == SubSeq(b, 1, t)
<1>1. Len(c) = t /\ \A j \in 1..t : c[j] = b[j]
  BY TfmCut
<1>2. Left \in Nat /\ Right \in Nat /\ Len(b) \in Nat /\ p \in Nat /\ p + Right <= t /\ t <= Len(b)
      /\ p \in 1..t /\ t \in Nat
  BY TfmValues
<1>3. c[p] = b[p] /\ p + Right <= Len(b) /\ p + Right <= Len(c)
  BY <1>1, <1>2
<1>4. CASE p - Left >= 1
  <2>1. (p - Left)..(p + Right) \subseteq 1..t
    BY <1>2, <1>4
  <2>2. \A j \in (p - Left)..(p + Right) : c[j] = b[j]
    BY <1>1, <2>1
  <2> HIDE DEF c
  <2> QED BY <1>3, <2>2 DEF c, TF!Pivot
<1>5. CASE ~(p - Left >= 1)
  BY <1>5 DEF TF!Pivot
<1> QED BY <1>4, <1>5

\* So are the swing levels, which are its confirmed pivots.
LEMMA SwingLevelsAreCausal ==
  ASSUME NEW b \in Seq(TfmCandles), NEW t \in 1..Len(b), NEW s
  PROVE  TF!swing_levels(b, t, s) = TF!swing_levels(SubSeq(b, 1, t), t, s)
<1> DEFINE c == SubSeq(b, 1, t)
           P(d) == {q \in 1..(t - Right) : TF!Pivot(d, q, s)
                                           /\ s * TF!Edge(d[q], s) <= s * d[t].cl}
           L(d) == {[price |-> TF!Edge(d[p], s), time |-> p + Right] : p \in P(d)}
<1>1. \A j \in 1..t : c[j] = b[j]
  BY TfmCut
<1>2. 1..(t - Right) \subseteq 1..t /\ t \in 1..t
  BY TfmValues
<1>3. \A q \in 1..(t - Right) : TF!Pivot(b, q, s) <=> TF!Pivot(c, q, s)
  BY PivotIsCausal
<1> HIDE DEF c
<1>4. \A q \in 1..(t - Right) : c[q] = b[q] /\ c[t] = b[t]
  BY <1>1, <1>2
<1>5. P(b) = P(c)
  BY <1>3, <1>4
<1>6. \A p \in P(b) : c[p] = b[p]
  BY <1>4
<1> HIDE DEF P
<1>7. L(b) = L(c)
  BY <1>5, <1>6
<1>8. /\ TF!swing_levels(b, t, s) = TF!Nearest(L(b), s)
      /\ TF!swing_levels(c, t, s) = TF!Nearest(L(c), s)
  BY DEF TF!swing_levels, P
<1> HIDE DEF L
<1> QED BY <1>7, <1>8 DEF c

\* The bars up to the end of the candle that bar t is part of: t is among them, and the
\* candles up to that one are the same in them.
LEMMA WholeCandle ==
  ASSUME NEW b \in Seq(TfmCandles), NEW t \in 1..Len(b),
         NEW w, w = SubSeq(b, 1, TF!Last(CandleOf(t), Len(b)))
  PROVE  /\ w \in Seq(TfmCandles) /\ t \in 1..Len(w) /\ w[t] = b[t]
         /\ \A k \in 1..CandleOf(t) :
              /\ TF!resample_h4_ny(w)[k] = TF!resample_h4_ny(b)[k]
              /\ k \in 1..Len(TF!resample_h4_ny(w)) /\ k \in 1..Len(TF!resample_h4_ny(b))
<1> DEFINE K == CandleOf(t)
           m == TF!Last(K, Len(b))
<1>1. Len(b) \in Nat /\ t \in Nat \ {0} /\ t <= Len(b) /\ PerH4 \in Nat \ {0}
  BY TfmValues
<1>2. K \in Nat \ {0} /\ t <= K * PerH4 /\ K * PerH4 \in Nat
  BY <1>1, CandleBounds
<1>3. m \in Nat /\ t <= m /\ m <= Len(b) /\ (m = K * PerH4 \/ (m = Len(b) /\ Len(b) <= K * PerH4))
  BY <1>1, <1>2 DEF TF!Last, TF!Lesser
<1> HIDE DEF m
<1>4. w \in Seq(TfmCandles) /\ Len(w) = m /\ \A j \in 1..m : w[j] = b[j]
  BY <1>3, TfmCut DEF m
<1>5. t \in 1..Len(w) /\ w[t] = b[t]
  BY <1>1, <1>3, <1>4
<1>6. ASSUME NEW k \in 1..K
      PROVE  /\ TF!resample_h4_ny(w)[k] = TF!resample_h4_ny(b)[k]
             /\ k \in 1..Len(TF!resample_h4_ny(w)) /\ k \in 1..Len(TF!resample_h4_ny(b))
  <2>1. k \in 1..Len(TF!resample_h4_ny(w)) /\ k \in 1..Len(TF!resample_h4_ny(b))
    BY <1>4, <1>5, CandlePrices
  <2>2. k * PerH4 \in Nat /\ (k < K => k * PerH4 < t)
    BY <1>1, <1>2, LabelOrder
  <2>3. TF!Last(k, m) = TF!Last(k, Len(b))
    <3>1. CASE k < K
      BY <1>1, <1>3, <2>2, <3>1 DEF TF!Last, TF!Lesser
    <3>2. CASE k = K
      BY <1>1, <1>2, <1>3, <3>2 DEF TF!Last, TF!Lesser
    <3> QED BY <1>2, <3>1, <3>2
  <2>4. TF!Label(k) \in 1..t /\ TF!Last(k, m) \in 1..m /\ TF!Label(k) <= TF!Last(k, m)
    BY <1>4, <1>5, CandleSpan
  <2> DEFINE span == TF!Label(k)..TF!Last(k, m)
  <2>5. /\ \A j \in span : w[j] = b[j]
        /\ w[TF!Label(k)] = b[TF!Label(k)] /\ w[TF!Last(k, m)] = b[TF!Last(k, m)]
    <3>1. TF!Label(k) \in 1..m /\ span \subseteq 1..m
      BY <1>1, <1>3, <2>4
    <3> QED BY <1>4, <2>4, <3>1
  <2>6. k \in 1..((Len(w) + PerH4 - 1) \div PerH4) /\ k \in 1..((Len(b) + PerH4 - 1) \div PerH4)
    <3>1. DOMAIN TF!resample_h4_ny(w) = 1..((Len(w) + PerH4 - 1) \div PerH4)
          /\ DOMAIN TF!resample_h4_ny(b) = 1..((Len(b) + PerH4 - 1) \div PerH4)
      BY DEF TF!resample_h4_ny
    <3>2. DOMAIN TF!resample_h4_ny(w) = 1..Len(TF!resample_h4_ny(w))
          /\ DOMAIN TF!resample_h4_ny(b) = 1..Len(TF!resample_h4_ny(b))
      BY <1>4, <1>5, CandleCount
    <3> QED BY <2>1, <3>1, <3>2
  <2> DEFINE R(d, l) ==
        [op |-> d[TF!Label(k)].op, hi |-> TF!Max({d[j].hi : j \in TF!Label(k)..l}),
         lo |-> TF!Min({d[j].lo : j \in TF!Label(k)..l}), cl |-> d[l].cl]
  <2>7. TF!resample_h4_ny(w)[k] = R(w, TF!Last(k, m))
    BY <1>4, <2>6 DEF TF!resample_h4_ny
  <2>8. TF!resample_h4_ny(b)[k] = R(b, TF!Last(k, m))
    BY <2>3, <2>6 DEF TF!resample_h4_ny
  <2>9. R(w, TF!Last(k, m)) = R(b, TF!Last(k, m))
    <3>1. /\ {w[j].hi : j \in span} = {b[j].hi : j \in span}
          /\ {w[j].lo : j \in span} = {b[j].lo : j \in span}
      BY <2>5
    <3> QED BY <2>5, <3>1
  <2> QED BY <2>1, <2>7, <2>8, <2>9
<1> QED BY <1>4, <1>5, <1>6

\* The levels of the H4 candles are made of the candles up to that one.
LEMMA H4LevelsAreSettled ==
  ASSUME NEW b \in Seq(TfmCandles), NEW t \in 1..Len(b), NEW s,
         NEW w, w = SubSeq(b, 1, TF!Last(CandleOf(t), Len(b)))
  PROVE  TF!h4_candle_levels(b, t, s) = TF!h4_candle_levels(w, t, s)
<1> DEFINE K == CandleOf(t)
           Q == TF!Greater(1, K - Lookback + 1)..K
           P(h, c) == {q \in Q : TF!Rejects(h[q], s, 33) /\ s * TF!Edge(h[q], s) <= s * c.cl}
           L(h, c) == {[price |-> TF!Edge(h[k], s), time |-> TF!Label(k)] : k \in P(h, c)}
           g == TF!resample_h4_ny(b)
           h == TF!resample_h4_ny(w)
<1>1. /\ w \in Seq(TfmCandles) /\ t \in 1..Len(w) /\ w[t] = b[t]
      /\ \A k \in 1..K : h[k] = g[k]
  BY WholeCandle
<1>2. TF!causal_map(b, t) = K /\ TF!causal_map(w, t) = K
  BY <1>1, CausalMap
<1>3. /\ TF!h4_candle_levels(b, t, s) = TF!Nearest(L(g, b[t]), s)
      /\ TF!h4_candle_levels(w, t, s) = TF!Nearest(L(h, b[t]), s)
  BY <1>1, <1>2 DEF TF!h4_candle_levels
<1>4. Q \subseteq 1..K
  <2>1. K \in Nat /\ Lookback \in Nat
    <3>1. t \in Nat \ {0}
      OBVIOUS
    <3> QED BY <3>1, CandleBounds, TfmValues
  <2> HIDE DEF K
  <2> QED BY <2>1 DEF TF!Greater
<1> HIDE DEF Q, g, h, K
<1>5. \A k \in Q : h[k] = g[k]
  BY <1>1, <1>4
<1>6. P(h, b[t]) = P(g, b[t])
  BY <1>5
<1>7. P(g, b[t]) \subseteq Q
  OBVIOUS
<1> HIDE DEF P
<1>8. L(h, b[t]) = L(g, b[t])
  BY <1>5, <1>6, <1>7
<1> HIDE DEF L
<1> QED BY <1>3, <1>8

\* The baseline looks at the candles up to its own.
LEMMA BaselineIsSettled ==
  ASSUME NEW c, NEW d, NEW k \in Nat \ {0}, \A j \in 1..k : c[j] = d[j]
  PROVE  TF!Baseline(c, k) = TF!Baseline(d, k)
<1> DEFINE span == TF!Greater(1, k - Context + 1)..k
           ret(e) == [j \in span |-> IF j = 1 THEN 0 ELSE e[j] - e[j - 1]]
<1>1. span \subseteq 1..k
  BY TfmOther DEF TF!Greater
<1>2. ASSUME NEW j \in span PROVE ret(c)[j] = ret(d)[j]
  <2>1. j \in 1..k /\ (j # 1 => j - 1 \in 1..k)
    BY <1>1
  <2>2. c[j] = d[j] /\ (j # 1 => c[j - 1] = d[j - 1])
    BY <2>1
  <2> QED BY <2>2
<1>3. ret(c) = ret(d)
  BY <1>2
<1> HIDE DEF span, ret
<1> DEFINE B(r) ==
      LET m == k + 1 - TF!Greater(1, k - Context + 1)
          sum == TF!SumFunctionOnSet(r, span)
          squares == TF!SumFunctionOnSet([j \in span |-> r[j] * r[j]], span)
          clears == 25 * Horizon * sum * sum > 16 * (m * squares - sum * sum)
      IN  IF m < TF!Greater(2, Context \div 4) THEN 0
          ELSE TF!Gate(sum * Horizon > m * MinMove, sum * Horizon < -m * MinMove,
                       clears /\ sum > 0, clears /\ sum < 0)
<1>4. TF!Baseline(c, k) = B(ret(c)) /\ TF!Baseline(d, k) = B(ret(d))
  BY DEF TF!Baseline, span, ret
<1> HIDE DEF B
<1> QED BY <1>3, <1>4

\* So does the foundation model.
LEMMA FoundationModelIsSettled ==
  ASSUME NEW c, NEW d, NEW k \in Nat \ {0}, \A j \in 1..k : c[j] = d[j] /\ c[j] \in Int
  PROVE  TF!FoundationModel(c, k) = TF!FoundationModel(d, k)
<1>1. Context \in Nat /\ Stride \in Nat \ {0}
  BY TfmOther
<1>2. CASE k <= Context
  BY <1>2 DEF TF!FoundationModel
<1>3. CASE ~(k <= Context)
  <2> DEFINE a == k - 1 - Context
             p == k - (a % Stride)
  <2>1. a \in Nat /\ a % Stride \in 0..a
    <3>1. a \in Nat
      BY <1>1, <1>3
    <3> HIDE DEF a
    <3>2. a % Stride \in Nat /\ a % Stride <= a
      BY <1>1, <3>1
    <3> QED BY <3>1, <3>2
  <2>2. p \in Nat /\ Context + 1 <= p /\ p <= k
    BY <1>1, <2>1
  <2> HIDE DEF p
  <2>3. ASSUME NEW e, \A j \in 1..k : e[j] \in Int
        PROVE  /\ SubSeq(e, p - Context, p - 1) \in Seq(Int)
               /\ Len(SubSeq(e, p - Context, p - 1)) = Context
               /\ \A j \in 1..Context : SubSeq(e, p - Context, p - 1)[j] = e[p - Context + j - 1]
    <3>1. /\ p - Context \in Int /\ p - 1 \in Int /\ p - 1 - (p - Context) + 1 = Context
          /\ (p - Context <= p - 1 <=> Context # 0) /\ (p - Context)..(p - 1) \subseteq 1..k
      BY <1>1, <2>2
    <3>2. \A j \in (p - Context)..(p - 1) : e[j] \in Int
      BY <2>3, <3>1
    <3>3. /\ SubSeq(e, p - Context, p - 1) \in Seq(Int)
          /\ Len(SubSeq(e, p - Context, p - 1))
               = IF p - Context <= p - 1 THEN p - 1 - (p - Context) + 1 ELSE 0
          /\ \A j \in 1..(p - 1 - (p - Context) + 1) :
               SubSeq(e, p - Context, p - 1)[j] = e[p - Context + j - 1]
      BY <3>1, <3>2, SubSeqProperties
    <3> QED BY <3>1, <3>3
  <2>4. SubSeq(c, p - Context, p - 1) = SubSeq(d, p - Context, p - 1)
    <3>1. ASSUME NEW j \in 1..Context PROVE c[p - Context + j - 1] = d[p - Context + j - 1]
      <4>1. p - Context + j - 1 \in 1..k
        BY <1>1, <2>2
      <4> QED BY <4>1
    <3>2. /\ SubSeq(c, p - Context, p - 1) \in Seq(Int)
          /\ SubSeq(d, p - Context, p - 1) \in Seq(Int)
          /\ Len(SubSeq(c, p - Context, p - 1)) = Len(SubSeq(d, p - Context, p - 1))
          /\ Len(SubSeq(c, p - Context, p - 1)) = Context
          /\ \A j \in 1..Context :
               SubSeq(c, p - Context, p - 1)[j] = SubSeq(d, p - Context, p - 1)[j]
      BY <2>3, <3>1
    <3> QED BY <3>2, SeqEqual
  <2>5. c[p] = d[p]
    BY <1>1, <2>2
  <2> DEFINE F(x, y) == LET f == Forecast(x)
                        IN  TF!Gate(f.med > y + MinMove, f.med < y - MinMove, f.lo > y, f.hi < y)
  <2>6. /\ TF!FoundationModel(c, k) = F(SubSeq(c, p - Context, p - 1), c[p])
        /\ TF!FoundationModel(d, k) = F(SubSeq(d, p - Context, p - 1), d[p])
    BY <1>3 DEF TF!FoundationModel, p
  <2> HIDE DEF F
  <2> QED BY <2>4, <2>5, <2>6
<1> QED BY <1>2, <1>3

\* The direction of bar t is made of the candles up to its own.
LEMMA BiasIsSettled ==
  ASSUME NEW b \in Seq(TfmCandles), NEW t \in 1..Len(b),
         NEW w, w = SubSeq(b, 1, TF!Last(CandleOf(t), Len(b)))
  PROVE  TF!Bias(b, t) = TF!Bias(w, t)
<1> DEFINE K == CandleOf(t)
           g == TF!resample_h4_ny(b)
           h == TF!resample_h4_ny(w)
           C(e) == [k \in 1..Len(e) |-> e[k].cl]
<1>1. /\ w \in Seq(TfmCandles) /\ t \in 1..Len(w)
      /\ \A k \in 1..K : h[k] = g[k] /\ k \in 1..Len(h) /\ k \in 1..Len(g)
  BY WholeCandle
<1>2. TF!causal_map(b, t) = K /\ TF!causal_map(w, t) = K
  BY <1>1, CausalMap
<1>3. /\ TF!Bias(b, t) = IF tSetting.forecaster = "baseline" THEN TF!Baseline(C(g), K)
                         ELSE TF!FoundationModel(C(g), K)
      /\ TF!Bias(w, t) = IF tSetting.forecaster = "baseline" THEN TF!Baseline(C(h), K)
                         ELSE TF!FoundationModel(C(h), K)
  BY <1>2 DEF TF!Bias
<1>4. K \in Nat \ {0}
  <2>1. t \in Nat \ {0}
    OBVIOUS
  <2> QED BY <2>1, CandleBounds
<1>5. \A k \in 1..K : C(g)[k] = C(h)[k] /\ C(g)[k] \in Int
  <2>1. \A k \in 1..K : g[k].cl \in Int
    BY CandlePrices
  <2> HIDE DEF g, h, K
  <2> QED BY <1>1, <2>1
<1> HIDE DEF C, K, g, h
<1> QED BY <1>3, <1>4, <1>5, BaselineIsSettled, FoundationModelIsSettled

\* LookAheadIsBounded for the data that was read.
LEMMA TfmLookAheadIsBounded == TfmInv => LookAheadIsBounded
<1> SUFFICES ASSUME TfmInv PROVE LookAheadIsBounded
  OBVIOUS
<1>1. tBars \in Seq(TfmCandles)
  BY DEF TfmInv
<1>2. TF!SwingIsCausal
  BY <1>1, SwingLevelsAreCausal DEF TF!SwingIsCausal, TF!Cut
<1>3. ASSUME NEW t \in 1..Len(tBars)
      PROVE  LET whole == TF!Cut(TF!Last(TF!causal_map(TF!Cut(t), t), Len(tBars)))
             IN  /\ TF!Bias(tBars, t) = TF!Bias(whole, t)
                 /\ \A s \in {-1, 1} :
                      TF!h4_candle_levels(tBars, t, s) = TF!h4_candle_levels(whole, t, s)
  <2>1. TF!Cut(t) \in Seq(TfmCandles) /\ t \in 1..Len(TF!Cut(t))
    BY <1>1, TfmCut DEF TF!Cut
  <2>2. TF!causal_map(TF!Cut(t), t) = CandleOf(t)
    BY <2>1, CausalMap
  <2>3. TF!Cut(TF!Last(CandleOf(t), Len(tBars)))
          = SubSeq(tBars, 1, TF!Last(CandleOf(t), Len(tBars)))
    BY DEF TF!Cut
  <2>4. TF!Bias(tBars, t) = TF!Bias(SubSeq(tBars, 1, TF!Last(CandleOf(t), Len(tBars))), t)
    BY <1>1, BiasIsSettled
  <2>5. \A s \in {-1, 1} :
          TF!h4_candle_levels(tBars, t, s)
            = TF!h4_candle_levels(SubSeq(tBars, 1, TF!Last(CandleOf(t), Len(tBars))), t, s)
    BY <1>1, H4LevelsAreSettled
  <2> QED BY <2>2, <2>3, <2>4, <2>5
<1>4. TF!SettledWithItsCandle
  BY <1>3 DEF TF!SettledWithItsCandle
<1> QED BY <1>2, <1>4 DEF LookAheadIsBounded

----------------------------------------------------------------------------
\* The trend strategies of the gold laboratory

\* The stop of an open trade risks at most what was put at risk.
StopWithinRisk ==
  gSide # 0 /\ gStage \in {"trail", "trade"} => gSide * gStop >= gSide * gEntry - gRisk

\* The last bar that asian_breakout looked at left the stop of its trade alone.
StopLeftAlone == gStage = "trade" => gSide * GT!Worst(gCur, gSide) > gSide * gStop

\* The invariant of the laboratory.
LabInv ==
  /\ GT!TypeOK
  /\ gEntry \in Int /\ gStop \in Int /\ gBox.hi \in Int /\ gBox.lo \in Int
  /\ gStage = "open" => gSide # 0
  /\ StopWithinRisk /\ StopLeftAlone
  /\ GT!LossIsBounded

\* What is assumed of the constants.
LEMMA LabValues == Lookback \in Nat \ {0} /\ MinAsia \in Nat /\ TargetR \in Nat /\ Slip \in Nat
BY GoldAssumption DEF GT!TrendAssumption

LEMMA LabCandle ==
  ASSUME NEW c \in TrendCandles
  PROVE  /\ c.op \in Int /\ c.hi \in Int /\ c.lo \in Int /\ c.cl \in Int
         /\ c.atr \in Nat /\ c.atr > 0 /\ c.ema \in {-1, 0, 1}
         /\ c.lo <= c.op /\ c.op <= c.hi /\ c.lo <= c.cl /\ c.cl <= c.hi
<1>1. c \in {x \in [op : Int, hi : Int, lo : Int, cl : Int, atr : Nat \ {0}, ema : {-1, 0, 1}] :
               /\ x.lo <= x.op /\ x.op <= x.hi
               /\ x.lo <= x.cl /\ x.cl <= x.hi}
  BY GoldAssumption DEF GT!TrendAssumption
<1> QED BY <1>1

\* The parts of a day.
LEMMA LabParts == {GT!Parts[k] : k \in 1..Len(GT!Parts)} = {"asia", "window", "afternoon", "night"}
<1>1. Len(GT!Parts) = 4 /\ GT!Parts[1] = "asia" /\ GT!Parts[2] = "window"
      /\ GT!Parts[3] = "afternoon" /\ GT!Parts[4] = "night"
  BY DEF GT!Parts
<1>2. 1..4 = {1, 2, 3, 4}
  OBVIOUS
<1> QED BY <1>1, <1>2

LEMMA LabInit == Init => LabInv
<1> SUFFICES ASSUME Init PROVE LabInv
  OBVIOUS
<1>1. GT!Init
  BY DEF Init
<1>2. /\ gCur \in TrendCandles /\ gPast = [k \in 1..Lookback |-> gCur]
      /\ gPart = "asia" /\ gSide = 0 /\ gEntry = 0 /\ gStop = 0 /\ gRisk = 0
      /\ gResult = GT!NoResult /\ gStage \in {"trail", "range"}
      /\ gBox = GT!NoBox \/ gBox = [hi |-> gCur.hi, lo |-> gCur.lo, n |-> 1]
  BY <1>1 DEF GT!Init
<1>3. gBox.hi \in Int /\ gBox.lo \in Int
  <2>1. CASE gBox = GT!NoBox
    BY <2>1 DEF GT!NoBox
  <2>2. CASE gBox = [hi |-> gCur.hi, lo |-> gCur.lo, n |-> 1]
    BY <1>2, <2>2, LabCandle
  <2> QED BY <1>2, <2>1, <2>2
<1>4. GT!TypeOK
  BY <1>2, LabParts DEF GT!TypeOK
<1> QED BY <1>2, <1>3, <1>4
    DEF LabInv, StopWithinRisk, StopLeftAlone, GT!LossIsBounded, GT!NoResult

----------------------------------------------------------------------------
\* donchian and ema_cross

\* The channel slides by one bar.
LEMMA LabSlide ==
  ASSUME GT!TypeOK, NEW b \in TrendCandles, GT!Slide(b)
  PROVE  gPast' \in [1..Lookback -> TrendCandles] /\ gCur' \in TrendCandles
<1>1. gPast \in [1..Lookback -> TrendCandles] /\ gCur \in TrendCandles /\ Lookback \in Nat
  BY LabValues DEF GT!TypeOK
<1>2. gPast \in Seq(TrendCandles) /\ Len(gPast) = Lookback
  BY <1>1, SeqDef
<1>3. /\ Append(gPast, gCur) \in Seq(TrendCandles)
      /\ Len(Append(gPast, gCur)) = Lookback + 1
  BY <1>1, <1>2
<1>4. /\ SubSeq(Append(gPast, gCur), 2, Lookback + 1) \in Seq(TrendCandles)
      /\ Len(SubSeq(Append(gPast, gCur), 2, Lookback + 1)) = Lookback
  BY <1>1, <1>3, LabValues
<1>5. gPast' \in Seq(TrendCandles) /\ Len(gPast') = Lookback /\ gCur' = b
  BY <1>4 DEF GT!Slide
<1>6. gPast' \in [1..Len(gPast') -> TrendCandles]
  BY <1>5, LenProperties
<1> QED BY <1>5, <1>6

\* The stop moves with the trade only, and not past the bar it is derived from.
LEMMA LabTrailed ==
  ASSUME LabInv, gSide # 0
  PROVE  GT!Trailed(gCur) \in Int /\ gSide * GT!Trailed(gCur) >= gSide * gStop
<1>1. /\ gSide \in {-1, 1} /\ gStop \in Int /\ gCur \in TrendCandles
  BY DEF LabInv, GT!TypeOK
<1>2. GT!Best(gCur, gSide) \in Int /\ gCur.atr \in Nat
  BY <1>1, LabCandle DEF GT!Best
<1>3. CASE gSide = 1
  BY <1>1, <1>2, <1>3 DEF GT!Trailed, GT!Greater
<1>4. CASE gSide = -1
  BY <1>1, <1>2, <1>4 DEF GT!Trailed, GT!Greater
<1> QED BY <1>1, <1>3, <1>4

LEMMA LabSignal ==
  ASSUME NEW c \in TrendCandles
  PROVE  GT!Signal(c) \in {-1, 0, 1}
BY LabCandle DEF GT!Signal, GT!Donchian

\* A bar of a trailing rule.
LEMMA LabTrailStep ==
  ASSUME LabInv, gStage = "trail", NEW b \in TrendCandles, GT!Trail(b)
  PROVE  LabInv'
<1>1. /\ gCur \in TrendCandles /\ gEntry \in Int /\ gStop \in Int /\ gRisk \in Nat
      /\ gSide \in {-1, 0, 1} /\ Slip \in Nat
      /\ gSide # 0 => gSide * gStop >= gSide * gEntry - gRisk
  BY LabValues DEF LabInv, GT!TypeOK, StopWithinRisk
<1>2. /\ gPast' \in [1..Lookback -> TrendCandles] /\ gCur' \in TrendCandles
      /\ gPart' = gPart /\ gBox' = gBox /\ gStage' = "trail"
  BY LabSlide DEF LabInv, GT!Trail, GT!Slide
<1>3. ASSUME gSide' \in {-1, 0, 1}, gRisk' \in Nat, gEntry' \in Int, gStop' \in Int,
             gSide' # 0 => gSide' * gStop' >= gSide' * gEntry' - gRisk',
             GT!LossIsBounded'
      PROVE  LabInv'
  <2>1. GT!TypeOK'
    BY <1>2, <1>3 DEF LabInv, GT!TypeOK
  <2> QED BY <1>2, <1>3, <2>1 DEF LabInv, StopWithinRisk, StopLeftAlone
<1>4. CASE GT!Enter(b)
  <2> DEFINE s == GT!Signal(gCur)
  <2>1. s \in {-1, 1}
    BY <1>1, <1>4, LabSignal DEF GT!Enter
  <2>2. /\ gSide' = s /\ gEntry' = b.op + s * Slip /\ gRisk' = gCur.atr
        /\ gStop' = gEntry' - s * gCur.atr /\ gResult' = GT!NoResult
    BY <1>4 DEF GT!Enter
  <2>3. b.op \in Int /\ gCur.atr \in Nat
    BY <1>1, LabCandle
  <2> HIDE DEF s
  <2>4. gSide' \in {-1, 0, 1} /\ gRisk' \in Nat /\ gEntry' \in Int /\ gStop' \in Int
    BY <1>1, <2>1, <2>2, <2>3
  <2>5. gSide' * gStop' >= gSide' * gEntry' - gRisk'
    <3>1. CASE s = 1
      BY <1>1, <2>2, <2>3, <2>4, <3>1
    <3>2. CASE s = -1
      BY <1>1, <2>2, <2>3, <2>4, <3>2
    <3> QED BY <2>1, <3>1, <3>2
  <2>6. GT!LossIsBounded'
    BY <2>2 DEF GT!LossIsBounded, GT!NoResult
  <2> QED BY <1>3, <2>4, <2>5, <2>6
<1>5. CASE GT!Wait
  BY <1>3, <1>5 DEF GT!Wait, GT!NoTrade, GT!LossIsBounded, GT!NoResult
<1>6. CASE GT!Stopped
  <2>1. /\ gSide' = 0 /\ gEntry' = 0 /\ gStop' = 0 /\ gRisk' = 0 /\ gSide \in {-1, 1}
        /\ gResult' = [why |-> "stop", gain |-> gSide * (GT!Trailed(gCur) - gEntry) - Slip,
                       risk |-> gRisk]
    BY <1>1, <1>6 DEF GT!Stopped, GT!StopHit, GT!NoTrade, GT!Books
  <2>2. GT!Trailed(gCur) \in Int /\ gSide * GT!Trailed(gCur) >= gSide * gStop
    BY <2>1, LabTrailed
  <2>3. gSide * (GT!Trailed(gCur) - gEntry) - Slip >= -gRisk - Slip
    <3>1. CASE gSide = 1
      BY <1>1, <2>2, <3>1
    <3>2. CASE gSide = -1
      BY <1>1, <2>2, <3>2
    <3> QED BY <2>1, <3>1, <3>2
  <2>4. GT!LossIsBounded'
    BY <2>1, <2>3 DEF GT!LossIsBounded
  <2> QED BY <1>3, <2>1, <2>4
<1>7. CASE GT!Crossed
  <2>1. /\ gSide' = 0 /\ gEntry' = 0 /\ gStop' = 0 /\ gRisk' = 0 /\ gSide \in {-1, 1}
        /\ ~(gSide * GT!Worst(gCur, gSide) <= gSide * GT!Trailed(gCur))
        /\ gResult' = [why |-> "cross", gain |-> gSide * (gCur.op - gEntry) - Slip,
                       risk |-> gRisk]
    BY <1>1, <1>7 DEF GT!Crossed, GT!StopHit, GT!NoTrade, GT!Books
  <2>2. GT!Trailed(gCur) \in Int /\ gSide * GT!Trailed(gCur) >= gSide * gStop
    BY <2>1, LabTrailed
  <2>3. gCur.op \in Int /\ gCur.lo \in Int /\ gCur.hi \in Int
        /\ gCur.lo <= gCur.op /\ gCur.op <= gCur.hi
    BY <1>1, LabCandle
  <2>4. gSide * (gCur.op - gEntry) - Slip >= -gRisk - Slip
    <3>1. CASE gSide = 1
      BY <1>1, <2>1, <2>2, <2>3, <3>1 DEF GT!Worst
    <3>2. CASE gSide = -1
      BY <1>1, <2>1, <2>2, <2>3, <3>2 DEF GT!Worst
    <3> QED BY <2>1, <3>1, <3>2
  <2>5. GT!LossIsBounded'
    BY <2>1, <2>4 DEF GT!LossIsBounded
  <2> QED BY <1>3, <2>1, <2>5
<1>8. CASE GT!Held
  <2>1. /\ gSide' = gSide /\ gEntry' = gEntry /\ gRisk' = gRisk /\ gSide \in {-1, 1}
        /\ gStop' = GT!Trailed(gCur) /\ gResult' = GT!NoResult
    BY <1>1, <1>8 DEF GT!Held
  <2>2. GT!Trailed(gCur) \in Int /\ gSide * GT!Trailed(gCur) >= gSide * gStop
    BY <2>1, LabTrailed
  <2>3. gSide' * gStop' >= gSide' * gEntry' - gRisk'
    BY <1>1, <2>1, <2>2
  <2>4. GT!LossIsBounded'
    BY <2>1 DEF GT!LossIsBounded, GT!NoResult
  <2> QED BY <1>1, <1>3, <2>1, <2>2, <2>3, <2>4
<1> QED BY <1>4, <1>5, <1>6, <1>7, <1>8 DEF GT!Trail

\* A trade that is left at the close of the last bar loses no more than its risk.
LEMMA LabClose ==
  ASSUME LabInv, gStage = "trade"
  PROVE  gSide * (gCur.cl - gEntry) >= -gRisk
<1>1. /\ gSide \in {-1, 1} /\ gEntry \in Int /\ gStop \in Int /\ gRisk \in Nat
      /\ gSide * gStop >= gSide * gEntry - gRisk
      /\ gSide * GT!Worst(gCur, gSide) > gSide * gStop
  BY DEF LabInv, GT!TypeOK, StopWithinRisk, StopLeftAlone
<1>2. gCur.cl \in Int /\ gCur.lo \in Int /\ gCur.hi \in Int
      /\ gCur.lo <= gCur.cl /\ gCur.cl <= gCur.hi
  BY LabCandle DEF LabInv, GT!TypeOK
<1>3. CASE gSide = 1
  BY <1>1, <1>2, <1>3 DEF GT!Worst
<1>4. CASE gSide = -1
  BY <1>1, <1>2, <1>4 DEF GT!Worst
<1> QED BY <1>1, <1>3, <1>4

\* The data ends.
LEMMA LabEndStep ==
  ASSUME LabInv, GT!DataEnds
  PROVE  LabInv'
<1>1. /\ gSide' = 0 /\ gEntry' = 0 /\ gStop' = 0 /\ gRisk' = 0 /\ gStage' = "done"
      /\ UNCHANGED <<gPast, gCur, gPart, gBox>>
      /\ gStage \in {"trail", "trade"}
      /\ gResult' = [why |-> IF gStage = "trail" THEN "end" ELSE "close",
                     gain |-> gSide * (gCur.cl - gEntry) - 0, risk |-> gRisk]
  BY DEF GT!DataEnds, GT!NoTrade, GT!Books, GT!market
<1>2. gCur.cl \in Int /\ gEntry \in Int /\ gSide \in {-1, 0, 1} /\ gRisk \in Nat /\ Slip \in Nat
  BY LabCandle, LabValues DEF LabInv, GT!TypeOK
<1>3. GT!LossIsBounded'
  <2>1. CASE gStage = "trail"
    BY <1>1, <2>1 DEF GT!LossIsBounded
  <2>2. CASE gStage = "trade"
    <3>1. gSide * (gCur.cl - gEntry) >= -gRisk
      BY <2>2, LabClose
    <3>2. gSide * (gCur.cl - gEntry) \in Int
      BY <1>2
    <3>3. gSide * (gCur.cl - gEntry) - 0 >= -gRisk - Slip
      BY <1>2, <3>1, <3>2
    <3> QED BY <1>1, <3>3 DEF GT!LossIsBounded
  <2> QED BY <1>1, <2>1, <2>2
<1>4. GT!TypeOK'
  BY <1>1 DEF LabInv, GT!TypeOK
<1> QED BY <1>1, <1>3, <1>4 DEF LabInv, StopWithinRisk, StopLeftAlone

----------------------------------------------------------------------------
\* asian_breakout

\* A bar that does not end a trade left its stop alone; one that does books what the
\* bracket allows.
LEMMA LabSimulated ==
  ASSUME NEW c \in TrendCandles, NEW e \in Int, NEW s \in Int, NEW r \in Nat,
         gSide \in {-1, 1}, gSide * s >= gSide * e - r
  PROVE  LET end == GT!Simulated(c, e, s, r)
         IN  /\ end = GT!NoResult => gSide * GT!Worst(c, gSide) > gSide * s
             /\ end # GT!NoResult => end.gain >= -end.risk - Slip
<1>1. c.lo \in Int /\ c.hi \in Int /\ Slip \in Nat /\ TargetR \in Nat
  BY LabCandle, LabValues
<1>2. GT!Worst(c, gSide) \in Int
  BY <1>1 DEF GT!Worst
<1> DEFINE hits == gSide * GT!Worst(c, gSide) <= gSide * s
<1>3. CASE hits
  <2>1. GT!Simulated(c, e, s, r) = [why |-> "stop", gain |-> gSide * (s - e) - Slip, risk |-> r]
    BY <1>3 DEF GT!Simulated
  <2>2. gSide * (s - e) - Slip >= -r - Slip
    <3>1. CASE gSide = 1
      BY <1>1, <3>1
    <3>2. CASE gSide = -1
      BY <1>1, <3>2
    <3> QED BY <3>1, <3>2
  <2> QED BY <2>1, <2>2 DEF GT!NoResult
<1>4. CASE ~hits
  <2>1. gSide * GT!Worst(c, gSide) > gSide * s
    BY <1>2, <1>4
  <2>2. GT!Simulated(c, e, s, r) \in {[why |-> "target", gain |-> TargetR * r, risk |-> r],
                                      GT!NoResult}
    BY <1>4 DEF GT!Simulated
  <2>3. TargetR * r \in Nat
    BY <1>1
  <2>4. TargetR * r >= -r - Slip
    BY <1>1, <2>3
  <2> QED BY <2>1, <2>2, <2>4
<1> QED BY <1>3, <1>4

\* The stop of a breakout is a price.
LEMMA LabStopOf ==
  ASSUME LabInv, NEW s
  PROVE  GT!StopOf(s) \in Int
<1>1. gBox.hi \in Int /\ gBox.lo \in Int
  BY DEF LabInv
<1> QED BY <1>1 DEF GT!StopOf, GT!Middle

\* The bars of a day of asian_breakout: of the range, ...
LEMMA LabAsiaStep ==
  ASSUME LabInv, NEW b \in TrendCandles, GT!AsiaBar(b), UNCHANGED gPast
  PROVE  LabInv'
<1>1. /\ gStage = "range" /\ gStage' = "range" /\ gPart' = "asia" /\ gCur' = b
      /\ gResult' = GT!NoResult /\ UNCHANGED <<gSide, gEntry, gStop, gRisk>>
      /\ gBox' = IF gBox.n = 0 THEN [hi |-> b.hi, lo |-> b.lo, n |-> 1]
                 ELSE [hi |-> GT!Greater(gBox.hi, b.hi), lo |-> GT!Lesser(gBox.lo, b.lo),
                       n |-> GT!Lesser(MinAsia, gBox.n + 1)]
  BY DEF GT!AsiaBar, GT!Sees, GT!trade
<1>2. gBox'.hi \in {b.hi, gBox.hi} /\ gBox'.lo \in {b.lo, gBox.lo}
  BY <1>1 DEF GT!Greater, GT!Lesser
<1>3. gBox'.hi \in Int /\ gBox'.lo \in Int
  BY <1>2, LabCandle DEF LabInv
<1>4. GT!TypeOK'
  BY <1>1, LabParts DEF LabInv, GT!TypeOK
<1> QED BY <1>1, <1>3, <1>4
    DEF LabInv, StopWithinRisk, StopLeftAlone, GT!LossIsBounded, GT!NoResult

\* ... after it, while nothing is open, ...
LEMMA LabLaterStep ==
  ASSUME LabInv, NEW b \in TrendCandles, NEW p \in {GT!Parts[k] : k \in 1..Len(GT!Parts)},
         GT!LaterBar(b, p), UNCHANGED gPast
  PROVE  LabInv'
<1>1. /\ gStage' \in {"open", "watch", "over"} /\ (gStage' = "open" => gSide' # 0)
      /\ gSide' \in {-1, 0, 1}
      /\ gPart' = p /\ gCur' = b /\ gResult' = GT!NoResult
      /\ UNCHANGED <<gBox, gEntry, gStop, gRisk>>
  BY DEF GT!LaterBar, GT!Sees, GT!Breakout
<1>2. GT!TypeOK'
  BY <1>1 DEF LabInv, GT!TypeOK
<1> QED BY <1>1, <1>2
    DEF LabInv, StopWithinRisk, StopLeftAlone, GT!LossIsBounded, GT!NoResult

\* A step that leaves the day's trade behind, or takes none.
LEMMA LabLeaves ==
  ASSUME LabInv, GT!NoTrade, gStage' \in {"over", "range"},
         gPast' = gPast, gCur' \in TrendCandles,
         gPart' \in {GT!Parts[k] : k \in 1..Len(GT!Parts)},
         gBox'.hi \in Int, gBox'.lo \in Int, GT!LossIsBounded'
  PROVE  LabInv'
<1>1. gSide' = 0 /\ gEntry' = 0 /\ gStop' = 0 /\ gRisk' = 0
  BY DEF GT!NoTrade
<1>2. GT!TypeOK'
  BY <1>1 DEF LabInv, GT!TypeOK
<1> QED BY <1>1, <1>2 DEF LabInv, StopWithinRisk, StopLeftAlone

\* ... the one a trade is entered on, ...
LEMMA LabOpenStep ==
  ASSUME LabInv, NEW b \in TrendCandles, NEW p \in {GT!Parts[k] : k \in 1..Len(GT!Parts)},
         GT!OpenBar(b, p), UNCHANGED gPast
  PROVE  LabInv'
<1> DEFINE e == b.op + gSide * Slip
           s == GT!StopOf(gSide)
           r == GT!Abs(e - s)
           ends == IF p = "night"
                   THEN [why |-> "before", gain |-> gSide * (gCur.cl - e), risk |-> r]
                   ELSE GT!Simulated(b, e, s, r)
<1>1. gSide \in {-1, 1} /\ gPart' = p /\ gCur' = b /\ gBox' = gBox /\ GT!Opens(b, p)
  BY DEF GT!OpenBar, GT!Sees, LabInv, GT!TypeOK
<1>2. e \in Int
  BY <1>1, LabCandle, LabValues
<1>3. s \in Int
  BY LabStopOf
<1>4. r \in Nat /\ e - s <= r /\ s - e <= r
  BY <1>2, <1>3 DEF GT!Abs
<1>5. gSide * s >= gSide * e - r
  <2> HIDE DEF e, s, r
  <2>1. CASE gSide = 1
    BY <1>2, <1>3, <1>4, <2>1
  <2>2. CASE gSide = -1
    BY <1>2, <1>3, <1>4, <2>2
  <2> QED BY <1>1, <2>1, <2>2
<1>6. CASE r = 0 \/ ends # GT!NoResult
  <2>1. /\ GT!NoTrade /\ gStage' = "over" /\ gResult' = IF r = 0 THEN GT!NoResult ELSE ends
    BY <1>1, <1>6 DEF GT!Opens
  <2>2. GT!LossIsBounded'
    <3>1. CASE r = 0
      BY <2>1, <3>1 DEF GT!LossIsBounded, GT!NoResult
    <3>2. CASE r # 0 /\ p = "night"
      BY <2>1, <3>2 DEF GT!LossIsBounded
    <3>3. CASE r # 0 /\ p # "night"
      <4>1. gResult' = GT!Simulated(b, e, s, r) /\ gResult' # GT!NoResult
        BY <1>6, <2>1, <3>3
      <4>2. gResult'.gain >= -gResult'.risk - Slip
        BY <1>1, <1>2, <1>3, <1>4, <1>5, <4>1, LabSimulated
      <4> QED BY <4>2 DEF GT!LossIsBounded
    <3> QED BY <3>1, <3>2, <3>3
  <2> QED BY <1>1, <2>1, <2>2, LabLeaves DEF LabInv
<1>7. CASE ~(r = 0 \/ ends # GT!NoResult)
  <2>1. /\ gEntry' = e /\ gStop' = s /\ gRisk' = r /\ gStage' = "trade"
        /\ gResult' = GT!NoResult /\ gSide' = gSide
    BY <1>1, <1>7 DEF GT!Opens
  <2>2. p # "night"
    BY <1>7 DEF GT!NoResult
  <2>3. gSide * GT!Worst(b, gSide) > gSide * s
    BY <1>1, <1>2, <1>3, <1>4, <1>5, <1>7, <2>2, LabSimulated
  <2>4. r \in Nat /\ r > 0
    BY <1>4, <1>7
  <2>5. GT!TypeOK'
    BY <1>1, <2>1, <2>4 DEF LabInv, GT!TypeOK
  <2>6. GT!LossIsBounded'
    BY <2>1 DEF GT!LossIsBounded, GT!NoResult
  <2>7. StopWithinRisk'
    BY <1>5, <2>1 DEF StopWithinRisk
  <2>8. StopLeftAlone'
    BY <1>1, <2>1, <2>3 DEF StopLeftAlone, GT!Worst
  <2> QED BY <1>1, <1>2, <1>3, <2>1, <2>5, <2>6, <2>7, <2>8 DEF LabInv
<1> QED BY <1>6, <1>7

\* ... those of the trade, ...
LEMMA LabTradeStep ==
  ASSUME LabInv, NEW b \in TrendCandles, NEW p \in {GT!Parts[k] : k \in 1..Len(GT!Parts)},
         GT!TradeBar(b, p), UNCHANGED gPast
  PROVE  LabInv'
<1> DEFINE ends == GT!Simulated(b, gEntry, gStop, gRisk)
<1>1. gStage = "trade" /\ gPart' = p /\ gCur' = b /\ gBox' = gBox
  BY DEF GT!TradeBar, GT!Sees
<1>2. /\ gSide \in {-1, 1} /\ gEntry \in Int /\ gStop \in Int /\ gRisk \in Nat /\ Slip \in Nat
      /\ gSide * gStop >= gSide * gEntry - gRisk
  BY <1>1, LabValues DEF LabInv, GT!TypeOK, StopWithinRisk
<1>3. CASE p = "night"
  <2>1. /\ GT!NoTrade /\ gStage' = "over"
        /\ gResult' = [why |-> "close", gain |-> gSide * (gCur.cl - gEntry) - 0, risk |-> gRisk]
    BY <1>3 DEF GT!TradeBar, GT!Books
  <2>2. gSide * (gCur.cl - gEntry) >= -gRisk /\ gCur.cl \in Int
    BY <1>1, LabClose, LabCandle DEF LabInv, GT!TypeOK
  <2>3. gSide * (gCur.cl - gEntry) \in Int
    BY <1>2, <2>2
  <2>4. gSide * (gCur.cl - gEntry) - 0 >= -gRisk - Slip
    BY <1>2, <2>2, <2>3
  <2>5. GT!LossIsBounded'
    BY <2>1, <2>4 DEF GT!LossIsBounded
  <2> QED BY <1>1, <2>1, <2>5, LabLeaves DEF LabInv
<1>4. CASE p # "night" /\ ends # GT!NoResult
  <2>1. GT!NoTrade /\ gStage' = "over" /\ gResult' = ends
    BY <1>4 DEF GT!TradeBar
  <2>2. GT!LossIsBounded'
    BY <1>2, <1>4, <2>1, LabSimulated DEF GT!LossIsBounded
  <2> QED BY <1>1, <2>1, <2>2, LabLeaves DEF LabInv
<1>5. CASE p # "night" /\ ends = GT!NoResult
  <2>1. /\ gResult' = GT!NoResult /\ gStage' = gStage
        /\ UNCHANGED <<gSide, gEntry, gStop, gRisk>>
    BY <1>5 DEF GT!TradeBar, GT!trade
  <2>2. gSide * GT!Worst(b, gSide) > gSide * gStop
    BY <1>2, <1>5, LabSimulated
  <2>3. GT!TypeOK'
    BY <1>1, <2>1 DEF LabInv, GT!TypeOK
  <2>4. StopLeftAlone'
    BY <1>1, <2>1, <2>2 DEF StopLeftAlone, GT!Worst
  <2>5. StopWithinRisk'
    BY <1>2, <2>1 DEF StopWithinRisk
  <2>6. GT!LossIsBounded'
    BY <2>1 DEF GT!LossIsBounded, GT!NoResult
  <2> QED BY <1>1, <2>1, <2>3, <2>4, <2>5, <2>6 DEF LabInv
<1> QED BY <1>3, <1>4, <1>5

\* ... and the first of the next day.
LEMMA LabDayStep ==
  ASSUME LabInv, NEW b \in TrendCandles, GT!NextDay(b), UNCHANGED gPast
  PROVE  LabInv'
<1>1. /\ gPart' = "asia" /\ gCur' = b /\ gBox' = [hi |-> b.hi, lo |-> b.lo, n |-> 1]
      /\ GT!NoTrade /\ gStage' = "range"
  BY DEF GT!NextDay, GT!Sees
<1>2. gBox'.hi \in Int /\ gBox'.lo \in Int
  BY <1>1, LabCandle
<1>3. GT!LossIsBounded'
  <2>1. CASE gStage = "trade"
    <3>1. gResult' = [why |-> "close", gain |-> gSide * (gCur.cl - gEntry) - 0, risk |-> gRisk]
      BY <2>1 DEF GT!NextDay, GT!Books
    <3>2. /\ gSide * (gCur.cl - gEntry) >= -gRisk /\ gCur.cl \in Int
          /\ gEntry \in Int /\ gSide \in {-1, 0, 1} /\ gRisk \in Nat /\ Slip \in Nat
      BY <2>1, LabClose, LabCandle, LabValues DEF LabInv, GT!TypeOK
    <3>3. gSide * (gCur.cl - gEntry) \in Int
      BY <3>2
    <3>4. gSide * (gCur.cl - gEntry) - 0 >= -gRisk - Slip
      BY <3>2, <3>3
    <3> QED BY <3>1, <3>4 DEF GT!LossIsBounded
  <2>2. CASE gStage # "trade"
    <3>1. gResult'.why \in {"none", "before"}
      BY <2>2 DEF GT!NextDay, GT!NoResult
    <3> QED BY <3>1 DEF GT!LossIsBounded
  <2> QED BY <2>1, <2>2
<1> QED BY <1>1, <1>2, <1>3, LabParts, LabLeaves

LEMMA LabStep == LabInv /\ [Next]_vars => LabInv'
<1> SUFFICES ASSUME LabInv, [Next]_vars PROVE LabInv'
  OBVIOUS
<1>1. CASE UNCHANGED lab
  <2>1. UNCHANGED <<gPast, gCur, gPart, gBox, gSide, gEntry, gStop, gRisk, gStage, gResult>>
    BY <1>1 DEF lab
  <2>2. GT!TypeOK' /\ GT!LossIsBounded'
    BY <2>1 DEF LabInv, GT!TypeOK, GT!LossIsBounded
  <2> QED BY <2>1, <2>2 DEF LabInv, StopWithinRisk, StopLeftAlone, GT!Worst
<1>2. ASSUME NEW b \in TrendCandles, GT!Day(b) PROVE LabInv'
  BY <1>2, LabAsiaStep, LabLaterStep, LabOpenStep, LabTradeStep, LabDayStep DEF GT!Day
<1>3. GT!Next \/ UNCHANGED lab
  BY DEF Next, vars
<1> QED BY <1>1, <1>2, <1>3, LabTrailStep, LabEndStep DEF GT!Next

LEMMA LabAlways == Spec => []LabInv
BY LabInit, LabStep, PTL DEF Spec

\* TrailOnlyTightens, from what a bar does to the stop of a trade that goes on.
LEMMA LabTightens == Spec => GT!TrailOnlyTightens
<1>1. LabInv /\ [Next]_vars =>
        [gStage = "trail" /\ gSide # 0 /\ gSide' = gSide
           => gSide * gStop' >= gSide * gStop]_(GT!vars)
  <2> SUFFICES ASSUME LabInv, [Next]_vars, GT!vars' # GT!vars,
                      gStage = "trail", gSide # 0, gSide' = gSide
               PROVE  gSide * gStop' >= gSide * gStop
    OBVIOUS
  <2>1. GT!Next
    BY DEF Next, vars, lab, GT!vars, GT!market, GT!trade
  <2>2. ~GT!DataEnds
    BY DEF GT!DataEnds, GT!NoTrade
  <2>3. ASSUME NEW b \in TrendCandles, GT!Day(b) PROVE FALSE
    BY <2>3 DEF GT!Day, GT!AsiaBar, GT!LaterBar, GT!OpenBar, GT!TradeBar, GT!NextDay
  <2>4. PICK b \in TrendCandles : GT!Trail(b)
    BY <2>1, <2>2, <2>3 DEF GT!Next
  <2>5. GT!Held
    BY <2>4 DEF GT!Trail, GT!Enter, GT!Wait, GT!Stopped, GT!Crossed, GT!NoTrade
  <2> QED BY <2>5, LabTrailed DEF GT!Held
<1> QED BY <1>1, LabAlways, PTL DEF Spec, GT!TrailOnlyTightens

----------------------------------------------------------------------------
\* The theorems

\* Every backtest stays in its types.
THEOREM TypeCorrect == Spec => []TypeOK
<1>1. CrtInv => CR!TypeOK
  BY DEF CrtInv
<1>2. BlockInv => OB!TypeOK
  BY DEF BlockInv
<1>3. SweepInv => SW!TypeOK
  BY DEF SweepInv
<1>4. LabInv => GT!TypeOK
  BY DEF LabInv
<1>5. TfmInv => TF!TypeOK
  BY TfmTradesHold
<1> QED BY <1>1, <1>2, <1>3, <1>4, <1>5, CrtAlways, BlockAlways, SweepAlways, LabAlways, TfmAlways,
           PTL DEF TypeOK

\* A reference candle of run_crt_backtest opens one trade, and a level of run_tfm opens one,
\* when it is there and from its own side, after the trade before is over.
THEOREM SetupsTradedOnce == Spec => []OneTradePerSetup
<1>1. CrtInv => CR!OneTradePerReference
  <2> SUFFICES ASSUME CrtInv, cEngine = "crt" PROVE cEntries <= 1
    BY DEF CR!OneTradePerReference
  <2> QED BY DEF CrtInv, OnceInv
<1>2. TfmInv => TF!LevelsAreTradedOnce
  BY TfmTradesHold
<1> QED BY <1>1, <1>2, CrtAlways, TfmAlways, PTL DEF OneTradePerSetup

\* Whatever ends a trade (stop, target, a timeout, a crossing, the end of a session), its
\* row stays within the bracket that run_crt_backtest, run_crt_full_backtest, the
\* order-block engines, run_tfm and run_gold_trend opened it with.
THEOREM RowsWithinBrackets == Spec => []TradesStayInBracket
<1>1. CrtInv => CR!RealizedWithinRisk
  BY DEF CrtInv
<1>2. BlockInv => OB!RealizedWithinBracket
  BY DEF BlockInv
<1>3. TfmInv => TF!TradeStaysInBracket
  BY TfmTradesHold
<1>4. LabInv => GT!LossIsBounded
  BY DEF LabInv
<1> QED BY <1>1, <1>2, <1>3, <1>4, CrtAlways, BlockAlways, TfmAlways, LabAlways,
           PTL DEF TradesStayInBracket

\* Bars that come later neither confirm a swing early nor take one back, and the look-ahead of
\* the direction and of the levels of the H4 candles, which is there, ends with the candle a
\* bar is part of, for every forecaster.
THEOREM LookAheadEndsWithTheCandle == Spec => []LookAheadIsBounded
BY TfmAlways, TfmLookAheadIsBounded, PTL

\* A trade opens where its setup said: beyond the wick of the reference, on a block that
\* stands, once for a sweep that is fresh; and a trailing stop never gives way.
THEOREM SetupsAreFollowed == Spec => TradesFollowTheirSetup
BY CrtStopBeyondWick, BlockEntersStanding, SweepTrades, LabTightens DEF TradesFollowTheirSetup
=============================================================================
