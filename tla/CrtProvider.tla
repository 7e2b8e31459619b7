---------------------------- MODULE CrtProvider ----------------------------
(***************************************************************************)
(* CRTSignalProvider of trading-system's backtest: a sweep of one side of  *)
(* the last four-hour candle, a displacement, a shift and a retrace to an  *)
(* order block, looked for again at every bar, and what the orchestrator   *)
(* makes of the two votes it casts.  Prices are whole; the code rounds     *)
(* them to four decimals.                                                  *)
(***************************************************************************)
EXTENDS Consensus, FiniteSetsExt

CONSTANTS
  Candles,   \* bars of 15 minutes: op, hi, lo, cl
  Histories, \* the bars of the four-hour candle the data begins with
  Atrs,      \* values of the average true range
  Vwaps,     \* values of the VWAP, None among them
  MaxBars    \* bars of a four-hour candle

IsCandle(c) ==
  /\ {c.op, c.hi, c.lo, c.cl} \subseteq Nat /\ c.lo < c.hi
  /\ c.op \in c.lo..c.hi /\ c.cl \in c.lo..c.hi

\* None is neither a number nor levels; candles have a body within their range; the average
\* range is at least ten, and no price as low as a tenth of it.
ProviderAssumption ==
  /\ None \notin Int /\ None \notin [entry : Int, stop : Int, targets : Seq(Int)]
  /\ MaxBars \in Nat /\ MaxBars >= 3
  /\ \A c \in Candles : IsCandle(c)
  /\ \A h \in Histories : /\ Len(h) \in 1..MaxBars /\ DOMAIN h = 1..Len(h)
                          /\ \A i \in DOMAIN h : IsCandle(h[i])
  /\ \A a \in Atrs : a \in Nat /\ a >= 10 /\ \A c \in Candles : c.lo > a \div 10
  /\ Vwaps \subseteq (Nat \ {0}) \cup {None}

VARIABLES
  range,  \* the finished four-hour candle, None before there is one
  cur,    \* the bars of the running one
  atr

vars == <<range, cur, atr>>

\* The bar of the extreme and the side it was swept on: "long" after a low.
Gain(d, from, to) == IF d = "long" THEN to - from ELSE from - to
Worst(d, c) == IF d = "long" THEN c.lo ELSE c.hi
Best(d, c)  == IF d = "long" THEN c.hi ELSE c.lo
Near(d, r)  == IF d = "long" THEN r.lo ELSE r.hi
Far(d, r)   == IF d = "long" THEN r.hi ELSE r.lo

\* Mutant: the first bar beyond the range is taken for the extreme.
Bug_Extreme(d, r, s) == Min({i \in DOMAIN s : Gain(d, Near(d, r), Worst(d, s[i])) < 0})

\* The first bar that reached the extreme.
Extreme(d, r, s) ==
  Min({i \in DOMAIN s : \A j \in DOMAIN s : Gain(d, Worst(d, s[i]), Worst(d, s[j])) >= 0})

Swept(d, r, s) == \E i \in DOMAIN s : Gain(d, Near(d, r), Worst(d, s[i])) < 0

NoSetup == [vote |-> "abstain"]

\* Candles of at least one average range the other way after the extreme.
Displacement(d, s, a, si) == {i \in (si + 1)..Len(s) : Gain(d, s[i].op, s[i].cl) >= a}

\* _bullish and _bearish: the entry at the body of the last candle against the
\* move between extreme and displacement, the stop a tenth of the range beyond
\* the extreme, the target on the other side of the range.
Setup(d, r, s, a) ==
  LET si == Extreme(d, r, s)
      last == s[Len(s)]
      disp == Displacement(d, s, a, si)
      fd == Min(disp)
      blocks == {j \in si..(fd - 1) : Gain(d, s[j].op, s[j].cl) < 0}
      entry == s[Max(blocks)].op
      stop == IF d = "long" THEN Worst(d, s[si]) - a \div 10 ELSE Worst(d, s[si]) + a \div 10
      target == Far(d, r)
  IN  IF \/ Gain(d, Near(d, r), last.cl) <= 0
         \/ disp = {}
      THEN NoSetup
      ELSE IF \/ \A i \in fd..Len(s) : Gain(d, Best(d, s[si]), s[i].cl) <= 0
              \/ blocks = {}
      THEN NoSetup
      ELSE IF \/ Gain(d, entry, Worst(d, last)) > 0
              \/ Gain(d, stop, entry) <= 0 \/ Gain(d, entry, target) <= 0
      THEN NoSetup
      ELSE [vote |-> d, levels |-> Levels(entry, stop, <<target>>)]

\* _detect: nothing before the third bar, nothing when both sides are swept.
Detect(r, s, a) ==
  LET sides == {d \in Directions : Swept(d, r, s)}
  IN  IF r = None \/ Len(s) < 3 THEN NoSetup
      ELSE IF Cardinality(sides) # 1 THEN NoSetup
      ELSE Setup(CHOOSE d \in sides : TRUE, r, s, a)

Signal(agent, vote, levels) == [agent |-> agent, vote |-> vote, levels |-> levels]

\* Mutant: the setup speaks through one agent.
Bug_get_signals(r, s, a) ==
  LET setup == Detect(r, s, a)
      two == IF setup = NoSetup THEN <<"abstain", None>> ELSE <<setup.vote, setup.levels>>
  IN  <<Signal("technical", two[1], two[2]), Signal("risk_manager", "abstain", None),
        Signal("macro", "abstain", None), Signal("sentiment", "abstain", None)>>

\* get_signals: the setup speaks through two agents.
get_signals(r, s, a) ==
  LET setup == Detect(r, s, a)
      two == IF setup = NoSetup THEN <<"abstain", None>> ELSE <<setup.vote, setup.levels>>
  IN  <<Signal("technical", two[1], two[2]), Signal("risk_manager", two[1], None),
        Signal("macro", "abstain", None), Signal("sentiment", "abstain", None)>>

\* The snapshot of an asset traded around the clock has no opening range.
Snapshot(vwap) == [close |-> cur[Len(cur)].cl, vwap |-> vwap, atr |-> atr, orbHigh |-> None,
                   orbLow |-> None, res |-> {}, sup |-> {}]

\* What the orchestrator makes of the signals.
Plan(threshold, vwap) ==
  orchestrator_node(get_signals(range, cur, atr), Snapshot(vwap), FALSE, threshold)

Init == range = None /\ cur \in Histories /\ atr \in Atrs

\* A bar closes inside the running four-hour candle.
Bar ==
  /\ range # None /\ Len(cur) < MaxBars
  /\ \E c \in Candles : cur' = Append(cur, c)
  /\ atr' \in Atrs
  /\ UNCHANGED range

\* The first bar of the next four-hour candle closes, and the range is that of
\* the one before it.  The data ends with the second candle.
Roll ==
  /\ range = None
  /\ range' = [hi |-> Max({cur[i].hi : i \in DOMAIN cur}), lo |-> Min({cur[i].lo : i \in DOMAIN cur})]
  /\ \E c \in Candles : cur' = <<c>>
  /\ atr' \in Atrs

Next == Bar \/ Roll

Spec == Init /\ [][Next]_vars

----------------------------------------------------------------------------
TypeOK ==
  /\ Len(cur) \in 1..MaxBars /\ (range # None => range.lo < range.hi)
  /\ Detect(range, cur, atr).vote \in {"long", "short", "abstain"}

Setups == Detect(range, cur, atr)

\* The levels of a signal are untouched when it is given: no bar of the running
\* candle was at the stop or went past the target (the class comment: stop
\* beyond the swept extreme, target at the opposite wall).
LevelsAreUntouched ==
  Setups # NoSetup =>
    LET d == Setups.vote
        k == Setups.levels
    IN  \A i \in DOMAIN cur :
          Gain(d, k.stop, Worst(d, cur[i])) > 0 /\ Gain(d, Best(d, cur[i]), k.targets[1]) >= 0

\* The replay's threshold of two makes a plan of every signal, with its own
\* levels, whichever side of the VWAP the price is on.
SignalBecomesPlan ==
  Setups # NoSetup =>
    \A v \in Vwaps : Plan(2, v).bias = Setups.vote /\ Plan(2, v).levels = Setups.levels

\* The threshold of three of the live run makes one unless the VWAP is against
\* it: both votes come from one setup, and the third has to be the VWAP's.
VwapDecidesAtThree ==
  Setups # NoSetup =>
    \A v \in Vwaps :
      Plan(3, v).bias = "flat" <=> structural_vote(Snapshot(v)) = Opposite(Setups.vote)

\* A new extreme starts the search again: the bar that makes it never signals.
NewExtremeIsSilent ==
  \A d \in Directions :
    range # None /\ Swept(d, range, cur)
      /\ (\A i \in 1..(Len(cur) - 1) : Gain(d, Worst(d, cur[i]), Worst(d, cur[Len(cur)])) < 0) =>
      Setups.vote # d
=============================================================================
