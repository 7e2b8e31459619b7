------------------------------ MODULE Universe ------------------------------
(***************************************************************************)
(* run_universe_backtest.py of the trading system: bars of every symbol    *)
(* are fetched through a cache on disk, every day the scanner says which   *)
(* symbols are in play, the largest gaps among them are replayed, and the  *)
(* trades are summed up.  The replay of a day is FillSimulator's; here a   *)
(* day brings the results of its trades.                                   *)
(*                                                                         *)
(* The program is run again and again.  Days are published as time goes    *)
(* by, a fetch may fail, and a run may die while it writes a file.         *)
(***************************************************************************)
EXTENDS Integers, Sequences, FiniteSets, SequencesExt

CONSTANTS
  Files,         \* universe files: sequences of symbols and of "comment"
  Markets,       \* what is published: symbol -> days, [op, cl, range, vol, rs] or Closed
  Closed,        \* a day without bars of the symbol
  Start, End,    \* first and last day of the backtest; the days before are history
  MinGap,        \* in percent
  MinRvol, MinAtr, MinPrevDays,
  MaxPerDay,
  MinTrades, MinSymbols   \* of the kill criterion

VARIABLES
  file,      \* the universe file
  market,
  now,       \* days published
  cache,     \* symbol -> [kind, days]: a file with the first days, a torn one, or none
  phase,     \* idle, fetch, days
  at,        \* position in the universe, or the day
  loaded,    \* symbol -> days in its frame, 0 when it has none
  trades,    \* [day, symbol, r]
  last       \* the run before: its frames and trades

vars == <<file, market, now, cache, phase, at, loaded, trades, last>>

Lines == UNION {{f[k] : k \in DOMAIN f} : f \in Files}
Symbols == Lines \ {"comment"}

\* Every symbol has a day or none, and trades with results, on every day of the market.
UniverseAssumption ==
  /\ {Start, End, MaxPerDay} \subseteq Nat /\ 0 < Start /\ Start <= End
  /\ Files # {} /\ \A f \in Files : f \in Seq(Lines)
  /\ \A m \in Markets, s \in Symbols :
       /\ m[s] \in Seq(Range(m[s])) /\ Len(m[s]) = End
       /\ \A d \in 1..End :
            m[s][d] # Closed => /\ m[s][d].op \in Nat /\ m[s][d].cl \in Nat \ {0}
                                /\ m[s][d].rs \in Seq(Int)

NoFile == [kind |-> "none", days |-> 0]
Nothing == [s \in Symbols |-> 0]

\* The members of S in an order: the k-th has k - 1 ahead of it.
InOrder(S, ahead(_, _)) ==
  [k \in 1..Cardinality(S) |-> CHOOSE x \in S : Cardinality({y \in S : ahead(y, x)}) = k - 1]

\* The lines that name a symbol for the first time.
Firsts(f) == {k \in DOMAIN f : f[k] # "comment" /\ \A j \in 1..(k - 1) : f[j] # f[k]}

\* Symbols in the order of the file, each once.
load_universe(f) ==
  LET order == InOrder(Firsts(f), <)
  IN  [k \in 1..Cardinality(Firsts(f)) |-> f[order[k]]]

----------------------------------------------------------------------------
\* The scanner, on frames f

\* Mutant: the other days of the frame are its history.
Bug_Before(f, s, d) == {k \in DOMAIN f[s] \ {d} : f[s][k] # Closed}

\* prev_bars: the days before, without an end.
Before(f, s, d) == {k \in DOMAIN f[s] : k < d /\ f[s][k] # Closed}

LastBefore(f, s, d) == f[s][Max(Before(f, s, d))]

Move(f, s, d) ==
  LET move == f[s][d].op - LastBefore(f, s, d).cl IN IF move < 0 THEN -move ELSE move

\* Rounded to hundredths of a percent, as the ranking sees it.
gap_pct(f, s, d) ==
  LET pc == LastBefore(f, s, d).cl IN (20000 * Move(f, s, d) + pc) \div (2 * pc)

Volume(f, s, d) == SumFunction([k \in Before(f, s, d) |-> f[s][k].vol])

\* The gap, the volume of the opening against its mean over all days before, and the
\* range of the day before.
is_in_play(f, s, d) ==
  LET days == Cardinality(Before(f, s, d))
  IN  /\ d \in DOMAIN f[s] /\ f[s][d] # Closed
      /\ days > 0 /\ 100 * Move(f, s, d) >= MinGap * LastBefore(f, s, d).cl
      /\ days >= MinPrevDays /\ Volume(f, s, d) > 0
      /\ f[s][d].vol * days >= MinRvol * Volume(f, s, d)
      /\ LastBefore(f, s, d).range >= MinAtr

InPlay(f, d) == {s \in DOMAIN f : is_in_play(f, s, d)}

Position(u, s) == CHOOSE k \in Firsts(u) : u[k] = s

\* The sort is stable: of equal gaps the first in the universe u.
Ahead(u, gap, a, b) ==
  gap[a] > gap[b] \/ (gap[a] = gap[b] /\ Position(u, a) < Position(u, b))

day_symbols(u, f, d) ==
  LET gap == [s \in InPlay(f, d) |-> gap_pct(f, s, d)]
      all == InOrder(DOMAIN gap, LAMBDA a, b : Ahead(u, gap, a, b))
  IN  SubSeq(all, 1, IF Len(all) < MaxPerDay THEN Len(all) ELSE MaxPerDay)

\* What was loaded of the market m.
Frames(m, days) == [s \in {x \in Symbols : days[x] > 0} |-> SubSeq(m[s], 1, days[s])]

\* The replay of a day gives the trades the market has in store for it.
day_trades(u, m, days, d) ==
  LET chosen == day_symbols(u, Frames(m, days), d)
      of(s)  == [k \in DOMAIN m[s][d].rs |-> [day |-> d, symbol |-> s, r |-> m[s][d].rs[k]]]
  IN  FlattenSeq([k \in DOMAIN chosen |-> of(chosen[k])])

----------------------------------------------------------------------------
\* The cache

DayPasses ==
  /\ now < End
  /\ now' = now + 1
  /\ UNCHANGED <<file, market, cache, phase, at, loaded, trades, last>>

Begin ==
  /\ phase = "idle"
  /\ phase' = "fetch" /\ at' = 1 /\ loaded' = Nothing /\ trades' = <<>>
  /\ UNCHANGED <<file, market, now, cache, last>>

Fetching(s) == phase = "fetch" /\ at <= Len(load_universe(file)) /\ s = load_universe(file)[at]

\* A frame without bars is left out.
Frame(s, n) == loaded' = [loaded EXCEPT ![s] = IF \A k \in 1..n : market[s][k] = Closed THEN 0 ELSE n]

\* Mutant: what is published by now, whatever the file holds.
Bug_Known(s) == now

Known(s) == cache[s].days

CacheHit(s) ==
  /\ Fetching(s) /\ cache[s].kind = "bars"
  /\ Frame(s, Known(s)) /\ at' = at + 1
  /\ UNCHANGED <<file, market, now, cache, phase, trades, last>>

\* pickle refuses what a run left half written; the symbol is left out.
CacheTorn(s) ==
  /\ Fetching(s) /\ cache[s].kind = "torn"
  /\ at' = at + 1
  /\ UNCHANGED <<file, market, now, cache, phase, loaded, trades, last>>

CacheMiss(s) ==
  /\ Fetching(s) /\ cache[s].kind = "none"
  /\ cache' = [cache EXCEPT ![s] = [kind |-> "bars", days |-> now]]
  /\ Frame(s, now) /\ at' = at + 1
  /\ UNCHANGED <<file, market, now, phase, trades, last>>

\* The adapter raises before there is a file.
FetchError(s) ==
  /\ Fetching(s) /\ cache[s].kind = "none"
  /\ at' = at + 1
  /\ UNCHANGED <<file, market, now, cache, phase, loaded, trades, last>>

DiesWriting(s) ==
  /\ Fetching(s) /\ cache[s].kind = "none"
  /\ cache' = [cache EXCEPT ![s] = [kind |-> "torn", days |-> 0]]
  /\ phase' = "idle" /\ at' = 0 /\ loaded' = Nothing
  /\ UNCHANGED <<file, market, now, trades, last>>

----------------------------------------------------------------------------
\* The days

Fetched ==
  /\ phase = "fetch" /\ at > Len(load_universe(file))
  /\ phase' = "days" /\ at' = Start
  /\ UNCHANGED <<file, market, now, cache, loaded, trades, last>>

ReplayDay ==
  /\ phase = "days" /\ at <= End
  /\ trades' = trades \o day_trades(file, market, loaded, at)
  /\ at' = at + 1
  /\ UNCHANGED <<file, market, now, cache, phase, loaded, last>>

\* What a trade makes of the curve: the sum of the results, its peak, and the deepest it was
\* below it.
Traded(w, r) ==
  LET cum  == w.cum + r
      peak == IF cum > w.peak THEN cum ELSE w.peak
  IN  [cum |-> cum, peak |-> peak, mdd |-> IF cum - peak < w.mdd THEN cum - peak ELSE w.mdd]

Curve(rs) ==
  LET curve[k \in 0..Len(rs)] ==
        IF k = 0 THEN [cum |-> 0, peak |-> 0, mdd |-> 0] ELSE Traded(curve[k - 1], rs[k])
  IN  curve

max_drawdown(rs) == Curve(rs)[Len(rs)]

Results == [k \in DOMAIN trades |-> trades[k].r]

\* The summary; what is called the kill criterion asks for enough trades only.
summary ==
  [n |-> Len(trades), symbols |-> Cardinality({trades[k].symbol : k \in DOMAIN trades}),
   wins |-> Len(SelectSeq(Results, LAMBDA r : r > 0)),
   total |-> max_drawdown(Results).cum, mdd |-> max_drawdown(Results).mdd]

kill_criterion_met == summary.n >= MinTrades /\ summary.symbols >= MinSymbols

Report ==
  /\ phase = "days" /\ at > End
  /\ last' = [frames |-> loaded, trades |-> trades, kill |-> kill_criterion_met]
  /\ phase' = "idle" /\ at' = 0 /\ loaded' = Nothing /\ trades' = <<>>
  /\ UNCHANGED <<file, market, now, cache>>

----------------------------------------------------------------------------
Init ==
  /\ file \in Files /\ market \in Markets
  /\ now \in (Start - 1)..End
  /\ cache = [s \in Symbols |-> NoFile]
  /\ phase = "idle" /\ at = 0 /\ loaded = Nothing /\ trades = <<>>
  /\ last = [frames |-> Nothing, trades |-> <<>>, kill |-> FALSE]

Next ==
  \/ DayPasses \/ Begin \/ Fetched \/ ReplayDay \/ Report
  \/ \E s \in Symbols :
       CacheHit(s) \/ CacheTorn(s) \/ CacheMiss(s) \/ FetchError(s) \/ DiesWriting(s)

Spec == Init /\ [][Next]_vars

----------------------------------------------------------------------------
\* Properties

\* The program stays in its ranges, and a frame is never longer than its file
\* (get_bars_cached, main).
TypeOK ==
  /\ now \in (Start - 1)..End /\ phase \in {"idle", "fetch", "days"}
  /\ at \in 0..((IF phase = "fetch" THEN Len(load_universe(file)) ELSE End) + 1)
  /\ \A s \in Symbols :
       /\ cache[s].kind \in {"none", "torn", "bars"} /\ cache[s].days <= now
       /\ loaded[s] \in {0, cache[s].days}

\* Two runs that load the same symbols trade the same, whatever was published or died
\* in between: what is cached once is what all later runs see (get_bars_cached).
RunsRepeat ==
  LET of(f) == {s \in Symbols : f[s] > 0}
  IN  phase = "days" /\ at > End /\ of(last.frames) = of(loaded) => last.trades = trades

\* Which symbols a day trades is settled by the bars up to that day (main, is_in_play).
ScanIsCausal ==
  LET seen    == Frames(market, loaded)
      upto(d) == [s \in DOMAIN seen |-> SubSeq(seen[s], 1, IF d < loaded[s] THEN d ELSE loaded[s])]
  IN  phase = "days" =>
        \A d \in Start..End : day_symbols(file, seen, d) = day_symbols(file, upto(d), d)

\* The drawdown that is reported is the deepest fall between any two points of the
\* curve (main, ReplayReport.summary).
DrawdownIsDeepest ==
  LET curve == Curve(Results)
      falls == {curve[p[2]].cum - curve[p[1]].cum :
                  p \in {q \in (0..Len(trades)) \X (0..Len(trades)) : q[1] <= q[2]}}
  IN  summary.mdd = Min(falls)
=============================================================================
