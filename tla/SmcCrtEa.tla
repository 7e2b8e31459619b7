------------------------------ MODULE SmcCrtEa ------------------------------
(***************************************************************************)
(* The MetaTrader 5 expert advisor SMC_CRT_EA_v1.3: the handlers OnInit,   *)
(* OnTick and OnTrade, the memory they keep (the state machine IDLE,       *)
(* TRIGGER_DETECTED, WAITING_ENTRY, IN_POSITION, HALTED), the per-ticket   *)
(* ledger they write to the terminal's global variables, and the broker    *)
(* that fills and closes orders on its own and may refuse any request.     *)
(*                                                                         *)
(* MetaTrader runs the handlers of one expert one after the other, so each *)
(* handler is one action; what the broker does between two calls of a      *)
(* handler shows up as a refused call followed by the broker's own step.   *)
(* Time is the time of the last quote (TimeCurrent), so only a tick or a   *)
(* period without the program moves it.                                    *)
(*                                                                         *)
(* Prices are measured along the direction of the trade in multiples of    *)
(* the initial risk R: the entry is 0, the initial stop -1, break-even 0.  *)
(* Short and long trades are then the same trade.  Volumes are in units of *)
(* the symbol's volume step, which is also the smallest volume.            *)
(***************************************************************************)
EXTENDS Integers, FiniteSets

CONSTANTS
  Ticket,        \* order tickets the broker may hand out
  MaxTime,       \* bound on the clock
  MaxStep,       \* longest gap between two quotes, or of a restart
  DayLen,        \* length of a trading day
  BarLen,        \* length of a bar of the higher time frame
  Cooldown,      \* InpCooldownMinutes
  EntryWindow,   \* InpEntryWindowHours
  RetryGap,      \* the 15 seconds between two entry attempts
  MaxHold,       \* InpMaxHoldHours
  MaxLossPct,    \* InpMaxDailyLossPct
  HardKillPct,   \* InpHardKillDailyPct
  EquityLevel,   \* account equities a quote may find
  FridayTime,    \* times at which IsFridayCloseTime() holds
  Lot,           \* order volumes ComputeLotSize may return
  Target,        \* distances of the profit target from the entry
  Excursion,     \* bids a tick may show, relative to the entry
  Fault,         \* broker requests that may be refused, and "crash"
  Restarts       \* whether the program may be stopped and started again

Request == {"delete", "closeAll", "hold", "final",
            "partial1", "modify1", "partial2", "modify2"}

ASSUME TimeAssumption ==
  /\ {MaxTime, MaxStep, Cooldown, EntryWindow, RetryGap, MaxHold} \subseteq Nat
  /\ DayLen \in Nat \ {0}
  /\ BarLen \in Nat \ {0}
  /\ FridayTime \subseteq Nat

ASSUME MoneyAssumption ==
  /\ MaxLossPct \in Nat
  /\ HardKillPct \in Nat
  /\ MaxLossPct <= HardKillPct
  /\ EquityLevel \subseteq Nat

ASSUME TradeAssumption ==
  /\ Lot \subseteq Nat \ {0}
  /\ Target \subseteq Nat \ {0}
  /\ Excursion \subseteq Int
  /\ Fault \subseteq Request \cup {"crash"}
  /\ Restarts \in BOOLEAN

VARIABLES
  now,            \* TimeCurrent()
  equity,         \* AccountInfoDouble(ACCOUNT_EQUITY) at the last quote
  state,          \* g_State
  setup,          \* g_Setup: the bar that triggered it and its expires_at
  lastBar,        \* g_LastHTFBarTime
  dayStart,       \* g_DayStartTime
  dayEquity,      \* g_DayStartEquity
  cooldownUntil,  \* g_CooldownUntil
  lastAttempt,    \* g_LastEntryAttempt
  gv,             \* the terminal's global variables, by ticket
  book,           \* the broker's orders and positions, by ticket
  tradeEvent      \* an OnTrade event waits to be handled

memory == <<state, setup, lastBar, dayStart, dayEquity, cooldownUntil, lastAttempt>>
vars == <<now, equity, memory, gv, book, tradeEvent>>

TradeState == {"IDLE", "TRIGGER_DETECTED", "WAITING_ENTRY", "IN_POSITION", "HALTED"}

Ledger == [known : BOOLEAN, origLot : Nat, rDist : Nat, partials : 0 .. 2,
           entryTime : Nat, extreme : Int, initialStop : Int]

Trade == [status : {"unused", "pending", "open", "gone"}, bar : Nat, lot : Nat,
          vol : Nat, stop : Int, target : Nat, since : Nat]

\* No global variable exists for the ticket.
NoGV == [known |-> FALSE, origLot |-> 0, rDist |-> 0, partials |-> 0,
         entryTime |-> 0, extreme |-> 0, initialStop |-> 0]

\* The ticket has not been handed out.
NoOrder == [status |-> "unused", bar |-> 0, lot |-> 0, vol |-> 0, stop |-> 0,
            target |-> 0, since |-> 0]

Pending == {k \in Ticket : book[k].status = "pending"}
Open    == {k \in Ticket : book[k].status = "open"}
Live    == Pending \cup Open

Abs(x) == IF x < 0 THEN -x ELSE x
Lesser(x, y) == IF x <= y THEN x ELSE y
Greater(x, y) == IF x >= y THEN x ELSE y

\* The subsets of the tickets S for which a request of this kind succeeds.
Accepted(request, S) == IF request \in Fault THEN SUBSET S ELSE {S}

----------------------------------------------------------------------------
\* Calendar and daily loss

\* Mutant: the operands of the subtraction swapped.
Bug_DayStart(t) == (t % DayLen) - t

GetDayStart(t) == t - (t % DayLen)

\* iTime(_Symbol, g_HTF, 1): number of the last closed bar.
ClosedBar(t) == t \div BarLen

\* ComputeDailyLossPct() >= pct, without the division.
LossAtLeast(pct, start, eq) ==
  /\ start > 0
  /\ eq < start
  /\ 100 * (start - eq) >= pct * start

StartEquity(t, eq) == IF GetDayStart(t) # dayStart THEN eq ELSE dayEquity

HardKill(t, eq) == LossAtLeast(HardKillPct, StartEquity(t, eq), eq)
SoftLoss(t, eq) == LossAtLeast(MaxLossPct, StartEquity(t, eq), eq)

\* Mutant: the soft halt looks at the idle state only.
Bug_CheckedState(t, eq) ==
  IF SoftLoss(t, eq) /\ state = "IDLE" THEN "HALTED" ELSE state

\* g_State after the soft-halt check of OnTick.
CheckedState(t, eq) ==
  IF SoftLoss(t, eq) /\ state # "IN_POSITION" THEN "HALTED" ELSE state

\* What every tick does first: the quote arrives and the day may roll over.
Quote(t, eq) ==
  /\ now' = t
  /\ equity' = eq
  /\ dayStart' = GetDayStart(t)
  /\ dayEquity' = StartEquity(t, eq)

----------------------------------------------------------------------------
\* ManageOpenPosition, for one position b with ledger g

\* floor to the volume step; volumes are in steps
PartialLot1(lot) == lot \div 2
PartialLot2(lot) == (3 * lot) \div 10

\* Mutant: the entry time is written on every tick.
Bug_Tracked(b, g, x, t) ==
  IF g.known /\ g.rDist # 0
    THEN [g EXCEPT !.extreme = Greater(@, x), !.entryTime = t]
    ELSE [known |-> TRUE, origLot |-> b.vol, partials |-> 0,
          rDist |-> IF g.initialStop # 0 THEN Abs(g.initialStop) ELSE Abs(b.stop),
          entryTime |-> t, extreme |-> x, initialStop |-> g.initialStop]

\* The ledger after the initialisation branch and the bid-extreme update.
Tracked(b, g, x, t) ==
  IF g.known /\ g.rDist # 0
    THEN [g EXCEPT !.extreme = Greater(@, x)]
    ELSE [known |-> TRUE, origLot |-> b.vol, partials |-> 0,
          rDist |-> IF g.initialStop # 0 THEN Abs(g.initialStop) ELSE Abs(b.stop),
          entryTime |-> t, extreme |-> x, initialStop |-> g.initialStop]

\* What one pass goes by: the ledger, original_lot (read before the
\* initialisation) and the target.
Pass(b, g, x, t) ==
  [ledger |-> Tracked(b, g, x, t),
   lot    |-> IF g.known THEN g.origLot ELSE b.vol,
   target |-> b.target]

\* What one pass changes: the volume and stop at the broker, the partials told
\* to the ledger, and local_partials (read before the initialisation).
Before(b, g, p) ==
  [vol |-> b.vol, stop |-> b.stop, told |-> p.ledger.partials,
   done |-> IF g.known THEN g.partials ELSE 0]

Hit1(p) == p.ledger.extreme >= Lesser(p.ledger.rDist, p.target)
Hit2(p) == p.ledger.extreme >= Lesser(2 * p.ledger.rDist, p.target)
Hit3(p) == p.ledger.extreme >= p.target

\* Mutant: the ledger's count is not asked before the first partial.
Bug_Fires1(p, w) ==
  Hit1(p) /\ 0 < PartialLot1(p.lot) /\ PartialLot1(p.lot) < w.vol

Fires1(p, w) ==
  w.done < 1 /\ Hit1(p) /\ 0 < PartialLot1(p.lot) /\ PartialLot1(p.lot) < w.vol

\* Mutant: the second partial is not compared with the volume left.
Bug_Fires2(p, w) ==
  w.done < 2 /\ Hit2(p) /\ Hit1(p) /\ 0 < PartialLot2(p.lot)

Fires2(p, w) ==
  /\ w.done < 2
  /\ Hit2(p)
  /\ Hit1(p)
  /\ 0 < PartialLot2(p.lot)
  /\ PartialLot2(p.lot) < w.vol

\* PositionClosePartial, then PositionModify (its result is not looked at).
Taken1(p, w, fail) ==
  [vol |-> w.vol - PartialLot1(p.lot),
   stop |-> IF "modify1" \in fail THEN w.stop ELSE 0,
   told |-> w.told, done |-> w.done]

Taken2(p, w, fail) ==
  [vol |-> w.vol - PartialLot2(p.lot),
   stop |-> IF "modify2" \in fail THEN w.stop ELSE p.ledger.rDist,
   told |-> w.told, done |-> w.done]

Recorded(w, i) == [vol |-> w.vol, stop |-> w.stop, told |-> i, done |-> i]

AfterPartial1(p, w, fail) ==
  IF Fires1(p, w) /\ "partial1" \notin fail
    THEN Recorded(Taken1(p, w, fail), 1)
    ELSE w

\* Mutant: the second partial is not written to the ledger.
Bug_AfterPartial2(p, w, fail) ==
  IF Fires2(p, w) /\ "partial2" \notin fail
    THEN [Recorded(Taken2(p, w, fail), 2) EXCEPT !.told = w.told]
    ELSE w

AfterPartial2(p, w, fail) ==
  IF Fires2(p, w) /\ "partial2" \notin fail
    THEN Recorded(Taken2(p, w, fail), 2)
    ELSE w

Closed(b) == [b EXCEPT !.status = "gone", !.vol = 0]
Scaled(b, w) == [b EXCEPT !.vol = w.vol, !.stop = w.stop]
Told(p, w) == [p.ledger EXCEPT !.partials = w.told]

\* Position and ledger after the whole pass.
Managed(b, g, x, t, fail) ==
  LET p == Pass(b, g, x, t)
      w == AfterPartial2(p, AfterPartial1(p, Before(b, g, p), fail), fail)
  IN  IF t - p.ledger.entryTime > MaxHold
        THEN [b |-> IF "hold" \in fail THEN b ELSE Closed(b), g |-> NoGV]
      ELSE IF Hit3(p) /\ Hit2(p) /\ "final" \notin fail
        THEN [b |-> Closed(b), g |-> NoGV]
      ELSE [b |-> Scaled(b, w), g |-> Told(p, w)]

----------------------------------------------------------------------------
\* OnTick

CloseAllOurPositions ==
  \E closed \in Accepted("closeAll", Open), deleted \in Accepted("delete", Pending) :
    /\ book' = [k \in Ticket |-> IF k \in closed \cup deleted THEN Closed(book[k])
                                                              ELSE book[k]]
    /\ gv' = [k \in Ticket |-> IF k \in Open THEN NoGV ELSE gv[k]]
    /\ tradeEvent' = (tradeEvent \/ closed \cup deleted # {})

TickHardKill(t, eq) ==
  /\ HardKill(t, eq)
  /\ Quote(t, eq)
  /\ CloseAllOurPositions
  /\ state' = "HALTED"
  /\ UNCHANGED <<setup, lastBar, cooldownUntil, lastAttempt>>

TickFridayClose(t, eq) ==
  /\ ~HardKill(t, eq)
  /\ t \in FridayTime
  /\ Quote(t, eq)
  /\ IF Open # {} THEN CloseAllOurPositions ELSE UNCHANGED <<book, gv, tradeEvent>>
  /\ state' = CheckedState(t, eq)
  /\ UNCHANGED <<setup, lastBar, cooldownUntil, lastAttempt>>

TickManage(t, eq) ==
  /\ ~HardKill(t, eq)
  /\ t \notin FridayTime
  /\ Open # {}
  /\ Quote(t, eq)
  /\ state' = "IN_POSITION"
  /\ \E bid \in [Open -> Excursion], fail \in SUBSET (Fault \cap Request) :
       LET after == [k \in Open |-> Managed(book[k], gv[k], bid[k], t, fail)]
       IN  /\ book' = [k \in Ticket |-> IF k \in Open THEN after[k].b ELSE book[k]]
           /\ gv' = [k \in Ticket |-> IF k \in Open THEN after[k].g ELSE gv[k]]
           /\ tradeEvent' = (tradeEvent \/ book' # book)
  /\ UNCHANGED <<setup, lastBar, cooldownUntil, lastAttempt>>

\* Mutant: a bar already seen counts as new.
Bug_NewBar(t, s, attempt) ==
  /\ lastBar' = ClosedBar(t)
  /\ \/ /\ ClosedBar(t) >= lastBar
        /\ s = "IDLE"
        /\ state' = "TRIGGER_DETECTED"
        /\ setup' = [bar |-> ClosedBar(t), expires |-> t + EntryWindow]
        /\ lastAttempt' = 0
     \/ /\ state' = s
        /\ setup' = setup
        /\ lastAttempt' = attempt

\* The new-bar check that ends OnTick, with OnNewHTFBarClose: s is g_State and
\* attempt is g_LastEntryAttempt when it is reached.  Whether the closed bar
\* passes the sweep, strength, session, news and spread filters is a choice.
NewBar(t, s, attempt) ==
  LET fresh == ClosedBar(t) > lastBar
  IN  /\ lastBar' = IF fresh THEN ClosedBar(t) ELSE lastBar
      /\ \/ /\ fresh
            /\ s = "IDLE"
            /\ state' = "TRIGGER_DETECTED"
            /\ setup' = [bar |-> ClosedBar(t), expires |-> t + EntryWindow]
            /\ lastAttempt' = 0
         \/ /\ state' = s
            /\ setup' = setup
            /\ lastAttempt' = attempt

\* g_State and g_CooldownUntil once the tick has found no open position.
FlatState(t, eq) ==
  IF CheckedState(t, eq) = "IN_POSITION" THEN "IDLE" ELSE CheckedState(t, eq)
FlatCooldown(t, eq) ==
  IF CheckedState(t, eq) = "IN_POSITION" THEN t + Cooldown ELSE cooldownUntil

Resting(t, eq) == FlatState(t, eq) = "HALTED" \/ t < FlatCooldown(t, eq)

Flat(t, eq) ==
  /\ ~HardKill(t, eq)
  /\ t \notin FridayTime
  /\ Open = {}
  /\ Quote(t, eq)
  /\ cooldownUntil' = FlatCooldown(t, eq)

TickResting(t, eq) ==
  /\ Flat(t, eq)
  /\ Resting(t, eq)
  /\ state' = FlatState(t, eq)
  /\ UNCHANGED <<setup, lastBar, lastAttempt, gv, book, tradeEvent>>

\* Mutant: the expired order is forgotten, not cancelled.
Bug_TickExpireOrder(t, eq) ==
  /\ Flat(t, eq)
  /\ ~Resting(t, eq)
  /\ FlatState(t, eq) = "WAITING_ENTRY"
  /\ t > setup.expires
  /\ UNCHANGED <<gv, book, tradeEvent>>
  /\ NewBar(t, "IDLE", lastAttempt)

TickExpireOrder(t, eq) ==
  /\ Flat(t, eq)
  /\ ~Resting(t, eq)
  /\ FlatState(t, eq) = "WAITING_ENTRY"
  /\ t > setup.expires
  /\ \E deleted \in Accepted("delete", Pending) :
       /\ book' = [k \in Ticket |-> IF k \in deleted THEN Closed(book[k]) ELSE book[k]]
       /\ tradeEvent' = (tradeEvent \/ deleted # {})
  /\ gv' = gv
  /\ NewBar(t, "IDLE", lastAttempt)

TickExpireTrigger(t, eq) ==
  /\ Flat(t, eq)
  /\ ~Resting(t, eq)
  /\ FlatState(t, eq) = "TRIGGER_DETECTED"
  /\ t > setup.expires
  /\ NewBar(t, "IDLE", lastAttempt)
  /\ UNCHANGED <<gv, book, tradeEvent>>

MayAttempt(t, eq) ==
  /\ ~Resting(t, eq)
  /\ FlatState(t, eq) = "TRIGGER_DETECTED"
  /\ t <= setup.expires
  /\ t - lastAttempt >= RetryGap

\* TryPlaceEntries found a shift and a level and the broker took the order.
TickPlaceOrder(t, eq) ==
  /\ Flat(t, eq)
  /\ MayAttempt(t, eq)
  /\ \E k \in Ticket, lot \in Lot, target \in Target :
       /\ book[k].status = "unused"
       /\ book' = [book EXCEPT ![k] = [status |-> "pending", bar |-> setup.bar,
                                       lot |-> lot, vol |-> lot, stop |-> -1,
                                       target |-> target, since |-> t]]
  /\ tradeEvent' = TRUE
  /\ gv' = gv
  /\ NewBar(t, "WAITING_ENTRY", t)

\* No shift, no level, no lot, or the broker refused: tried again later.
TickRetryLater(t, eq) ==
  /\ Flat(t, eq)
  /\ MayAttempt(t, eq)
  /\ NewBar(t, "TRIGGER_DETECTED", t)
  /\ UNCHANGED <<gv, book, tradeEvent>>

\* Idle, waiting inside the window, or between two attempts.
TickWatch(t, eq) ==
  /\ Flat(t, eq)
  /\ ~Resting(t, eq)
  /\ ~MayAttempt(t, eq)
  /\ FlatState(t, eq) \in {"WAITING_ENTRY", "TRIGGER_DETECTED"} => t <= setup.expires
  /\ NewBar(t, FlatState(t, eq), lastAttempt)
  /\ UNCHANGED <<gv, book, tradeEvent>>

OnTick(t, eq) ==
  \/ TickHardKill(t, eq)
  \/ TickFridayClose(t, eq)
  \/ TickManage(t, eq)
  \/ TickResting(t, eq)
  \/ TickExpireOrder(t, eq)
  \/ TickExpireTrigger(t, eq)
  \/ TickPlaceOrder(t, eq)
  \/ TickRetryLater(t, eq)
  \/ TickWatch(t, eq)

----------------------------------------------------------------------------
\* OnTrade, OnInit and the broker

\* OnTrade records a new position and cancels whatever is still pending.
OnTrade ==
  /\ tradeEvent
  /\ LET fresh == {k \in Open : ~gv[k].known}
     IN  /\ \E bid \in [fresh -> Excursion] :
              gv' = [k \in Ticket |->
                       IF k \notin fresh THEN gv[k]
                       ELSE [known |-> TRUE, origLot |-> book[k].vol,
                             rDist |-> Abs(book[k].stop), partials |-> 0,
                             entryTime |-> now, extreme |-> bid[k],
                             initialStop |-> book[k].stop]]
         /\ \E deleted \in IF fresh = {} THEN {{}} ELSE Accepted("delete", Pending) :
              /\ book' = [k \in Ticket |-> IF k \in deleted THEN Closed(book[k])
                                                             ELSE book[k]]
              /\ tradeEvent' = (deleted # {})
  /\ UNCHANGED <<now, equity, memory>>

\* OnInit at time t.  The broker's book and the terminal's global variables
\* survive.  A program that is loaded anew starts with zeroed globals; one that
\* is only re-initialised (inputs or chart changed) keeps those OnInit leaves alone.
OnInit(t, eq) ==
  /\ now' = t
  /\ equity' = eq
  /\ dayStart' = GetDayStart(t)
  /\ dayEquity' = eq
  /\ \/ /\ setup' = [bar |-> 0, expires |-> 0]
        /\ lastBar' = 0
        /\ cooldownUntil' = 0
        /\ lastAttempt' = 0
     \/ UNCHANGED <<setup, lastBar, cooldownUntil, lastAttempt>>
  /\ tradeEvent' = FALSE

StateOnInit(b) ==
  IF \E k \in Ticket : b[k].status = "open" THEN "IN_POSITION" ELSE "IDLE"

Restart(t, eq) ==
  /\ Restarts
  /\ OnInit(t, eq)
  /\ state' = StateOnInit(book)
  /\ UNCHANGED <<gv, book>>

\* The process dies in ManageOpenPosition after PositionClosePartial and
\* before GVWrite(partials), with or without the new stop, and starts again.
CrashInPartial(t, eq) ==
  /\ "crash" \in Fault
  /\ ~HardKill(t, eq)
  /\ t \notin FridayTime
  /\ \E k \in Open, x \in Excursion, fail \in SUBSET (Fault \cap Request) :
       LET p  == Pass(book[k], gv[k], x, t)
           w0 == Before(book[k], gv[k], p)
           w1 == AfterPartial1(p, w0, fail)
       IN  /\ t - p.ledger.entryTime <= MaxHold
           /\ \/ /\ Fires1(p, w0)
                 /\ book' = [book EXCEPT ![k] = Scaled(@, Taken1(p, w0, fail))]
                 /\ gv' = [gv EXCEPT ![k] = Told(p, w0)]
              \/ /\ Fires2(p, w1)
                 /\ book' = [book EXCEPT ![k] = Scaled(@, Taken2(p, w1, fail))]
                 /\ gv' = [gv EXCEPT ![k] = Told(p, w1)]
  /\ OnInit(t, eq)
  /\ state' = StateOnInit(book')

\* The broker fills a pending order.
Fill(k) ==
  /\ book[k].status = "pending"
  /\ book' = [book EXCEPT ![k].status = "open", ![k].since = now]
  /\ tradeEvent' = TRUE
  /\ UNCHANGED <<now, equity, memory, gv>>

\* The broker closes a position at its stop or its target.
ServerClose(k) ==
  /\ book[k].status = "open"
  /\ book' = [book EXCEPT ![k] = Closed(@)]
  /\ tradeEvent' = TRUE
  /\ UNCHANGED <<now, equity, memory, gv>>

----------------------------------------------------------------------------
Init ==
  /\ now = BarLen
  /\ equity \in EquityLevel
  /\ state = "IDLE"
  /\ setup = [bar |-> 0, expires |-> 0]
  /\ lastBar = 0
  /\ dayStart = GetDayStart(BarLen)
  /\ dayEquity = equity
  /\ cooldownUntil = 0
  /\ lastAttempt = 0
  /\ gv = [k \in Ticket |-> NoGV]
  /\ book = [k \in Ticket |-> NoOrder]
  /\ tradeEvent = FALSE

Next ==
  \/ \E t \in now .. Lesser(now + MaxStep, MaxTime), eq \in EquityLevel :
       \/ OnTick(t, eq)
       \/ Restart(t, eq)
       \/ CrashInPartial(t, eq)
  \/ OnTrade
  \/ \E k \in Ticket : Fill(k) \/ ServerClose(k)

Spec == Init /\ [][Next]_vars

----------------------------------------------------------------------------
\* Properties

\* Every variable has its type: the state machine never leaves its five states
\* (ENUM_TRADE_STATE) and a ledger never counts more than two partials.
TypeOK ==
  /\ now \in Nat
  /\ equity \in EquityLevel
  /\ state \in TradeState
  /\ setup \in [bar : Nat, expires : Nat]
  /\ lastBar \in Nat
  /\ dayStart \in Nat
  /\ dayEquity \in EquityLevel
  /\ cooldownUntil \in Nat
  /\ lastAttempt \in Nat
  /\ gv \in [Ticket -> Ledger]
  /\ book \in [Ticket -> Trade]
  /\ tradeEvent \in BOOLEAN

\* Never two orders or positions at once, although the broker fills orders while
\* the program is halted, closing requests are refused and a halted program
\* leaves its order at the broker.
SingleExposure == Cardinality(Live) <= 1

\* A bar of the higher time frame gives rise to one order at most: the trigger is
\* consumed by g_LastHTFBarTime even when the order expires or its position is
\* stopped out while the bar is still the last closed one.
OneOrderPerTrigger ==
  \A j, k \in Ticket :
    /\ book[j].status # "unused"
    /\ book[k].status # "unused"
    /\ book[j].bar = book[k].bar
    => j = k

\* The program trades one thing at a time, and every trigger once: of the tickets of its
\* magic number one at most is alive, and no two were ever sent for the same bar.
OneTradeAtATime == SingleExposure /\ OneOrderPerTrigger

\* No order is sent on a tick whose daily loss has reached the soft limit, whatever
\* state the loss finds the program in (the halt is skipped while IN_POSITION).
NoOrderUnderDailyLoss ==
  [][\A k \in Ticket : book[k].status = "unused" /\ book'[k].status = "pending"
       => ~LossAtLeast(MaxLossPct, dayEquity', equity')]_vars

\* The ledger in the global variables tells what was really done to the position:
\* the partials it counts, the volume left and the stop in force agree, across
\* refused requests and restarts.
LedgerAgrees(b, g) ==
  LET half == b.lot - PartialLot1(b.lot)
      told == IF g.known THEN g.partials ELSE 0
  IN  /\ told = 0 => b.vol = b.lot /\ b.stop = -1
      /\ told = 1 => b.vol = half /\ b.stop = 0
      /\ told = 2 => /\ b.vol \in {half - PartialLot2(b.lot), b.lot - PartialLot2(b.lot)}
                     /\ b.stop = 1
      /\ g.known => g.rDist = 1 /\ g.origLot = b.lot
LedgerMatchesBroker == \A k \in Open : LedgerAgrees(book[k], gv[k])

\* The stop of a position is only ever tightened, even when the second partial is
\* taken before the first, or one of them or the final close is refused.
StopNeverLoosens ==
  [][\A k \in Open : book'[k].status = "open" => book'[k].stop >= book[k].stop]_vars

\* A partial close never takes the whole position, even when a crash has made the
\* program forget that it took the same partial before.
PartialsLeaveAPosition == \A k \in Open : book[k].vol > 0

\* While the program runs, a position is closed InpMaxHoldHours after the program
\* first saw it; the slack is the gap before that first sight and the last gap.
HoldIsBounded ==
  \A k \in Open : now - book[k].since <= MaxHold + 2 * MaxStep

\* The clock of the holding period never starts again while the position is open:
\* restarts and crashes do not lose it, nor do refused partial closes.
ClockNeverRestarts ==
  [][\A k \in Open : gv[k].known /\ book'[k].status = "open"
       => gv'[k].known /\ gv'[k].entryTime = gv[k].entryTime]_vars

\* No order rests at the broker once its entry window is over.
OrderWithinWindow == \A k \in Pending : now <= setup.expires

\* No order and no position of a running program outlives its time.
NothingOutlivesItsTime == OrderWithinWindow /\ HoldIsBounded

\* One trigger never stands behind two positions at the same time.
OnePositionPerTrigger ==
  \A j, k \in Open : book[j].bar = book[k].bar => j = k

----------------------------------------------------------------------------
\* The trades as TradeContract sees them

StageOf(b) ==
  IF b.status # "open"
    THEN [unused |-> "none", pending |-> "resting", gone |-> "over"][b.status]
  ELSE IF b.vol = b.lot THEN "full"
  ELSE IF b.vol = b.lot - PartialLot1(b.lot) THEN "half"
  ELSE IF b.vol = b.lot - PartialLot2(b.lot) THEN "late"
  ELSE "runner"

Contract == INSTANCE TradeContract WITH stage <- [k \in Ticket |-> StageOf(book[k])]

\* Every step of the program and of the broker is a step of the promised life of a
\* trade: parts are taken in order, once each, and one trade is live at a time.
ImplementsContract == Contract!Spec
=============================================================================
