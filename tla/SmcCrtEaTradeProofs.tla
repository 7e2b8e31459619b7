------------------------ MODULE SmcCrtEaTradeProofs ------------------------
(***************************************************************************)
(* The life of the orders and positions of SmcCrtEa, for every value of    *)
(* its constants: one trade at a time, no trigger traded twice, nothing    *)
(* outlives its time, and the stages TradeContract announces.              *)
(***************************************************************************)
EXTENDS SmcCrtEaProofs, FiniteSetTheorems

----------------------------------------------------------------------------
\* One trade at a time

\* What is assumed of the environment: the program is not restarted and its
\* requests to delete an order are not refused.
Orderly == ~Restarts /\ Fault \cap {"delete", "crash"} = {}

Quiet == {"IDLE", "TRIGGER_DETECTED", "IN_POSITION"}

\* The inductive invariant.  In a quiet state no order rests at the broker, and a
\* trigger is younger than every order sent so far.
OneLive == \A j, k \in Live : j = k
NoneRests == state \in Quiet => Pending = {}
BarsAreUsed ==
  /\ setup.bar <= lastBar
  /\ \A k \in Ticket : book[k].status # "unused" =>
       /\ book[k].bar <= lastBar
       /\ state = "TRIGGER_DETECTED" => book[k].bar < setup.bar
TradeInv == OneLive /\ NoneRests /\ BarsAreUsed /\ OneOrderPerTrigger

\* A trade moves towards its end: it is neither sent nor filled.
Fades(b, c) ==
  /\ c.bar = b.bar
  /\ c.status = "unused" <=> b.status = "unused"
  /\ c.status = "pending" => b.status = "pending"
  /\ c.status = "open" => b.status = "open"

Fading == \A k \in Ticket : Fades(book[k], book'[k])

\* Closing a trade that was sent is a step towards its end.
LEMMA ClosedFades ==
  ASSUME NEW b \in Trade, b.status # "unused"
  PROVE  Fades(b, Closed(b))
BY DEF Trade, Closed, Fades

\* So is one pass of ManageOpenPosition.
LEMMA ManagedFades ==
  ASSUME NEW b \in Trade, NEW g, NEW x, NEW t, NEW fail, b.status = "open"
  PROVE  Fades(b, Managed(b, g, x, t, fail).b)
<1> DEFINE p == Pass(b, g, x, t)
           w == AfterPartial2(p, AfterPartial1(p, Before(b, g, p), fail), fail)
           m == Managed(b, g, x, t, fail)
<1>1. m.b \in {b, Closed(b), Scaled(b, w)}  BY DEF Managed
<1>2. Fades(b, Closed(b))  BY ClosedFades
<1> HIDE DEF w
<1>3. Fades(b, Scaled(b, w))  BY DEF Scaled, Trade, Fades
<1>4. Fades(b, b)  BY DEF Fades
<1> HIDE DEF m
<1>5. Fades(b, m.b)  BY <1>1, <1>2, <1>3, <1>4
<1> QED  BY <1>5 DEF m

\* A book that is closed in parts fades.
LEMMA ClosingFades ==
  ASSUME TypeOK, NEW S \in SUBSET Live,
         book' = [k \in Ticket |-> IF k \in S THEN Closed(book[k]) ELSE book[k]]
  PROVE  Fading
<1>1. ASSUME NEW k \in Ticket PROVE Fades(book[k], book'[k])
  <2>1. book[k] \in Trade  BY DEF TypeOK
  <2>2. k \in S => book[k].status # "unused"  BY DEF Live, Open, Pending
  <2>3. Fades(book[k], book[k])  BY DEF Fades
  <2> QED  BY <2>1, <2>2, <2>3, ClosedFades
<1> QED  BY <1>1 DEF Fading

\* Every branch of OnTick but the one that sends an order lets the trades fade.
LEMMA OnTickFades ==
  ASSUME TypeOK, NEW t, NEW eq, OnTick(t, eq), ~TickPlaceOrder(t, eq)
  PROVE  Fading
<1>1. CASE book' = book
  BY <1>1 DEF Fading, Fades
<1>2. CASE CloseAllOurPositions
  <2>1. PICK closed \in Accepted("closeAll", Open), deleted \in Accepted("delete", Pending) :
          book' = [k \in Ticket |-> IF k \in closed \cup deleted THEN Closed(book[k])
                                                                 ELSE book[k]]
    BY <1>2 DEF CloseAllOurPositions
  <2>2. closed \cup deleted \in SUBSET Live  BY DEF Accepted, Live
  <2> QED  BY <2>1, <2>2, ClosingFades
<1>3. CASE TickManage(t, eq)
  <2>1. PICK bid \in [Open -> Excursion], fail \in SUBSET (Fault \cap Request) :
          book' = [k \in Ticket |->
                     IF k \in Open THEN Managed(book[k], gv[k], bid[k], t, fail).b
                                   ELSE book[k]]
    BY <1>3 DEF TickManage
  <2>2. ASSUME NEW k \in Ticket PROVE Fades(book[k], book'[k])
    <3>1. book[k] \in Trade  BY DEF TypeOK
    <3>2. k \in Open => book[k].status = "open"  BY DEF Open
    <3>3. Fades(book[k], book[k])  BY DEF Fades
    <3> QED  BY <2>1, <3>1, <3>2, <3>3, ManagedFades
  <2> QED  BY <2>2 DEF Fading
<1>4. CASE TickExpireOrder(t, eq)
  <2>1. PICK deleted \in Accepted("delete", Pending) :
          book' = [k \in Ticket |-> IF k \in deleted THEN Closed(book[k]) ELSE book[k]]
    BY <1>4 DEF TickExpireOrder
  <2>2. deleted \in SUBSET Live  BY DEF Accepted, Live
  <2> QED  BY <2>1, <2>2, ClosingFades
<1> QED  BY <1>1, <1>2, <1>3, <1>4
         DEF OnTick, TickHardKill, TickFridayClose, TickResting, TickExpireTrigger,
             TickRetryLater, TickWatch

\* OnTrade and the broker's closing let the trades fade, too.
LEMMA BrokerFades ==
  ASSUME TypeOK, OnTrade \/ \E k \in Ticket : ServerClose(k)
  PROVE  Fading
<1>1. CASE OnTrade
  <2>1. PICK deleted \in SUBSET Pending :
          book' = [k \in Ticket |-> IF k \in deleted THEN Closed(book[k]) ELSE book[k]]
    BY <1>1 DEF OnTrade, Accepted
  <2>2. deleted \in SUBSET Live  BY DEF Live
  <2> QED  BY <2>1, <2>2, ClosingFades
<1>2. ASSUME NEW k \in Ticket, ServerClose(k) PROVE Fading
  <2>1. book[k] \in Trade /\ book[k].status = "open"  BY <1>2 DEF ServerClose, TypeOK
  <2>2. book' = [j \in Ticket |-> IF j \in {k} THEN Closed(book[j]) ELSE book[j]]
    BY <1>2 DEF ServerClose, TypeOK
  <2>3. {k} \in SUBSET Live  BY <2>1 DEF Live, Open
  <2> QED  BY <2>2, <2>3, ClosingFades
<1> QED  BY <1>1, <1>2

\* Trades that fade stay one, and what was sent stays as it was.
LEMMA FadingKeeps ==
  ASSUME TradeInv, Fading
  PROVE  /\ OneLive'
         /\ OneOrderPerTrigger'
         /\ Pending' \subseteq Pending
         /\ Open' \subseteq Open
         /\ \A k \in Ticket : /\ book'[k].bar = book[k].bar
                              /\ book'[k].status # "unused" => book[k].status # "unused"
<1>1. Pending' \subseteq Pending /\ Open' \subseteq Open
  BY DEF Fading, Fades, Pending, Open
<1>2. OneLive'  BY <1>1 DEF TradeInv, OneLive, Live
<1>3. \A k \in Ticket : /\ book'[k].bar = book[k].bar
                        /\ book'[k].status # "unused" => book[k].status # "unused"
  BY DEF Fading, Fades
<1>4. OneOrderPerTrigger'  BY <1>3 DEF TradeInv, OneOrderPerTrigger
<1> QED  BY <1>1, <1>2, <1>3, <1>4

\* The new-bar check keeps a trigger or replaces it by a younger one.
LEMMA NewBarIsYounger ==
  ASSUME TypeOK, setup.bar <= lastBar, NEW t \in Nat, NEW s, NEW attempt,
         NewBar(t, s, attempt)
  PROVE  /\ lastBar' >= lastBar
         /\ setup'.bar <= lastBar'
         /\ \/ state' = s /\ setup' = setup
            \/ state' = "TRIGGER_DETECTED" /\ s = "IDLE" /\ setup'.bar > lastBar
<1>1. ClosedBar(t) \in Nat /\ lastBar \in Nat /\ setup.bar \in Nat
  BY ClosedBarType DEF TypeOK
<1>2. lastBar' >= lastBar  BY <1>1 DEF NewBar
<1>3. CASE state' = s /\ setup' = setup
  <2>1. setup'.bar <= lastBar'  BY <1>1, <1>3 DEF NewBar
  <2> QED  BY <1>2, <1>3, <2>1
<1>4. CASE ~(state' = s /\ setup' = setup)
  <2>1. /\ ClosedBar(t) > lastBar
        /\ s = "IDLE"
        /\ state' = "TRIGGER_DETECTED"
        /\ setup' = [bar |-> ClosedBar(t), expires |-> t + EntryWindow]
    BY <1>4 DEF NewBar
  <2>2. setup'.bar = ClosedBar(t) /\ lastBar' = ClosedBar(t)  BY <2>1 DEF NewBar
  <2> QED  BY <1>1, <1>2, <2>1, <2>2
<1> QED  BY <1>3, <1>4

\* What the state of a flat tick tells of the state before it.
LEMMA FlatStates ==
  ASSUME TypeOK, NEW t, NEW eq
  PROVE  /\ CheckedState(t, eq) \in {state, "HALTED"}
         /\ FlatState(t, eq) \in {"TRIGGER_DETECTED", "WAITING_ENTRY"}
              => FlatState(t, eq) = state
         /\ FlatState(t, eq) \in Quiet => state \in Quiet
         /\ FlatState(t, eq) # "IN_POSITION"
BY DEF CheckedState, FlatState, Quiet

\* A tick that sends nothing keeps the trigger, or finds a younger one; it ends in
\* a quiet state only from a quiet state, or without a resting order.
LEMMA OnTickMemory ==
  ASSUME TypeOK, TradeInv, Orderly, NEW t \in Nat, NEW eq, OnTick(t, eq),
         ~TickPlaceOrder(t, eq)
  PROVE  /\ lastBar' >= lastBar
         /\ setup'.bar <= lastBar'
         /\ \/ state' # "TRIGGER_DETECTED"
            \/ state = "TRIGGER_DETECTED" /\ setup' = setup
            \/ setup'.bar > lastBar
         /\ state' \in Quiet => state \in Quiet \/ Pending' = {}
<1>1. lastBar \in Nat /\ setup.bar \in Nat /\ setup.bar <= lastBar
  BY DEF TypeOK, TradeInv, BarsAreUsed
<1>2. CASE TickHardKill(t, eq)
  BY <1>1, <1>2 DEF TickHardKill, Quiet
<1>3. CASE TickFridayClose(t, eq)
  BY <1>1, <1>3, FlatStates DEF TickFridayClose, Quiet
<1>4. CASE TickManage(t, eq)
  <2>1. Pending = {}  BY <1>4 DEF TickManage, TradeInv, OneLive, Live, Open, Pending
  <2>2. Pending' \subseteq Pending  BY OnTickFades, FadingKeeps
  <2> QED  BY <1>1, <1>4, <2>1, <2>2 DEF TickManage
<1>5. CASE TickResting(t, eq)
  BY <1>1, <1>5, FlatStates DEF TickResting
<1>6. CASE TickExpireOrder(t, eq)
  <2>1. NewBar(t, "IDLE", lastAttempt)  BY <1>6 DEF TickExpireOrder
  <2>2. PICK deleted \in Accepted("delete", Pending) :
          book' = [k \in Ticket |-> IF k \in deleted THEN Closed(book[k]) ELSE book[k]]
    BY <1>6 DEF TickExpireOrder
  <2>3. deleted = Pending  BY DEF Orderly, Accepted
  <2>4. ASSUME NEW k \in Ticket PROVE book'[k].status # "pending"
    <3>1. book[k] \in Trade  BY DEF TypeOK
    <3>2. Closed(book[k]).status = "gone"  BY <3>1 DEF Closed, Trade
    <3> QED  BY <2>2, <2>3, <3>2 DEF Pending
  <2>5. Pending' = {}  BY <2>4 DEF Pending
  <2> QED  BY <1>1, <2>1, <2>5, NewBarIsYounger
<1>7. CASE TickExpireTrigger(t, eq)
  <2>1. NewBar(t, "IDLE", lastAttempt) /\ state = "TRIGGER_DETECTED"
    BY <1>7, FlatStates DEF TickExpireTrigger
  <2> QED  BY <1>1, <2>1, NewBarIsYounger DEF Quiet
<1>8. CASE TickRetryLater(t, eq)
  <2>1. NewBar(t, "TRIGGER_DETECTED", t) /\ state = "TRIGGER_DETECTED"
    BY <1>8, FlatStates DEF TickRetryLater, MayAttempt
  <2> QED  BY <1>1, <2>1, NewBarIsYounger DEF Quiet
<1>9. CASE TickWatch(t, eq)
  <2>1. NewBar(t, FlatState(t, eq), lastAttempt)  BY <1>9 DEF TickWatch
  <2>2. FlatState(t, eq) = "IDLE" => state \in Quiet  BY FlatStates DEF Quiet
  <2> QED  BY <1>1, <2>1, <2>2, NewBarIsYounger, FlatStates
<1> QED  BY <1>2, <1>3, <1>4, <1>5, <1>6, <1>7, <1>8, <1>9 DEF OnTick

\* A tick keeps the invariant.
LEMMA OnTickKeepsOne ==
  ASSUME TypeOK, TradeInv, Orderly, NEW t \in Nat, NEW eq \in EquityLevel,
         OnTick(t, eq)
  PROVE  TradeInv'
<1>1. CASE ~TickPlaceOrder(t, eq)
  <2>1. Fading  BY <1>1, OnTickFades
  <2>2. OneLive' /\ OneOrderPerTrigger'  BY <2>1, FadingKeeps
  <2>3. NoneRests'
    <3>1. Pending' \subseteq Pending  BY <2>1, FadingKeeps
    <3>2. state' \in Quiet => state \in Quiet \/ Pending' = {}
      BY <1>1, OnTickMemory
    <3> QED  BY <3>1, <3>2 DEF TradeInv, NoneRests
  <2>4. ASSUME NEW k \in Ticket, book'[k].status # "unused"
        PROVE  /\ book'[k].bar <= lastBar'
               /\ state' = "TRIGGER_DETECTED" => book'[k].bar < setup'.bar
    <3>1. book'[k].bar = book[k].bar /\ book[k].status # "unused"
      BY <2>1, <2>4, FadingKeeps
    <3>2. book[k].bar <= lastBar
      BY <3>1 DEF TradeInv, BarsAreUsed
    <3>3. state = "TRIGGER_DETECTED" => book[k].bar < setup.bar
      BY <3>1 DEF TradeInv, BarsAreUsed
    <3>4. book[k].bar \in Nat /\ lastBar \in Nat  BY DEF TypeOK, Trade
    <3>5. TypeOK'  BY OnTickTyped
    <3> QED  BY <1>1, <3>1, <3>2, <3>3, <3>4, <3>5, OnTickMemory DEF TypeOK
  <2>5. setup'.bar <= lastBar'  BY <1>1, OnTickMemory
  <2> QED  BY <2>2, <2>3, <2>4, <2>5 DEF TradeInv, BarsAreUsed
<1>2. CASE TickPlaceOrder(t, eq)
  <2>1. PICK k \in Ticket, lot \in Lot, target \in Target :
          /\ book[k].status = "unused"
          /\ book' = [book EXCEPT ![k] = [status |-> "pending", bar |-> setup.bar,
                                          lot |-> lot, vol |-> lot, stop |-> -1,
                                          target |-> target, since |-> t]]
    BY <1>2 DEF TickPlaceOrder
  <2>2. NewBar(t, "WAITING_ENTRY", t) /\ Open = {}
    BY <1>2 DEF TickPlaceOrder, Flat
  <2>3. state = "TRIGGER_DETECTED"
    BY <1>2, FlatStates DEF TickPlaceOrder, MayAttempt
  <2>4. Pending = {}  BY <2>3 DEF TradeInv, NoneRests, Quiet
  <2>5. /\ lastBar' >= lastBar
        /\ state' = "WAITING_ENTRY"
        /\ setup' = setup
    <3>1. setup.bar <= lastBar  BY DEF TradeInv, BarsAreUsed
    <3>2. "WAITING_ENTRY" # "IDLE"  OBVIOUS
    <3> QED  BY <2>2, <3>1, <3>2, NewBarIsYounger
  <2>6. book'[k].status = "pending" /\ book'[k].bar = setup.bar
    BY <2>1 DEF TypeOK
  <2>7. \A j \in Ticket : j # k => book'[j] = book[j]
    BY <2>1 DEF TypeOK
  <2>8. OneLive'
    BY <2>2, <2>4, <2>7 DEF OneLive, Live, Open, Pending
  <2>9. NoneRests'  BY <2>5 DEF NoneRests, Quiet
  <2>10. \A j \in Ticket : j # k /\ book[j].status # "unused" => book[j].bar < setup.bar
    BY <2>3 DEF TradeInv, BarsAreUsed
  <2>11. OneOrderPerTrigger'
    <3> SUFFICES ASSUME NEW i \in Ticket, NEW j \in Ticket,
                        book'[i].status # "unused", book'[j].status # "unused",
                        book'[i].bar = book'[j].bar
                 PROVE  i = j
      BY DEF OneOrderPerTrigger
    <3>1. /\ book[i].bar \in Nat
          /\ book[j].bar \in Nat
          /\ setup.bar \in Nat
      BY DEF TypeOK, Trade
    <3>2. i = k => j = k  BY <2>6, <2>7, <2>10, <3>1
    <3>3. j = k => i = k  BY <2>6, <2>7, <2>10, <3>1
    <3>4. i # k /\ j # k => i = j
      BY <2>7 DEF TradeInv, OneOrderPerTrigger
    <3> QED  BY <3>2, <3>3, <3>4
  <2>12. BarsAreUsed'
    <3>1. lastBar \in Nat /\ lastBar' \in Nat /\ setup.bar \in Nat
      BY OnTickTyped DEF TypeOK
    <3>2. setup.bar <= lastBar  BY DEF TradeInv, BarsAreUsed
    <3>3. ASSUME NEW j \in Ticket, book'[j].status # "unused"
          PROVE  book'[j].bar <= lastBar'
      <4>1. CASE j = k  BY <2>5, <2>6, <3>1, <3>2, <4>1
      <4>2. CASE j # k
        <5>1. book[j].bar <= lastBar /\ book[j].bar \in Nat
          BY <2>7, <3>3, <4>2 DEF TradeInv, BarsAreUsed, TypeOK, Trade
        <5> QED  BY <2>5, <2>7, <3>1, <4>2, <5>1
      <4> QED  BY <4>1, <4>2
    <3>4. setup'.bar <= lastBar'  BY <2>5, <3>1, <3>2
    <3>5. state' # "TRIGGER_DETECTED"  BY <2>5
    <3> QED  BY <3>3, <3>4, <3>5 DEF BarsAreUsed
  <2> QED  BY <2>8, <2>9, <2>11, <2>12 DEF TradeInv
<1> QED  BY <1>1, <1>2

\* What the broker does, and OnTrade, keep the invariant.
LEMMA BrokerKeepsOne ==
  ASSUME TypeOK, TradeInv, OnTrade \/ \E k \in Ticket : Fill(k) \/ ServerClose(k)
  PROVE  TradeInv'
<1>1. UNCHANGED <<state, setup, lastBar>>
  BY DEF OnTrade, Fill, ServerClose, memory
<1>2. CASE OnTrade \/ \E k \in Ticket : ServerClose(k)
  <2>1. Fading  BY <1>2, BrokerFades
  <2> QED  BY <1>1, <2>1, FadingKeeps DEF TradeInv, NoneRests, BarsAreUsed
<1>3. ASSUME NEW k \in Ticket, Fill(k) PROVE TradeInv'
  <2>1. /\ book[k].status = "pending"
        /\ book' = [book EXCEPT ![k] = [@ EXCEPT !.status = "open", !.since = now]]
    BY <1>3 DEF Fill
  <2>2. book[k] \in Trade  BY DEF TypeOK
  <2>3. book'[k].status = "open" /\ book'[k].bar = book[k].bar
    BY <2>1, <2>2 DEF TypeOK, Trade
  <2>4. \A j \in Ticket : j # k => book'[j] = book[j]
    BY <2>1 DEF TypeOK
  <2>5. Live' \subseteq Live /\ Pending' \subseteq Pending
    BY <2>1, <2>3, <2>4 DEF Live, Open, Pending
  <2>6. \A j \in Ticket : /\ book'[j].bar = book[j].bar
                          /\ book'[j].status # "unused" => book[j].status # "unused"
    BY <2>1, <2>3, <2>4
  <2> QED  BY <1>1, <2>5, <2>6
           DEF TradeInv, OneLive, NoneRests, BarsAreUsed, OneOrderPerTrigger
<1> QED  BY <1>2, <1>3

\* The inductive invariant holds in every reachable state.
LEMMA TradeInvariant ==
  ASSUME Orderly
  PROVE  Spec => []TradeInv
<1>1. Init => TradeInv
  <2> SUFFICES ASSUME Init PROVE TradeInv  OBVIOUS
  <2>1. \A k \in Ticket : book[k].status = "unused"  BY DEF Init, NoOrder
  <2>2. Pending = {} /\ Live = {}  BY <2>1 DEF Live, Open, Pending
  <2>3. setup.bar = 0 /\ lastBar = 0  BY DEF Init
  <2> QED  BY <2>1, <2>2, <2>3
           DEF TradeInv, OneLive, NoneRests, BarsAreUsed, OneOrderPerTrigger
<1>2. TypeOK /\ TradeInv /\ [Next]_vars => TradeInv'
  <2> SUFFICES ASSUME TypeOK, TradeInv, [Next]_vars PROVE TradeInv'  OBVIOUS
  <2>1. ASSUME NEW t \in now .. Lesser(now + MaxStep, MaxTime), NEW eq \in EquityLevel,
               OnTick(t, eq) \/ Restart(t, eq) \/ CrashInPartial(t, eq)
        PROVE  TradeInv'
    <3>1. t \in Nat  BY ClockType
    <3>2. ~Restart(t, eq) /\ ~CrashInPartial(t, eq)
      BY DEF Restart, CrashInPartial, Orderly
    <3> QED  BY <2>1, <3>1, <3>2, OnTickKeepsOne
  <2>2. CASE OnTrade \/ \E k \in Ticket : Fill(k) \/ ServerClose(k)
    BY <2>2, BrokerKeepsOne
  <2>3. CASE UNCHANGED vars
    BY <2>3 DEF vars, memory, TradeInv, OneLive, NoneRests, BarsAreUsed,
                OneOrderPerTrigger, Live, Open, Pending
  <2> QED  BY <2>1, <2>2, <2>3 DEF Next
<1> QED  BY <1>1, <1>2, TypeCorrect, PTL DEF Spec

\* While the program runs and the broker deletes the orders it is asked to delete,
\* one order or position at most is alive and no bar is traded twice, whatever
\* losses, days, halts and refused closes come in between.
THEOREM OneTradeThroughout ==
  ASSUME Orderly
  PROVE  Spec => []OneTradeAtATime
<1>1. TradeInv => SingleExposure
  <2> SUFFICES ASSUME TradeInv PROVE Cardinality(Live) <= 1
    BY DEF SingleExposure
  <2>1. CASE Live = {}  BY <2>1, FS_EmptySet
  <2>2. ASSUME NEW k \in Live PROVE Cardinality(Live) <= 1
    <3>1. Live = {k}  BY DEF TradeInv, OneLive
    <3> QED  BY <3>1, FS_Singleton
  <2> QED  BY <2>1, <2>2
<1>2. TradeInv => OneTradeAtATime  BY <1>1 DEF OneTradeAtATime, TradeInv
<1> QED  BY <1>2, TradeInvariant, PTL

----------------------------------------------------------------------------
\* The volume and the clock of a position

\* The inductive invariants, for one ticket.  What is alive has a volume; a ledger
\* that is known was initialised, and one that is not finds a stop to start from.
VolumeInv(b) == b.status \in {"pending", "open"} => b.vol > 0
ClockInv(b, g) ==
  /\ b.status \in {"unused", "pending"} => g = NoGV
  /\ b.status = "pending" => b.stop = -1
  /\ b.status = "open" => IF g.known THEN g.rDist # 0 ELSE b.stop # 0

VolumesInv == \A k \in Ticket : VolumeInv(book[k])
ClocksInv == \A k \in Ticket : ClockInv(book[k], gv[k])

\* A partial close leaves some of the volume.
LEMMA PartialsLeaveVolume ==
  ASSUME NEW p \in PassType, NEW w \in WorkType, NEW fail, w.vol > 0
  PROVE  /\ Fires1(p, w) => Taken1(p, w, fail).vol > 0
         /\ Fires2(p, w) => Taken2(p, w, fail).vol > 0
         /\ AfterPartial1(p, w, fail).vol > 0
         /\ AfterPartial2(p, w, fail).vol > 0
<1>1. PartialLot1(p.lot) \in Nat /\ PartialLot2(p.lot) \in Nat /\ w.vol \in Nat
  BY DEF PartialLot1, PartialLot2, PassType, WorkType
<1>2. Fires1(p, w) => Taken1(p, w, fail).vol > 0  BY <1>1 DEF Fires1, Taken1
<1>3. Fires2(p, w) => Taken2(p, w, fail).vol > 0  BY <1>1 DEF Fires2, Taken2
<1>4. AfterPartial1(p, w, fail).vol > 0  BY <1>2 DEF AfterPartial1, Recorded
<1>5. AfterPartial2(p, w, fail).vol > 0  BY <1>3 DEF AfterPartial2, Recorded
<1> QED  BY <1>2, <1>3, <1>4, <1>5

\* So does a whole pass, unless it closes the position.
LEMMA ManagedLeavesVolume ==
  ASSUME NEW b \in Trade, NEW g \in Ledger, NEW x \in Int, NEW t \in Nat, NEW fail,
         b.status = "open", b.vol > 0
  PROVE  VolumeInv(Managed(b, g, x, t, fail).b)
<1> DEFINE p == Pass(b, g, x, t)
           w0 == Before(b, g, p)
           w1 == AfterPartial1(p, w0, fail)
           w == AfterPartial2(p, w1, fail)
           m == Managed(b, g, x, t, fail)
<1>1. p \in PassType /\ w0 \in WorkType  BY PassTyped
<1>2. w0.vol > 0  BY DEF Before
<1>3. m.b \in {b, Closed(b), Scaled(b, w)}  BY DEF Managed
<1> HIDE DEF p, w0
<1>4. w1 \in WorkType /\ w1.vol > 0
  BY <1>1, <1>2, Partial1Typed, PartialsLeaveVolume
<1> HIDE DEF w1
<1>5. w.vol > 0  BY <1>1, <1>4, PartialsLeaveVolume
<1> HIDE DEF w
<1>6. VolumeInv(Scaled(b, w))  BY <1>5 DEF VolumeInv, Scaled, Trade
<1>7. VolumeInv(Closed(b))  BY DEF VolumeInv, Closed, Trade
<1>8. VolumeInv(b)  BY DEF VolumeInv
<1> HIDE DEF m
<1>9. VolumeInv(m.b)  BY <1>3, <1>6, <1>7, <1>8
<1> QED  BY <1>9 DEF m

\* A pass keeps the clock of a position that stays open.
LEMMA ManagedKeepsClock ==
  ASSUME NEW b \in Trade, NEW g \in Ledger, NEW x \in Int, NEW t \in Nat, NEW fail,
         b.status = "open", ClockInv(b, g), "hold" \notin fail
  PROVE  LET m == Managed(b, g, x, t, fail)
         IN  /\ ClockInv(m.b, m.g)
             /\ m.b.status = "open" =>
                  /\ m.g.known /\ m.g.rDist # 0
                  /\ m.g.entryTime = IF g.known THEN g.entryTime ELSE t
                  /\ t - m.g.entryTime <= MaxHold
                  /\ m.b.since = b.since
<1> DEFINE p == Pass(b, g, x, t)
           w == AfterPartial2(p, AfterPartial1(p, Before(b, g, p), fail), fail)
           m == Managed(b, g, x, t, fail)
<1>1. /\ p.ledger.known
      /\ p.ledger.rDist # 0
      /\ p.ledger.entryTime = IF g.known THEN g.entryTime ELSE t
  <2>1. CASE g.known
    <3>1. g.rDist # 0  BY <2>1 DEF ClockInv
    <3> QED  BY <2>1, <3>1 DEF Pass, Tracked, Ledger
  <2>2. CASE ~g.known
    <3>1. b.stop \in Int /\ b.stop # 0 /\ g.initialStop \in Int
      BY <2>2 DEF ClockInv, Trade, Ledger
    <3>2. (IF g.initialStop # 0 THEN Abs(g.initialStop) ELSE Abs(b.stop)) # 0
      BY <3>1 DEF Abs
    <3> QED  BY <2>2, <3>2 DEF Pass, Tracked
  <2> QED  BY <2>1, <2>2 DEF Ledger
<1>2. Closed(b).status = "gone"  BY DEF Closed, Trade
<1>3. p.ledger \in Ledger  BY PassTyped DEF PassType
<1> HIDE DEF p, w
<1>4. /\ Told(p, w).known
      /\ Told(p, w).rDist # 0
      /\ Told(p, w).entryTime = p.ledger.entryTime
  BY <1>1, <1>3 DEF Told, Ledger
<1>5. Scaled(b, w).status = "open" /\ Scaled(b, w).since = b.since
  BY DEF Scaled, Trade
<1>6. CASE t - p.ledger.entryTime > MaxHold
  <2>1. m.b = Closed(b) /\ m.g = NoGV  BY <1>6 DEF Managed, p, w
  <2> QED  BY <1>2, <2>1 DEF ClockInv
<1>7. CASE ~(t - p.ledger.entryTime > MaxHold)
  <2>1. \/ m.b = Closed(b) /\ m.g = NoGV
        \/ m.b = Scaled(b, w) /\ m.g = Told(p, w)
    BY <1>7 DEF Managed, p, w
  <2>2. t - p.ledger.entryTime <= MaxHold
    <3>1. p.ledger.entryTime \in Nat  BY <1>3 DEF Ledger
    <3> QED  BY <1>7, <3>1, TimeAssumption
  <2> HIDE DEF m
  <2>3. CASE m.b = Closed(b) /\ m.g = NoGV
    <3>1. ClockInv(m.b, m.g)  BY <1>2, <2>3 DEF ClockInv
    <3>2. m.b.status # "open"  BY <1>2, <2>3
    <3> QED  BY <3>1, <3>2 DEF m
  <2>4. CASE m.b = Scaled(b, w) /\ m.g = Told(p, w)
    <3>1. ClockInv(m.b, m.g)  BY <1>4, <1>5, <2>4 DEF ClockInv
    <3> QED  BY <1>1, <1>4, <1>5, <2>2, <2>4, <3>1 DEF m
  <2> QED  BY <2>1, <2>3, <2>4
<1> QED  BY <1>6, <1>7

\* A trade that is closed, or that rests unchanged, keeps its volume.
LEMMA ClosedHasNoVolume ==
  ASSUME NEW b \in Trade
  PROVE  VolumeInv(Closed(b))
BY DEF VolumeInv, Closed, Trade

\* Every tick leaves volumes positive.
LEMMA OnTickLeavesVolume ==
  ASSUME TypeOK, VolumesInv, NEW t \in Nat, NEW eq, OnTick(t, eq)
  PROVE  VolumesInv'
<1>1. CASE book' = book
  BY <1>1 DEF VolumesInv
<1>2. CASE CloseAllOurPositions
  <2>1. PICK S : book' = [k \in Ticket |-> IF k \in S THEN Closed(book[k]) ELSE book[k]]
    BY <1>2 DEF CloseAllOurPositions
  <2> QED  BY <2>1, ClosedHasNoVolume DEF VolumesInv, TypeOK
<1>3. CASE TickManage(t, eq)
  <2>1. PICK bid \in [Open -> Excursion], fail \in SUBSET (Fault \cap Request) :
          book' = [k \in Ticket |->
                     IF k \in Open THEN Managed(book[k], gv[k], bid[k], t, fail).b
                                   ELSE book[k]]
    BY <1>3 DEF TickManage
  <2>2. ASSUME NEW k \in Ticket PROVE VolumeInv(book'[k])
    <3>1. book[k] \in Trade /\ gv[k] \in Ledger /\ VolumeInv(book[k])
      BY DEF TypeOK, VolumesInv
    <3>2. CASE k \in Open
      <4>1. bid[k] \in Int  BY <3>2, TradeAssumption
      <4>2. book[k].status = "open"  BY <3>2 DEF Open
      <4>3. book[k].vol > 0  BY <3>1, <4>2 DEF VolumeInv
      <4> QED  BY <2>1, <3>1, <3>2, <4>1, <4>2, <4>3, ManagedLeavesVolume
    <3>3. CASE k \notin Open
      BY <2>1, <3>1, <3>3
    <3> QED  BY <3>2, <3>3
  <2> QED  BY <2>2 DEF VolumesInv
<1>4. CASE TickExpireOrder(t, eq)
  BY <1>4, ClosedHasNoVolume DEF TickExpireOrder, VolumesInv, TypeOK
<1>5. CASE TickPlaceOrder(t, eq)
  <2>1. PICK k \in Ticket, lot \in Lot, target \in Target :
          book' = [book EXCEPT ![k] = [status |-> "pending", bar |-> setup.bar,
                                       lot |-> lot, vol |-> lot, stop |-> -1,
                                       target |-> target, since |-> t]]
    BY <1>5 DEF TickPlaceOrder
  <2>2. book'[k].vol = lot  BY <2>1 DEF TypeOK
  <2>3. lot > 0  BY TradeAssumption
  <2>4. VolumeInv(book'[k])  BY <2>2, <2>3 DEF VolumeInv
  <2>5. \A j \in Ticket : j # k => book'[j] = book[j]  BY <2>1 DEF TypeOK
  <2> QED  BY <2>4, <2>5 DEF VolumesInv
<1> QED  BY <1>1, <1>2, <1>3, <1>4, <1>5
         DEF OnTick, TickHardKill, TickFridayClose, TickResting, TickExpireTrigger,
             TickRetryLater, TickWatch

\* A crash in a partial close leaves volumes positive, too.
LEMMA CrashLeavesVolume ==
  ASSUME TypeOK, VolumesInv, NEW t \in Nat, NEW eq, CrashInPartial(t, eq)
  PROVE  VolumesInv'
<1>1. PICK k \in Open, x \in Excursion, fail \in SUBSET (Fault \cap Request) :
        LET p  == Pass(book[k], gv[k], x, t)
            w0 == Before(book[k], gv[k], p)
            w1 == AfterPartial1(p, w0, fail)
        IN  \/ /\ Fires1(p, w0)
               /\ book' = [book EXCEPT ![k] = Scaled(@, Taken1(p, w0, fail))]
            \/ /\ Fires2(p, w1)
               /\ book' = [book EXCEPT ![k] = Scaled(@, Taken2(p, w1, fail))]
  BY DEF CrashInPartial
<1> DEFINE p  == Pass(book[k], gv[k], x, t)
           w0 == Before(book[k], gv[k], p)
           w1 == AfterPartial1(p, w0, fail)
<1>2. k \in Ticket /\ x \in Int /\ book[k] \in Trade /\ gv[k] \in Ledger
  BY TradeAssumption DEF TypeOK, Open
<1>3. p \in PassType /\ w0 \in WorkType  BY <1>2, PassTyped
<1>4. w0.vol > 0  BY <1>2 DEF Before, VolumesInv, VolumeInv, Open
<1>5. \/ Fires1(p, w0) /\ book' = [book EXCEPT ![k] = Scaled(@, Taken1(p, w0, fail))]
      \/ Fires2(p, w1) /\ book' = [book EXCEPT ![k] = Scaled(@, Taken2(p, w1, fail))]
  BY <1>1
<1> HIDE DEF p, w0
<1>6. w1 \in WorkType /\ w1.vol > 0
  BY <1>3, <1>4, Partial1Typed, PartialsLeaveVolume
<1> HIDE DEF w1
<1>7. Fires1(p, w0) => Taken1(p, w0, fail).vol > 0
  BY <1>3, <1>4, PartialsLeaveVolume
<1>8. Fires2(p, w1) => Taken2(p, w1, fail).vol > 0
  BY <1>3, <1>6, PartialsLeaveVolume
<1>9. PICK v : v.vol > 0 /\ book' = [book EXCEPT ![k] = Scaled(@, v)]
  BY <1>5, <1>7, <1>8
<1>10. book'[k] = Scaled(book[k], v)  BY <1>2, <1>9 DEF TypeOK
<1>11. VolumeInv(book'[k])
  BY <1>2, <1>9, <1>10 DEF VolumeInv, Scaled, Trade
<1>12. \A j \in Ticket : j # k => book'[j] = book[j]  BY <1>9 DEF TypeOK
<1> QED  BY <1>11, <1>12 DEF VolumesInv

\* A position always has a volume: a partial close is smaller than what is left,
\* whatever was refused, forgotten in a crash or taken twice.
THEOREM PositionsKeepVolume == Spec => []PartialsLeaveAPosition
<1>1. Init => VolumesInv
  BY DEF Init, VolumesInv, VolumeInv, NoOrder
<1>2. TypeOK /\ VolumesInv /\ [Next]_vars => VolumesInv'
  <2> SUFFICES ASSUME TypeOK, VolumesInv, [Next]_vars PROVE VolumesInv'  OBVIOUS
  <2>1. ASSUME NEW t \in now .. Lesser(now + MaxStep, MaxTime), NEW eq \in EquityLevel,
               OnTick(t, eq) \/ Restart(t, eq) \/ CrashInPartial(t, eq)
        PROVE  VolumesInv'
    <3>1. t \in Nat  BY ClockType
    <3>2. CASE Restart(t, eq)  BY <3>2 DEF Restart, VolumesInv
    <3> QED  BY <2>1, <3>1, <3>2, OnTickLeavesVolume, CrashLeavesVolume
  <2>2. CASE OnTrade
    BY <2>2, ClosedHasNoVolume DEF OnTrade, VolumesInv, TypeOK
  <2>3. ASSUME NEW k \in Ticket, Fill(k) \/ ServerClose(k) PROVE VolumesInv'
    <3>1. book[k] \in Trade /\ VolumeInv(book[k])  BY DEF TypeOK, VolumesInv
    <3>2. \A j \in Ticket : j # k => book'[j] = book[j]
      BY <2>3 DEF Fill, ServerClose, TypeOK
    <3>3. CASE Fill(k)
      <4>1. book'[k].vol = book[k].vol /\ book[k].status = "pending"
        BY <3>1, <3>3 DEF Fill, TypeOK, Trade
      <4>2. VolumeInv(book'[k])  BY <3>1, <4>1 DEF VolumeInv
      <4> QED  BY <3>2, <4>2 DEF VolumesInv
    <3>4. CASE ServerClose(k)
      <4>1. VolumeInv(book'[k])
        BY <3>1, <3>4, ClosedHasNoVolume DEF ServerClose, TypeOK
      <4> QED  BY <3>2, <4>1 DEF VolumesInv
    <3> QED  BY <2>3, <3>3, <3>4
  <2>4. CASE UNCHANGED vars  BY <2>4 DEF vars, VolumesInv
  <2> QED  BY <2>1, <2>2, <2>3, <2>4 DEF Next
<1>3. VolumesInv => PartialsLeaveAPosition
  BY DEF VolumesInv, VolumeInv, PartialsLeaveAPosition, Open
<1> QED  BY <1>1, <1>2, <1>3, TypeCorrect, PTL DEF Spec

\* A crash writes the ledger of the pass it interrupts: the clock is in it.
LEMMA CrashKeepsClock ==
  ASSUME NEW b \in Trade, NEW g \in Ledger, NEW x \in Int, NEW t \in Nat,
         NEW v, NEW w, w.told \in 0 .. 2, b.status = "open", ClockInv(b, g)
  PROVE  LET h == Told(Pass(b, g, x, t), w)
         IN  /\ ClockInv(Scaled(b, v), h)
             /\ h.known
             /\ g.known => h.entryTime = g.entryTime
<1> DEFINE p == Pass(b, g, x, t)
           h == Told(p, w)
<1>1. /\ p.ledger.known
      /\ p.ledger.rDist # 0
      /\ g.known => p.ledger.entryTime = g.entryTime
  <2>1. CASE g.known
    <3>1. g.rDist # 0  BY <2>1 DEF ClockInv
    <3> QED  BY <2>1, <3>1 DEF Pass, Tracked, Ledger
  <2>2. CASE ~g.known
    <3>1. b.stop \in Int /\ b.stop # 0 /\ g.initialStop \in Int
      BY <2>2 DEF ClockInv, Trade, Ledger
    <3>2. (IF g.initialStop # 0 THEN Abs(g.initialStop) ELSE Abs(b.stop)) # 0
      BY <3>1 DEF Abs
    <3> QED  BY <2>2, <3>2 DEF Pass, Tracked
  <2> QED  BY <2>1, <2>2 DEF Ledger
<1>2. p.ledger \in Ledger  BY PassTyped DEF PassType
<1> HIDE DEF p
<1>3. h.known /\ h.rDist # 0 /\ h.entryTime = p.ledger.entryTime
  BY <1>1, <1>2 DEF Told, Ledger
<1>4. Scaled(b, v).status = "open"  BY DEF Scaled, Trade
<1> HIDE DEF h
<1>5. ClockInv(Scaled(b, v), h)  BY <1>3, <1>4 DEF ClockInv
<1> QED  BY <1>1, <1>3, <1>5 DEF h, p

\* What a closed trade leaves in the global variables does not matter any more.
LEMMA ClosedHasNoClock ==
  ASSUME NEW b \in Trade, NEW g
  PROVE  ClockInv(Closed(b), g) /\ Closed(b).status = "gone"
BY DEF ClockInv, Closed, Trade

\* What one step does to the clock of one ticket.
ClockKept(k) ==
  /\ ClockInv(book'[k], gv'[k])
  /\ book[k].status = "open" /\ gv[k].known /\ book'[k].status = "open"
       => gv'[k].known /\ gv'[k].entryTime = gv[k].entryTime

\* No tick disturbs a clock, if its requests to close a position on the holding
\* limit or all at once are not refused.
LEMMA OnTickKeepsClocks ==
  ASSUME TypeOK, ClocksInv, Fault \cap {"hold", "closeAll"} = {},
         NEW t \in Nat, NEW eq \in EquityLevel, OnTick(t, eq), NEW k \in Ticket
  PROVE  ClockKept(k)
<1>1. book[k] \in Trade /\ gv[k] \in Ledger /\ ClockInv(book[k], gv[k])
  BY DEF TypeOK, ClocksInv
<1>2. CASE UNCHANGED <<gv, book>>
  BY <1>1, <1>2 DEF ClockKept
<1>3. CASE CloseAllOurPositions
  <2>1. PICK deleted \in SUBSET Pending :
          book' = [j \in Ticket |-> IF j \in Open \cup deleted THEN Closed(book[j])
                                                               ELSE book[j]]
    BY <1>3 DEF CloseAllOurPositions, Accepted
  <2>2. gv' = [j \in Ticket |-> IF j \in Open THEN NoGV ELSE gv[j]]
    BY <1>3 DEF CloseAllOurPositions
  <2>3. book[k].status = "open" => k \in Open  BY DEF Open
  <2> QED  BY <1>1, <2>1, <2>2, <2>3, ClosedHasNoClock DEF ClockKept
<1>4. CASE TickManage(t, eq)
  <2>1. PICK bid \in [Open -> Excursion], fail \in SUBSET (Fault \cap Request) :
          /\ book' = [j \in Ticket |->
                        IF j \in Open THEN Managed(book[j], gv[j], bid[j], t, fail).b
                                      ELSE book[j]]
          /\ gv' = [j \in Ticket |->
                      IF j \in Open THEN Managed(book[j], gv[j], bid[j], t, fail).g
                                    ELSE gv[j]]
    BY <1>4 DEF TickManage
  <2>2. CASE k \in Open
    <3>1. bid[k] \in Int /\ book[k].status = "open" /\ "hold" \notin fail
      BY <2>2, TradeAssumption DEF Open
    <3>2. /\ book'[k] = Managed(book[k], gv[k], bid[k], t, fail).b
          /\ gv'[k] = Managed(book[k], gv[k], bid[k], t, fail).g
      BY <2>1, <2>2
    <3> QED  BY <1>1, <3>1, <3>2, ManagedKeepsClock DEF ClockKept
  <2>3. CASE k \notin Open
    <3>1. book'[k] = book[k] /\ gv'[k] = gv[k]  BY <2>1, <2>3
    <3> QED  BY <1>1, <3>1 DEF ClockKept
  <2> QED  BY <2>2, <2>3
<1>5. CASE TickExpireOrder(t, eq)
  <2>1. PICK deleted : book' = [j \in Ticket |-> IF j \in deleted THEN Closed(book[j])
                                                                  ELSE book[j]]
    BY <1>5 DEF TickExpireOrder
  <2>2. gv' = gv  BY <1>5 DEF TickExpireOrder
  <2> QED  BY <1>1, <2>1, <2>2, ClosedHasNoClock DEF ClockKept
<1>6. CASE TickPlaceOrder(t, eq)
  <2>1. PICK j \in Ticket, lot \in Lot, target \in Target :
          /\ book[j].status = "unused"
          /\ book' = [book EXCEPT ![j] = [status |-> "pending", bar |-> setup.bar,
                                          lot |-> lot, vol |-> lot, stop |-> -1,
                                          target |-> target, since |-> t]]
    BY <1>6 DEF TickPlaceOrder
  <2>2. gv' = gv  BY <1>6 DEF TickPlaceOrder
  <2>3. CASE k = j
    <3>1. book'[k].status = "pending" /\ book'[k].stop = -1  BY <2>1, <2>3 DEF TypeOK
    <3>2. gv[k] = NoGV  BY <1>1, <2>1, <2>3 DEF ClockInv
    <3> QED  BY <2>2, <3>1, <3>2 DEF ClockKept, ClockInv
  <2>4. CASE k # j
    <3>1. book'[k] = book[k]  BY <2>1, <2>4 DEF TypeOK
    <3> QED  BY <1>1, <2>2, <3>1 DEF ClockKept
  <2> QED  BY <2>3, <2>4
<1> QED  BY <1>2, <1>3, <1>4, <1>5, <1>6
         DEF OnTick, TickHardKill, TickFridayClose, TickResting, TickExpireTrigger,
             TickRetryLater, TickWatch

\* Nor does a restart, a crash, the broker or OnTrade.
LEMMA OthersKeepClocks ==
  ASSUME TypeOK, ClocksInv, NEW k \in Ticket,
         \/ OnTrade
         \/ \E j \in Ticket : Fill(j) \/ ServerClose(j)
         \/ \E t \in Nat, eq \in EquityLevel : Restart(t, eq) \/ CrashInPartial(t, eq)
  PROVE  ClockKept(k)
<1>1. book[k] \in Trade /\ gv[k] \in Ledger /\ ClockInv(book[k], gv[k])
  BY DEF TypeOK, ClocksInv
<1>2. CASE OnTrade
  <2> DEFINE fresh == {j \in Open : ~gv[j].known}
  <2>1. PICK bid \in [fresh -> Excursion] :
          gv' = [j \in Ticket |->
                   IF j \notin fresh THEN gv[j]
                   ELSE [known |-> TRUE, origLot |-> book[j].vol,
                         rDist |-> Abs(book[j].stop), partials |-> 0,
                         entryTime |-> now, extreme |-> bid[j],
                         initialStop |-> book[j].stop]]
    BY <1>2 DEF OnTrade
  <2>2. PICK deleted \in SUBSET Pending :
          book' = [j \in Ticket |-> IF j \in deleted THEN Closed(book[j]) ELSE book[j]]
    BY <1>2 DEF OnTrade, Accepted
  <2>3. CASE k \in fresh
    <3>1. book'[k] = book[k] /\ book[k].status = "open" /\ ~gv[k].known
      BY <2>2, <2>3 DEF Open, Pending
    <3>2. book[k].stop \in Int /\ book[k].stop # 0
      BY <1>1, <3>1 DEF ClockInv, Trade
    <3>3. gv'[k].known /\ gv'[k].rDist = Abs(book[k].stop)  BY <2>1, <2>3
    <3>4. Abs(book[k].stop) # 0  BY <3>2 DEF Abs
    <3> QED  BY <3>1, <3>3, <3>4 DEF ClockKept, ClockInv
  <2>4. CASE k \notin fresh /\ k \in deleted
    BY <1>1, <2>2, <2>4, ClosedHasNoClock DEF ClockKept
  <2>5. CASE k \notin fresh /\ k \notin deleted
    BY <1>1, <2>1, <2>2, <2>5 DEF ClockKept
  <2> QED  BY <2>3, <2>4, <2>5
<1>3. ASSUME NEW j \in Ticket, Fill(j) \/ ServerClose(j) PROVE ClockKept(k)
  <2>1. gv' = gv  BY <1>3 DEF Fill, ServerClose
  <2>2. CASE k # j
    <3>1. book'[k] = book[k]  BY <1>3, <2>2 DEF Fill, ServerClose, TypeOK
    <3> QED  BY <1>1, <2>1, <3>1 DEF ClockKept
  <2>3. CASE k = j /\ Fill(j)
    <3>1. /\ book[k].status = "pending"
          /\ book'[k] = [book[k] EXCEPT !.status = "open", !.since = now]
      BY <2>3 DEF Fill, TypeOK
    <3>2. book'[k].status = "open" /\ book'[k].stop = book[k].stop
      BY <1>1, <3>1 DEF Trade
    <3>3. gv[k] = NoGV /\ book[k].stop = -1  BY <1>1, <3>1 DEF ClockInv
    <3> QED  BY <2>1, <3>1, <3>2, <3>3 DEF ClockKept, ClockInv, NoGV
  <2>4. CASE k = j /\ ServerClose(j)
    <3>1. book'[k] = Closed(book[k])  BY <2>4 DEF ServerClose, TypeOK
    <3> QED  BY <1>1, <3>1, ClosedHasNoClock DEF ClockKept
  <2> QED  BY <1>3, <2>2, <2>3, <2>4
<1>4. ASSUME NEW t \in Nat, NEW eq \in EquityLevel, Restart(t, eq) PROVE ClockKept(k)
  BY <1>1, <1>4 DEF Restart, ClockKept
<1>5. ASSUME NEW t \in Nat, NEW eq \in EquityLevel, CrashInPartial(t, eq)
      PROVE  ClockKept(k)
  <2>1. PICK j \in Open, x \in Excursion, fail \in SUBSET (Fault \cap Request) :
          LET p  == Pass(book[j], gv[j], x, t)
              w0 == Before(book[j], gv[j], p)
              w1 == AfterPartial1(p, w0, fail)
          IN  \/ /\ Fires1(p, w0)
                 /\ book' = [book EXCEPT ![j] = Scaled(@, Taken1(p, w0, fail))]
                 /\ gv' = [gv EXCEPT ![j] = Told(p, w0)]
              \/ /\ Fires2(p, w1)
                 /\ book' = [book EXCEPT ![j] = Scaled(@, Taken2(p, w1, fail))]
                 /\ gv' = [gv EXCEPT ![j] = Told(p, w1)]
    BY <1>5 DEF CrashInPartial
  <2> DEFINE p  == Pass(book[j], gv[j], x, t)
             w0 == Before(book[j], gv[j], p)
             w1 == AfterPartial1(p, w0, fail)
  <2>2. /\ j \in Ticket /\ x \in Int /\ book[j] \in Trade /\ gv[j] \in Ledger
        /\ book[j].status = "open" /\ ClockInv(book[j], gv[j])
    BY TradeAssumption DEF TypeOK, ClocksInv, Open
  <2>3. p \in PassType /\ w0 \in WorkType  BY <2>2, PassTyped
  <2>4. w1 \in WorkType  BY <2>3, Partial1Typed
  <2>5. w0.told \in 0 .. 2 /\ w1.told \in 0 .. 2  BY <2>3, <2>4 DEF WorkType
  <2>6. \E v, w : /\ w.told \in 0 .. 2
                  /\ book' = [book EXCEPT ![j] = Scaled(@, v)]
                  /\ gv' = [gv EXCEPT ![j] = Told(p, w)]
    <3> HIDE DEF p, w0, w1
    <3>1. \/ /\ book' = [book EXCEPT ![j] = Scaled(@, Taken1(p, w0, fail))]
             /\ gv' = [gv EXCEPT ![j] = Told(p, w0)]
          \/ /\ book' = [book EXCEPT ![j] = Scaled(@, Taken2(p, w1, fail))]
             /\ gv' = [gv EXCEPT ![j] = Told(p, w1)]
      BY <2>1 DEF p, w0, w1
    <3> QED  BY <2>5, <3>1
  <2>7. PICK v, w : /\ w.told \in 0 .. 2
                    /\ book' = [book EXCEPT ![j] = Scaled(@, v)]
                    /\ gv' = [gv EXCEPT ![j] = Told(p, w)]
    BY <2>6
  <2>8. CASE k # j
    <3>1. book'[k] = book[k] /\ gv'[k] = gv[k]  BY <2>7, <2>8 DEF TypeOK
    <3> QED  BY <1>1, <3>1 DEF ClockKept
  <2>9. CASE k = j
    <3>1. book'[k] = Scaled(book[k], v) /\ gv'[k] = Told(p, w)
      BY <2>2, <2>7, <2>9 DEF TypeOK
    <3>2. /\ ClockInv(Scaled(book[k], v), Told(p, w))
          /\ Told(p, w).known
          /\ gv[k].known => Told(p, w).entryTime = gv[k].entryTime
      BY <2>2, <2>7, <2>9, CrashKeepsClock
    <3> HIDE DEF p
    <3> QED  BY <3>1, <3>2 DEF ClockKept
  <2> QED  BY <2>8, <2>9
<1> QED  BY <1>2, <1>3, <1>4, <1>5

\* Every step keeps every clock.
LEMMA ClocksStep ==
  ASSUME TypeOK, ClocksInv, [Next]_vars, Fault \cap {"hold", "closeAll"} = {},
         NEW k \in Ticket
  PROVE  ClockKept(k)
<1>1. ASSUME NEW t \in now .. Lesser(now + MaxStep, MaxTime), NEW eq \in EquityLevel,
             OnTick(t, eq) \/ Restart(t, eq) \/ CrashInPartial(t, eq)
      PROVE  ClockKept(k)
  BY <1>1, ClockType, OnTickKeepsClocks, OthersKeepClocks
<1>2. CASE OnTrade \/ \E j \in Ticket : Fill(j) \/ ServerClose(j)
  BY <1>2, OthersKeepClocks
<1>3. CASE UNCHANGED vars  BY <1>3 DEF vars, ClocksInv, ClockKept
<1> QED  BY <1>1, <1>2, <1>3 DEF Next

\* The inductive invariant holds in every reachable state.
LEMMA ClocksInvariant ==
  ASSUME Fault \cap {"hold", "closeAll"} = {}
  PROVE  Spec => []ClocksInv
<1>1. Init => ClocksInv
  BY DEF Init, ClocksInv, ClockInv, NoOrder
<1>2. TypeOK /\ ClocksInv /\ [Next]_vars => ClocksInv'
  <2> SUFFICES ASSUME TypeOK, ClocksInv, [Next]_vars PROVE ClocksInv'  OBVIOUS
  <2>1. \A k \in Ticket : ClockInv(book'[k], gv'[k])  BY ClocksStep DEF ClockKept
  <2> QED  BY <2>1 DEF ClocksInv
<1> QED  BY <1>1, <1>2, TypeCorrect, PTL DEF Spec

\* The holding period is counted from one moment, which neither restarts, crashes
\* in a partial close nor refused partials, modifications and final closes move.
THEOREM ClockIsKept ==
  ASSUME Fault \cap {"hold", "closeAll"} = {}
  PROVE  Spec => ClockNeverRestarts
<1>1. TypeOK /\ ClocksInv /\ [Next]_vars =>
        [\A k \in Open : gv[k].known /\ book'[k].status = "open"
           => gv'[k].known /\ gv'[k].entryTime = gv[k].entryTime]_vars
  BY ClocksStep DEF ClockKept, Open
<1> QED  BY <1>1, ClocksInvariant, TypeCorrect, PTL DEF Spec, ClockNeverRestarts

----------------------------------------------------------------------------
\* The end of an order and of a position

\* What is assumed besides: no day is lost, no Friday is closed early, and closing
\* on the holding limit is not refused.  A halted program leaves its order where it
\* is, and on a Friday evening nothing is managed.
CalmMarket ==
  /\ FridayTime = {}
  /\ \A e, f \in EquityLevel : /\ ~LossAtLeast(MaxLossPct, e, f)
                               /\ ~LossAtLeast(HardKillPct, e, f)
  /\ Fault \cap {"hold", "closeAll"} = {}

\* The inductive invariant: an order rests only while the program waits for its
\* entry, inside the window and after the cooldown; a position is known since a
\* moment not long after its fill, or was filled since the last quote.
WindowInv ==
  /\ state # "HALTED"
  /\ state \in {"TRIGGER_DETECTED", "WAITING_ENTRY"} => cooldownUntil <= now
  /\ Pending # {} => state = "WAITING_ENTRY" /\ now <= setup.expires
HoldInv ==
  \A k \in Open :
    /\ gv[k].known => /\ now - gv[k].entryTime <= MaxHold
                      /\ gv[k].entryTime - book[k].since <= MaxStep
    /\ ~gv[k].known => now = book[k].since
LifeInv == WindowInv /\ HoldInv

\* In a calm market the limits of the day are never met.
LEMMA NoLossNoHalt ==
  ASSUME TypeOK, CalmMarket, NEW t \in Nat, NEW eq \in EquityLevel
  PROVE  /\ ~HardKill(t, eq)
         /\ CheckedState(t, eq) = state
         /\ t \notin FridayTime
<1>1. StartEquity(t, eq) \in EquityLevel  BY DEF StartEquity, TypeOK
<1>2. ~HardKill(t, eq) /\ ~SoftLoss(t, eq)
  BY <1>1 DEF CalmMarket, HardKill, SoftLoss
<1> QED  BY <1>2 DEF CheckedState, CalmMarket

\* A tick that finds no position leaves an order only inside its window.
LEMMA FlatKeepsWindow ==
  ASSUME TypeOK, TradeInv, Orderly, CalmMarket, WindowInv,
         NEW t \in Nat, NEW eq \in EquityLevel, now <= t,
         OnTick(t, eq), ~TickManage(t, eq)
  PROVE  WindowInv' /\ Open = {} /\ Open' = {}
<1>1. ~HardKill(t, eq) /\ CheckedState(t, eq) = state /\ t \notin FridayTime
  BY NoLossNoHalt
<1>2. /\ Flat(t, eq)
      /\ \/ TickResting(t, eq) \/ TickExpireOrder(t, eq) \/ TickExpireTrigger(t, eq)
         \/ TickPlaceOrder(t, eq) \/ TickRetryLater(t, eq) \/ TickWatch(t, eq)
  BY <1>1 DEF OnTick, TickHardKill, TickFridayClose, TickResting, TickExpireOrder,
              TickExpireTrigger, TickPlaceOrder, TickRetryLater, TickWatch
<1>3. /\ Open = {}
      /\ now' = t
      /\ cooldownUntil' = FlatCooldown(t, eq)
  BY <1>2 DEF Flat, Quote
<1>4. /\ state # "HALTED"
      /\ FlatState(t, eq) = IF state = "IN_POSITION" THEN "IDLE" ELSE state
      /\ FlatCooldown(t, eq) = IF state = "IN_POSITION" THEN t + Cooldown
                                                        ELSE cooldownUntil
  BY <1>1 DEF WindowInv, FlatState, FlatCooldown
<1>5. now \in Nat /\ cooldownUntil \in Nat /\ setup.expires \in Nat /\ Cooldown \in Nat
  BY TimeAssumption DEF TypeOK
<1>6. ~Resting(t, eq) => FlatCooldown(t, eq) <= t
  <2>1. FlatCooldown(t, eq) \in Nat  BY <1>4, <1>5
  <2> QED  BY <2>1 DEF Resting
<1>7. CASE TickResting(t, eq)
  <2>1. state' = FlatState(t, eq) /\ book' = book /\ t < FlatCooldown(t, eq)
    BY <1>4, <1>7 DEF TickResting, Resting
  <2>2. state \notin {"TRIGGER_DETECTED", "WAITING_ENTRY"}
    BY <1>4, <1>5, <2>1 DEF WindowInv
  <2>3. Pending = {}  BY <2>2 DEF WindowInv
  <2>4. Pending' = {} /\ Open' = {}  BY <1>3, <2>1, <2>3 DEF Pending, Open
  <2>5. state' \notin {"HALTED", "TRIGGER_DETECTED", "WAITING_ENTRY"}
    BY <1>4, <2>1, <2>2
  <2> QED  BY <1>3, <2>4, <2>5 DEF WindowInv
<1>8. ASSUME ~Resting(t, eq), NEW s \in TradeState \ {"HALTED"}, NEW attempt,
             NewBar(t, s, attempt), Open' = {},
             Pending' # {} => s = "WAITING_ENTRY" /\ t <= setup.expires
      PROVE  WindowInv'
  <2>1. state' \in {s, "TRIGGER_DETECTED"}  BY <1>8 DEF NewBar
  <2>2. (state' = s /\ setup' = setup) \/ s = "IDLE"  BY <1>8 DEF NewBar
  <2>3. cooldownUntil' <= now'  BY <1>3, <1>6, <1>8
  <2>4. Pending' # {} => state' = "WAITING_ENTRY" /\ now' <= setup'.expires
    BY <1>3, <1>8, <2>2
  <2> QED  BY <1>8, <2>1, <2>3, <2>4 DEF WindowInv
<1>9. CASE TickExpireOrder(t, eq)
  <2>1. NewBar(t, "IDLE", lastAttempt) /\ ~Resting(t, eq)
    BY <1>9 DEF TickExpireOrder
  <2>2. PICK deleted \in Accepted("delete", Pending) :
          book' = [k \in Ticket |-> IF k \in deleted THEN Closed(book[k]) ELSE book[k]]
    BY <1>9 DEF TickExpireOrder
  <2>3. deleted = Pending  BY DEF Orderly, Accepted
  <2>4. ASSUME NEW k \in Ticket PROVE book'[k].status \notin {"pending", "open"}
    <3>1. book[k] \in Trade  BY DEF TypeOK
    <3>2. Closed(book[k]).status = "gone"  BY <3>1 DEF Closed, Trade
    <3> QED  BY <1>3, <2>2, <2>3, <3>2 DEF Pending, Open
  <2>5. Pending' = {} /\ Open' = {}  BY <2>4 DEF Pending, Open
  <2>6. "IDLE" \in TradeState \ {"HALTED"}  BY DEF TradeState
  <2> QED  BY <1>3, <1>8, <2>1, <2>5, <2>6
<1>10. CASE TickExpireTrigger(t, eq)
  <2>1. NewBar(t, "IDLE", lastAttempt) /\ ~Resting(t, eq) /\ book' = book
    BY <1>10 DEF TickExpireTrigger
  <2>2. state = "TRIGGER_DETECTED"  BY <1>4, <1>10 DEF TickExpireTrigger
  <2>3. Pending' = {} /\ Open' = {}
    BY <1>3, <2>1, <2>2 DEF TradeInv, NoneRests, Quiet, Pending, Open
  <2>4. "IDLE" \in TradeState \ {"HALTED"}  BY DEF TradeState
  <2> QED  BY <1>3, <1>8, <2>1, <2>3, <2>4
<1>11. CASE TickPlaceOrder(t, eq)
  <2>1. NewBar(t, "WAITING_ENTRY", t) /\ ~Resting(t, eq) /\ t <= setup.expires
    BY <1>11 DEF TickPlaceOrder, MayAttempt
  <2>2. \E k \in Ticket : \E o : o.status = "pending" /\ book' = [book EXCEPT ![k] = o]
    BY <1>11 DEF TickPlaceOrder
  <2>3. PICK k \in Ticket : \E o : /\ o.status = "pending"
                                   /\ book' = [book EXCEPT ![k] = o]
    BY <2>2
  <2>4. book'[k].status = "pending" /\ \A j \in Ticket : j # k => book'[j] = book[j]
    BY <2>3 DEF TypeOK
  <2>5. Open' = {}  BY <1>3, <2>4 DEF Open
  <2>6. "WAITING_ENTRY" \in TradeState \ {"HALTED"}  BY DEF TradeState
  <2> QED  BY <1>3, <1>8, <2>1, <2>5, <2>6
<1>12. CASE TickRetryLater(t, eq)
  <2>1. NewBar(t, "TRIGGER_DETECTED", t) /\ ~Resting(t, eq) /\ book' = book
    BY <1>12 DEF TickRetryLater, MayAttempt
  <2>2. state = "TRIGGER_DETECTED"  BY <1>4, <1>12 DEF TickRetryLater, MayAttempt
  <2>3. Pending' = {} /\ Open' = {}
    BY <1>3, <2>1, <2>2 DEF TradeInv, NoneRests, Quiet, Pending, Open
  <2>4. "TRIGGER_DETECTED" \in TradeState \ {"HALTED"}  BY DEF TradeState
  <2> QED  BY <1>3, <1>8, <2>1, <2>3, <2>4
<1>13. CASE TickWatch(t, eq)
  <2>1. /\ NewBar(t, FlatState(t, eq), lastAttempt)
        /\ ~Resting(t, eq)
        /\ book' = book
        /\ FlatState(t, eq) = "WAITING_ENTRY" => t <= setup.expires
    BY <1>13 DEF TickWatch
  <2>2. FlatState(t, eq) \in TradeState \ {"HALTED"}
    BY <1>4 DEF TypeOK, TradeState
  <2>3. Pending' = Pending /\ Open' = {}  BY <1>3, <2>1 DEF Pending, Open
  <2>4. Pending # {} => FlatState(t, eq) = "WAITING_ENTRY"
    BY <1>4 DEF WindowInv
  <2> QED  BY <1>3, <1>8, <2>1, <2>2, <2>3, <2>4
<1> QED  BY <1>2, <1>3, <1>7, <1>9, <1>10, <1>11, <1>12, <1>13

\* A tick that manages the position keeps it inside its time.
LEMMA ManageKeepsLife ==
  ASSUME TypeOK, TradeInv, ClocksInv, CalmMarket, LifeInv,
         NEW t \in Nat, NEW eq \in EquityLevel, t <= now + MaxStep, TickManage(t, eq)
  PROVE  LifeInv'
<1>1. Open # {} /\ now' = t /\ state' = "IN_POSITION"
  BY DEF TickManage, Quote
<1>2. Pending = {}  BY <1>1 DEF TradeInv, OneLive, Live, Open, Pending
<1>3. Fading
  <2>1. OnTick(t, eq)  BY DEF OnTick
  <2>2. ~TickPlaceOrder(t, eq)  BY <1>1 DEF TickPlaceOrder, Flat
  <2> QED  BY <2>1, <2>2, OnTickFades
<1>4. Pending' = {} /\ Open' \subseteq Open  BY <1>2, <1>3, FadingKeeps
<1>5. WindowInv'  BY <1>1, <1>4 DEF WindowInv
<1>6. PICK bid \in [Open -> Excursion], fail \in SUBSET (Fault \cap Request) :
        /\ book' = [j \in Ticket |->
                      IF j \in Open THEN Managed(book[j], gv[j], bid[j], t, fail).b
                                    ELSE book[j]]
        /\ gv' = [j \in Ticket |->
                    IF j \in Open THEN Managed(book[j], gv[j], bid[j], t, fail).g
                                  ELSE gv[j]]
  BY DEF TickManage
<1>7. ASSUME NEW k \in Open'
      PROVE  /\ gv'[k].known
             /\ t - gv'[k].entryTime <= MaxHold
             /\ gv'[k].entryTime - book'[k].since <= MaxStep
  <2>1. k \in Ticket /\ k \in Open /\ book'[k].status = "open"  BY <1>4 DEF Open
  <2>2. /\ book[k] \in Trade /\ gv[k] \in Ledger
        /\ ClockInv(book[k], gv[k]) /\ book[k].status = "open"
    BY <2>1 DEF TypeOK, ClocksInv, Open
  <2>3. bid[k] \in Int /\ "hold" \notin fail
    BY <2>1, TradeAssumption DEF CalmMarket
  <2>4. /\ book'[k] = Managed(book[k], gv[k], bid[k], t, fail).b
        /\ gv'[k] = Managed(book[k], gv[k], bid[k], t, fail).g
    BY <1>6, <2>1
  <2>5. /\ gv'[k].known
        /\ gv'[k].entryTime = IF gv[k].known THEN gv[k].entryTime ELSE t
        /\ t - gv'[k].entryTime <= MaxHold
        /\ book'[k].since = book[k].since
    <3> DEFINE m == Managed(book[k], gv[k], bid[k], t, fail)
    <3>1. m.b.status = "open" =>
            /\ m.g.known /\ m.g.rDist # 0
            /\ m.g.entryTime = IF gv[k].known THEN gv[k].entryTime ELSE t
            /\ t - m.g.entryTime <= MaxHold
            /\ m.b.since = book[k].since
      BY <2>2, <2>3, ManagedKeepsClock
    <3>2. book'[k] = m.b /\ gv'[k] = m.g  BY <2>4
    <3> HIDE DEF m
    <3> QED  BY <2>1, <3>1, <3>2
  <2>6. /\ gv[k].known => gv[k].entryTime - book[k].since <= MaxStep
        /\ ~gv[k].known => now = book[k].since
    BY <2>1 DEF LifeInv, HoldInv
  <2>7. now \in Nat /\ MaxStep \in Nat /\ book[k].since \in Nat
    BY <2>2, TimeAssumption DEF TypeOK, Trade
  <2>8. CASE gv[k].known  BY <2>5, <2>6, <2>8
  <2>9. CASE ~gv[k].known
    <3>1. t - book[k].since <= MaxStep  BY <2>6, <2>7, <2>9
    <3> QED  BY <2>5, <2>9, <3>1
  <2> QED  BY <2>8, <2>9
<1>8. HoldInv'  BY <1>1, <1>7 DEF HoldInv
<1> QED  BY <1>5, <1>8 DEF LifeInv

\* What the broker does, and OnTrade, keep orders and positions inside their time.
LEMMA BrokerKeepsLife ==
  ASSUME TypeOK, ClocksInv, LifeInv,
         OnTrade \/ \E k \in Ticket : Fill(k) \/ ServerClose(k)
  PROVE  LifeInv'
<1>1. UNCHANGED <<now, state, setup, cooldownUntil>>
  BY DEF OnTrade, Fill, ServerClose, memory
<1>2. SUFFICES Pending' \subseteq Pending /\ HoldInv'
  BY <1>1 DEF LifeInv, WindowInv
<1>3. now \in Nat /\ MaxStep \in Nat /\ MaxHold \in Nat
  BY TimeAssumption DEF TypeOK
<1>4. CASE OnTrade
  <2> DEFINE fresh == {j \in Open : ~gv[j].known}
  <2>1. PICK bid \in [fresh -> Excursion] :
          gv' = [j \in Ticket |->
                   IF j \notin fresh THEN gv[j]
                   ELSE [known |-> TRUE, origLot |-> book[j].vol,
                         rDist |-> Abs(book[j].stop), partials |-> 0,
                         entryTime |-> now, extreme |-> bid[j],
                         initialStop |-> book[j].stop]]
    BY <1>4 DEF OnTrade
  <2>2. PICK deleted \in SUBSET Pending :
          book' = [j \in Ticket |-> IF j \in deleted THEN Closed(book[j]) ELSE book[j]]
    BY <1>4 DEF OnTrade, Accepted
  <2>3. ASSUME NEW k \in Ticket
        PROVE  /\ book'[k].status \in {"pending", "open"} => book'[k] = book[k]
    <3>1. book[k] \in Trade  BY DEF TypeOK
    <3>2. Closed(book[k]).status = "gone"  BY <3>1 DEF Closed, Trade
    <3> QED  BY <2>2, <3>2
  <2>4. Pending' \subseteq Pending  BY <2>3 DEF Pending
  <2>5. ASSUME NEW k \in Open'
        PROVE  /\ gv'[k].known => /\ now - gv'[k].entryTime <= MaxHold
                                  /\ gv'[k].entryTime - book'[k].since <= MaxStep
               /\ ~gv'[k].known => now = book'[k].since
    <3>1. k \in Ticket /\ k \in Open /\ book'[k] = book[k]  BY <2>3 DEF Open
    <3>2. CASE k \in fresh
      <4>1. now = book[k].since  BY <3>1, <3>2 DEF LifeInv, HoldInv
      <4>2. gv'[k].known /\ gv'[k].entryTime = now  BY <2>1, <3>1, <3>2
      <4> QED  BY <1>3, <3>1, <4>1, <4>2
    <3>3. CASE k \notin fresh
      <4>1. gv'[k] = gv[k]  BY <2>1, <3>1, <3>3
      <4> QED  BY <3>1, <4>1 DEF LifeInv, HoldInv
    <3> QED  BY <3>2, <3>3
  <2>6. HoldInv'  BY <1>1, <2>5 DEF HoldInv
  <2> QED  BY <2>4, <2>6
<1>5. ASSUME NEW k \in Ticket, Fill(k) \/ ServerClose(k)
      PROVE  Pending' \subseteq Pending /\ HoldInv'
  <2>1. gv' = gv /\ book[k] \in Trade /\ ClockInv(book[k], gv[k])
    BY <1>5 DEF Fill, ServerClose, TypeOK, ClocksInv
  <2>2. \A j \in Ticket : j # k => book'[j] = book[j]
    BY <1>5 DEF Fill, ServerClose, TypeOK
  <2>3. CASE Fill(k)
    <3>1. book[k].status = "pending" /\ book'[k].status = "open" /\ book'[k].since = now
      BY <2>1, <2>3 DEF Fill, TypeOK, Trade
    <3>2. ~gv[k].known  BY <2>1, <3>1 DEF ClockInv, NoGV
    <3>3. Pending' \subseteq Pending  BY <2>2, <3>1 DEF Pending
    <3>4. Open' = Open \cup {k}  BY <2>2, <3>1 DEF Open
    <3>5. HoldInv'
      <4>1. ASSUME NEW j \in Open', j # k PROVE j \in Open /\ book'[j] = book[j]
        BY <2>2, <3>4, <4>1 DEF Open
      <4> QED  BY <1>1, <2>1, <3>1, <3>2, <4>1 DEF LifeInv, HoldInv
    <3> QED  BY <3>3, <3>5
  <2>4. CASE ServerClose(k)
    <3>1. book'[k].status = "gone"
      BY <2>1, <2>4, ClosedHasNoClock DEF ServerClose, TypeOK
    <3>2. Pending' \subseteq Pending  BY <2>2, <3>1 DEF Pending
    <3>3. \A j \in Open' : j \in Open /\ book'[j] = book[j]
      BY <2>2, <3>1 DEF Open
    <3>4. HoldInv'  BY <1>1, <2>1, <3>3 DEF LifeInv, HoldInv
    <3> QED  BY <3>2, <3>4
  <2> QED  BY <1>5, <2>3, <2>4
<1> QED  BY <1>4, <1>5

\* The inductive invariant holds in every reachable state of a calm market.
LEMMA LifeInvariant ==
  ASSUME Orderly, CalmMarket
  PROVE  Spec => []LifeInv
<1>1. Init => LifeInv
  <2> SUFFICES ASSUME Init PROVE LifeInv  OBVIOUS
  <2>1. \A k \in Ticket : book[k].status = "unused"  BY DEF Init, NoOrder
  <2>2. Pending = {} /\ Open = {}  BY <2>1 DEF Open, Pending
  <2>3. state = "IDLE"  BY DEF Init
  <2> QED  BY <2>2, <2>3 DEF LifeInv, WindowInv, HoldInv
<1>2. TypeOK /\ TradeInv /\ ClocksInv /\ LifeInv /\ [Next]_vars => LifeInv'
  <2> SUFFICES ASSUME TypeOK, TradeInv, ClocksInv, LifeInv, [Next]_vars
               PROVE  LifeInv'
    OBVIOUS
  <2>1. ASSUME NEW t \in now .. Lesser(now + MaxStep, MaxTime), NEW eq \in EquityLevel,
               OnTick(t, eq) \/ Restart(t, eq) \/ CrashInPartial(t, eq)
        PROVE  LifeInv'
    <3>1. t \in Nat  BY ClockType
    <3>2. now <= t /\ t <= now + MaxStep
      BY <3>1, TimeAssumption DEF TypeOK, Lesser
    <3>3. OnTick(t, eq)
      BY <2>1 DEF Restart, CrashInPartial, Orderly
    <3>4. CASE TickManage(t, eq)  BY <3>1, <3>2, <3>4, ManageKeepsLife
    <3>5. CASE ~TickManage(t, eq)
      <4>1. WindowInv' /\ Open' = {}
        BY <3>1, <3>2, <3>3, <3>5, FlatKeepsWindow DEF LifeInv
      <4> QED  BY <4>1 DEF LifeInv, HoldInv
    <3> QED  BY <3>4, <3>5
  <2>2. CASE OnTrade \/ \E k \in Ticket : Fill(k) \/ ServerClose(k)
    BY <2>2, BrokerKeepsLife
  <2>3. CASE UNCHANGED vars
    BY <2>3 DEF vars, memory, LifeInv, WindowInv, HoldInv, Open, Pending
  <2> QED  BY <2>1, <2>2, <2>3 DEF Next
<1>3. Fault \cap {"hold", "closeAll"} = {}  BY DEF CalmMarket
<1> QED  BY <1>1, <1>2, <1>3, TradeInvariant, ClocksInvariant, TypeCorrect, PTL DEF Spec

\* In a calm market no order outlives its entry window and no position its holding
\* limit, also when partial and final closes are refused and whichever handler sees
\* the position first.
THEOREM NothingOutlives ==
  ASSUME Orderly, CalmMarket
  PROVE  Spec => []NothingOutlivesItsTime
<1>1. TypeOK /\ LifeInv => NothingOutlivesItsTime
  <2> SUFFICES ASSUME TypeOK, LifeInv PROVE NothingOutlivesItsTime  OBVIOUS
  <2>1. OrderWithinWindow  BY DEF LifeInv, WindowInv, OrderWithinWindow
  <2>2. ASSUME NEW k \in Open PROVE now - book[k].since <= MaxHold + 2 * MaxStep
    <3>1. /\ now \in Nat /\ book[k].since \in Nat /\ gv[k].entryTime \in Nat
          /\ MaxHold \in Nat /\ MaxStep \in Nat
      BY TimeAssumption DEF TypeOK, Trade, Ledger, Open
    <3>2. CASE gv[k].known
      <4>1. /\ now - gv[k].entryTime <= MaxHold
            /\ gv[k].entryTime - book[k].since <= MaxStep
        BY <3>2 DEF LifeInv, HoldInv
      <4> QED  BY <3>1, <4>1
    <3>3. CASE ~gv[k].known
      <4>1. now = book[k].since  BY <3>3 DEF LifeInv, HoldInv
      <4> QED  BY <3>1, <4>1
    <3> QED  BY <3>2, <3>3
  <2> QED  BY <2>1, <2>2 DEF NothingOutlivesItsTime, HoldIsBounded
<1> QED  BY <1>1, LifeInvariant, TypeCorrect, PTL

----------------------------------------------------------------------------
\* The contract

\* The second part is smaller than the first.
LEMMA PartsOfALot ==
  ASSUME NEW l \in Nat
  PROVE  /\ PartialLot1(l) \in Nat
         /\ PartialLot2(l) \in Nat
         /\ PartialLot2(l) > 0 => PartialLot1(l) > PartialLot2(l)
BY DEF PartialLot1, PartialLot2

\* The stage of a trade, by its status and by its volume.
LEMMA StagesOf ==
  ASSUME NEW b \in Trade
  PROVE  /\ b.status = "unused" <=> StageOf(b) = "none"
         /\ b.status = "pending" <=> StageOf(b) = "resting"
         /\ b.status = "gone" => StageOf(b) = "over"
         /\ b.status \in {"unused", "gone"} => StageOf(b) \notin Contract!Live
         /\ b.status = "open" =>
              /\ b.vol = b.lot => StageOf(b) = "full"
              /\ b.vol # b.lot /\ b.vol = b.lot - PartialLot1(b.lot)
                   => StageOf(b) = "half"
              /\ b.vol # b.lot /\ b.vol # b.lot - PartialLot1(b.lot)
                   /\ b.vol = b.lot - PartialLot2(b.lot) => StageOf(b) = "late"
              /\ b.vol # b.lot /\ b.vol # b.lot - PartialLot1(b.lot)
                   /\ b.vol # b.lot - PartialLot2(b.lot) => StageOf(b) = "runner"
<1>1. CASE b.status = "unused"  BY <1>1 DEF StageOf, Contract!Live
<1>2. CASE b.status = "pending"  BY <1>2 DEF StageOf, Contract!Live
<1>3. CASE b.status = "gone"  BY <1>3 DEF StageOf, Contract!Live
<1>4. CASE b.status = "open"  BY <1>4 DEF StageOf, Contract!Live
<1> QED  BY <1>1, <1>2, <1>3, <1>4 DEF Trade

\* What the stages may become.
LEMMA Succeeds ==
  /\ Contract!Successors("none") = {"resting"}
  /\ Contract!Successors("resting") = {"full", "over"}
  /\ Contract!Successors("full") = {"half", "late", "runner", "over"}
  /\ Contract!Successors("half") = {"runner", "over"}
  /\ Contract!Successors("late") = {"over"}
  /\ Contract!Successors("runner") = {"over"}
BY DEF Contract!Successors

\* One part or none is taken by each half of a pass.
LEMMA PartsAreTaken ==
  ASSUME NEW p \in PassType, NEW w \in WorkType, NEW fail, WorkAgrees(w, p.lot)
  PROVE  /\ \/ AfterPartial1(p, w, fail).vol = w.vol
            \/ /\ w.vol = p.lot
               /\ PartialLot1(p.lot) > 0
               /\ AfterPartial1(p, w, fail).vol = p.lot - PartialLot1(p.lot)
         /\ \/ AfterPartial2(p, w, fail).vol = w.vol
            \/ /\ w.vol \in {p.lot, p.lot - PartialLot1(p.lot)}
               /\ PartialLot2(p.lot) > 0
               /\ AfterPartial2(p, w, fail).vol = w.vol - PartialLot2(p.lot)
<1>1. w.done \in 0 .. 2  BY DEF WorkType
<1>2. p.lot \in Nat /\ PartialLot1(p.lot) \in Nat /\ PartialLot2(p.lot) \in Nat
  BY PartsOfALot DEF PassType
<1>3. \/ AfterPartial1(p, w, fail).vol = w.vol
      \/ /\ w.vol = p.lot
         /\ PartialLot1(p.lot) > 0
         /\ AfterPartial1(p, w, fail).vol = p.lot - PartialLot1(p.lot)
  <2>1. CASE Fires1(p, w) /\ "partial1" \notin fail
    <3>1. w.done = 0 /\ 0 < PartialLot1(p.lot)  BY <1>1, <2>1 DEF Fires1
    <3>2. w.vol = p.lot  BY <3>1 DEF WorkAgrees
    <3>3. AfterPartial1(p, w, fail).vol = w.vol - PartialLot1(p.lot)
      BY <2>1 DEF AfterPartial1, Taken1, Recorded
    <3> QED  BY <1>2, <3>1, <3>2, <3>3
  <2>2. CASE ~(Fires1(p, w) /\ "partial1" \notin fail)
    BY <2>2 DEF AfterPartial1
  <2> QED  BY <2>1, <2>2
<1>4. \/ AfterPartial2(p, w, fail).vol = w.vol
      \/ /\ w.vol \in {p.lot, p.lot - PartialLot1(p.lot)}
         /\ PartialLot2(p.lot) > 0
         /\ AfterPartial2(p, w, fail).vol = w.vol - PartialLot2(p.lot)
  <2>1. CASE Fires2(p, w) /\ "partial2" \notin fail
    <3>1. w.done \in {0, 1} /\ 0 < PartialLot2(p.lot)  BY <1>1, <2>1 DEF Fires2
    <3>2. w.vol \in {p.lot, p.lot - PartialLot1(p.lot)}  BY <3>1 DEF WorkAgrees
    <3>3. AfterPartial2(p, w, fail).vol = w.vol - PartialLot2(p.lot)
      BY <2>1 DEF AfterPartial2, Taken2, Recorded
    <3> QED  BY <1>2, <3>1, <3>2, <3>3
  <2>2. CASE ~(Fires2(p, w) /\ "partial2" \notin fail)
    BY <2>2 DEF AfterPartial2
  <2> QED  BY <2>1, <2>2
<1> QED  BY <1>3, <1>4

\* What one ticket may do, in the words of the contract.
Advances(b, c) == StageOf(c) \in {StageOf(b)} \cup Contract!Successors(StageOf(b))

\* A position whose volume goes from u to v by the parts of a pass advances.
LEMMA ScaledAdvances ==
  ASSUME NEW b \in Trade, NEW c \in Trade, NEW v \in Int,
         b.status = "open", c.status = "open", c.lot = b.lot,
         \/ v = b.vol
         \/ b.vol = b.lot /\ PartialLot1(b.lot) > 0 /\ v = b.lot - PartialLot1(b.lot),
         \/ c.vol = v
         \/ /\ v \in {b.lot, b.lot - PartialLot1(b.lot)}
            /\ PartialLot2(b.lot) > 0
            /\ c.vol = v - PartialLot2(b.lot)
  PROVE  Advances(b, c)
<1> DEFINE l == b.lot
           p1 == PartialLot1(b.lot)
           p2 == PartialLot2(b.lot)
<1>1. /\ l \in Nat /\ b.vol \in Nat /\ c.vol \in Nat
      /\ p1 \in Nat /\ p2 \in Nat
      /\ p2 > 0 => p1 > p2
  BY PartsOfALot DEF Trade
<1>2. /\ b.vol = l => StageOf(b) = "full"
      /\ b.vol # l /\ b.vol = l - p1 => StageOf(b) = "half"
      /\ StageOf(b) \in {"full", "half", "late", "runner"}
  BY StagesOf
<1>3. /\ c.vol = l => StageOf(c) = "full"
      /\ c.vol # l /\ c.vol = l - p1 => StageOf(c) = "half"
      /\ c.vol # l /\ c.vol # l - p1 /\ c.vol = l - p2 => StageOf(c) = "late"
      /\ c.vol # l /\ c.vol # l - p1 /\ c.vol # l - p2 => StageOf(c) = "runner"
  BY StagesOf
<1>4. b.vol = c.vol => StageOf(c) = StageOf(b)
  BY DEF StageOf
<1> HIDE DEF l, p1, p2
<1>5. b.vol = l => StageOf(c) \in {"full", "half", "late", "runner"}
  BY <1>3
<1>6. CASE b.vol = l
  BY <1>2, <1>5, <1>6, Succeeds DEF Advances
<1>7. CASE b.vol # l /\ c.vol # b.vol
  <2>1. v = b.vol /\ b.vol = l - p1 /\ p2 > 0 /\ c.vol = l - p1 - p2
    BY <1>1, <1>7 DEF l, p1, p2
  <2>2. StageOf(c) = "runner"  BY <1>1, <1>3, <2>1
  <2>3. StageOf(b) = "half"  BY <1>2, <1>7, <2>1
  <2> QED  BY <2>2, <2>3, Succeeds DEF Advances
<1>8. CASE c.vol = b.vol  BY <1>4, <1>8 DEF Advances
<1> QED  BY <1>6, <1>7, <1>8

\* What is closed advances: every trade that was sent may be over.
LEMMA ClosedAdvances ==
  ASSUME NEW b \in Trade, b.status # "unused"
  PROVE  Advances(b, Closed(b))
<1>1. Closed(b) \in Trade /\ Closed(b).status = "gone"
  BY ClosedTyped DEF Closed, Trade
<1>2. StageOf(Closed(b)) = "over"  BY <1>1, StagesOf
<1>3. StageOf(b) \in {"resting", "over", "full", "half", "late", "runner"}
  BY StagesOf DEF Trade
<1> QED  BY <1>2, <1>3, Succeeds DEF Advances

\* A whole pass takes a position along the contract.
LEMMA ManagedAdvances ==
  ASSUME NEW b \in Trade, NEW g \in Ledger, NEW x \in Int, NEW t \in Nat, NEW fail,
         b.status = "open", TicketInv(b, g), fail \cap Unchecked = {}
  PROVE  Advances(b, Managed(b, g, x, t, fail).b)
<1> DEFINE p  == Pass(b, g, x, t)
           w0 == Before(b, g, p)
           w1 == AfterPartial1(p, w0, fail)
           w  == AfterPartial2(p, w1, fail)
           m  == Managed(b, g, x, t, fail)
<1>1. "hold" \notin fail /\ "modify1" \notin fail /\ "modify2" \notin fail
  BY DEF Unchecked
<1>2. p \in PassType /\ w0 \in WorkType  BY PassTyped
<1>3. p.ledger.rDist = 1 /\ p.lot = b.lot /\ WorkAgrees(w0, p.lot)
  BY PassAgrees
<1>4. w0.vol = b.vol  BY DEF Before
<1>5. m.b \in {Closed(b), Scaled(b, w)}
  BY <1>1 DEF Managed
<1> HIDE DEF p, w0, m
<1>6. w1 \in WorkType /\ WorkAgrees(w1, p.lot)
  BY <1>1, <1>2, <1>3, Partial1Typed, Partial1Agrees
<1>7. \/ w1.vol = b.vol
      \/ /\ b.vol = b.lot
         /\ PartialLot1(b.lot) > 0
         /\ w1.vol = b.lot - PartialLot1(b.lot)
  BY <1>2, <1>3, <1>4, PartsAreTaken
<1> HIDE DEF w1
<1>8. \/ w.vol = w1.vol
      \/ /\ w1.vol \in {b.lot, b.lot - PartialLot1(b.lot)}
         /\ PartialLot2(b.lot) > 0
         /\ w.vol = w1.vol - PartialLot2(b.lot)
  BY <1>2, <1>3, <1>6, PartsAreTaken
<1>9. w \in WorkType  BY <1>2, <1>6, Partial2Typed
<1> HIDE DEF w
<1>10. Scaled(b, w) \in Trade
  BY <1>2, <1>9, WrittenBackTyped
<1>11. /\ Scaled(b, w).status = "open"
       /\ Scaled(b, w).lot = b.lot
       /\ Scaled(b, w).vol = w.vol
  BY DEF Scaled, Trade
<1>12. w1.vol \in Int  BY <1>6 DEF WorkType
<1>13. Advances(b, Scaled(b, w))
  BY <1>7, <1>8, <1>10, <1>11, <1>12, ScaledAdvances
<1>14. Advances(b, Closed(b))  BY ClosedAdvances
<1>15. Advances(b, m.b)  BY <1>5, <1>13, <1>14
<1> QED  BY <1>15 DEF m

\* Every trade advances in every tick that sends no order.
LEMMA OnTickAdvances ==
  ASSUME TypeOK, LedgerInv, Fault \cap Unchecked = {},
         NEW t \in Nat, NEW eq \in EquityLevel, OnTick(t, eq), ~TickPlaceOrder(t, eq),
         NEW k \in Ticket
  PROVE  Advances(book[k], book'[k])
<1>1. book[k] \in Trade /\ gv[k] \in Ledger /\ TicketInv(book[k], gv[k])
  BY DEF TypeOK, LedgerInv
<1>2. Advances(book[k], book[k])  BY DEF Advances
<1>3. k \in Live => Advances(book[k], Closed(book[k]))
  BY <1>1, ClosedAdvances DEF Live, Open, Pending
<1>4. CASE book' = book  BY <1>2, <1>4
<1>5. CASE CloseAllOurPositions
  <2>1. PICK closed \in Accepted("closeAll", Open), deleted \in Accepted("delete", Pending) :
          book' = [j \in Ticket |-> IF j \in closed \cup deleted THEN Closed(book[j])
                                                                 ELSE book[j]]
    BY <1>5 DEF CloseAllOurPositions
  <2>2. closed \cup deleted \subseteq Live  BY DEF Accepted, Live
  <2> QED  BY <1>2, <1>3, <2>1, <2>2
<1>6. CASE TickManage(t, eq)
  <2>1. PICK bid \in [Open -> Excursion], fail \in SUBSET (Fault \cap Request) :
          book' = [j \in Ticket |->
                     IF j \in Open THEN Managed(book[j], gv[j], bid[j], t, fail).b
                                   ELSE book[j]]
    BY <1>6 DEF TickManage
  <2>2. fail \cap Unchecked = {}  OBVIOUS
  <2>3. CASE k \in Open
    <3>1. bid[k] \in Int /\ book[k].status = "open"
      BY <2>3, TradeAssumption DEF Open
    <3>2. Advances(book[k], Managed(book[k], gv[k], bid[k], t, fail).b)
      BY <1>1, <2>2, <3>1, ManagedAdvances
    <3> QED  BY <2>1, <2>3, <3>2
  <2>4. CASE k \notin Open  BY <1>2, <2>1, <2>4
  <2> QED  BY <2>3, <2>4
<1>7. CASE TickExpireOrder(t, eq)
  <2>1. PICK deleted \in Accepted("delete", Pending) :
          book' = [j \in Ticket |-> IF j \in deleted THEN Closed(book[j]) ELSE book[j]]
    BY <1>7 DEF TickExpireOrder
  <2>2. deleted \subseteq Live  BY DEF Accepted, Live
  <2> QED  BY <1>2, <1>3, <2>1, <2>2
<1> QED  BY <1>4, <1>5, <1>6, <1>7
         DEF OnTick, TickHardKill, TickFridayClose, TickResting, TickExpireTrigger,
             TickRetryLater, TickWatch

\* And in every step of OnTrade and of the broker.
LEMMA BrokerAdvances ==
  ASSUME TypeOK, LedgerInv, OnTrade \/ \E j \in Ticket : Fill(j) \/ ServerClose(j),
         NEW k \in Ticket
  PROVE  /\ Advances(book[k], book'[k])
         /\ book[k].status = "unused" => book'[k].status = "unused"
<1>1. book[k] \in Trade /\ TicketInv(book[k], gv[k])
  BY DEF TypeOK, LedgerInv
<1>2. Advances(book[k], book[k])  BY DEF Advances
<1>3. k \in Live => Advances(book[k], Closed(book[k]))
  BY <1>1, ClosedAdvances DEF Live, Open, Pending
<1>4. k \in Live => book[k].status # "unused"  BY DEF Live, Open, Pending
<1>5. CASE OnTrade
  <2>1. PICK deleted \in SUBSET Pending :
          book' = [j \in Ticket |-> IF j \in deleted THEN Closed(book[j]) ELSE book[j]]
    BY <1>5 DEF OnTrade, Accepted
  <2>2. deleted \subseteq Live  BY DEF Live
  <2> QED  BY <1>2, <1>3, <1>4, <2>1, <2>2
<1>6. ASSUME NEW j \in Ticket, Fill(j) \/ ServerClose(j)
      PROVE  /\ Advances(book[k], book'[k])
             /\ book[k].status = "unused" => book'[k].status = "unused"
  <2>1. CASE k # j
    <3>1. book'[k] = book[k]  BY <1>6, <2>1 DEF Fill, ServerClose, TypeOK
    <3> QED  BY <1>2, <3>1
  <2>2. CASE k = j /\ ServerClose(j)
    <3>1. book'[k] = Closed(book[k]) /\ book[k].status = "open"
      BY <2>2 DEF ServerClose, TypeOK
    <3> QED  BY <1>1, <3>1, ClosedAdvances
  <2>3. CASE k = j /\ Fill(j)
    <3>1. /\ book[k].status = "pending"
          /\ book'[k] = [book[k] EXCEPT !.status = "open", !.since = now]
      BY <2>3 DEF Fill, TypeOK
    <3>2. book'[k] \in Trade
      <4>1. now \in Nat  BY DEF TypeOK
      <4> QED  BY <1>1, <3>1, <4>1 DEF Trade
    <3>3. /\ book'[k].status = "open"
          /\ book'[k].vol = book[k].vol
          /\ book'[k].lot = book[k].lot
      BY <1>1, <3>1 DEF Trade
    <3>4. book[k].vol = book[k].lot  BY <1>1, <3>1 DEF TicketInv
    <3>5. StageOf(book'[k]) = "full"  BY <3>2, <3>3, <3>4, StagesOf
    <3>6. StageOf(book[k]) = "resting"  BY <1>1, <3>1, StagesOf
    <3>7. Advances(book[k], book'[k])  BY <3>5, <3>6, Succeeds DEF Advances
    <3> QED  BY <3>1, <3>7
  <2> QED  BY <1>6, <2>1, <2>2, <2>3
<1> QED  BY <1>5, <1>6

\* Sending an order advances its ticket, while no other trade is alive.
LEMMA PlacingAdvances ==
  ASSUME TypeOK, TradeInv, NEW t \in Nat, NEW eq, TickPlaceOrder(t, eq), TypeOK'
  PROVE  /\ \A k \in Ticket : Advances(book[k], book'[k])
         /\ \A k \in Ticket : book[k].status = "unused" /\ book'[k].status = "pending" =>
              \A j \in Ticket \ {k} : book[j].status \in {"unused", "gone"}
                                      /\ book'[j].status \in {"unused", "gone"}
<1>1. PICK i \in Ticket : /\ book[i].status = "unused"
                          /\ \E o : /\ o.status = "pending"
                                    /\ book' = [book EXCEPT ![i] = o]
  BY DEF TickPlaceOrder
<1>2. /\ book'[i].status = "pending"
      /\ \A j \in Ticket : j # i => book'[j] = book[j]
  BY <1>1 DEF TypeOK
<1>3. Open = {}  BY DEF TickPlaceOrder, Flat
<1>4. state = "TRIGGER_DETECTED"
  BY FlatStates DEF TickPlaceOrder, MayAttempt
<1>5. Pending = {}  BY <1>4 DEF TradeInv, NoneRests, Quiet
<1>6. \A j \in Ticket : book[j].status \in {"unused", "gone"}
  <2>1. \A j \in Ticket : book[j] \in Trade  BY DEF TypeOK
  <2> QED  BY <1>3, <1>5, <2>1 DEF Open, Pending, Trade
<1>7. ASSUME NEW k \in Ticket PROVE Advances(book[k], book'[k])
  <2>1. CASE k = i
    <3>1. book[i] \in Trade /\ book'[i] \in Trade  BY DEF TypeOK
    <3>2. StageOf(book[i]) = "none" /\ StageOf(book'[i]) = "resting"
      BY <1>1, <1>2, <3>1, StagesOf
    <3> QED  BY <2>1, <3>2, Succeeds DEF Advances
  <2>2. CASE k # i  BY <1>2, <2>2 DEF Advances
  <2> QED  BY <2>1, <2>2
<1>8. ASSUME NEW k \in Ticket, book[k].status = "unused", book'[k].status = "pending",
             NEW j \in Ticket \ {k}
      PROVE  book[j].status \in {"unused", "gone"} /\ book'[j].status \in {"unused", "gone"}
  <2>1. k = i  BY <1>2, <1>8
  <2> QED  BY <1>2, <1>6, <2>1
<1> QED  BY <1>7, <1>8

\* One step of the program or of the broker, ticket by ticket.
LEMMA StepAdvances ==
  ASSUME TypeOK, TypeOK', LedgerInv, TradeInv, Orderly, Fault \cap Unchecked = {},
         [Next]_vars
  PROVE  /\ \A k \in Ticket : Advances(book[k], book'[k])
         /\ \A k \in Ticket : book[k].status = "unused" /\ book'[k].status = "pending" =>
              \A j \in Ticket \ {k} : book[j].status \in {"unused", "gone"}
                                      /\ book'[j].status \in {"unused", "gone"}
<1>1. ASSUME NEW t \in now .. Lesser(now + MaxStep, MaxTime), NEW eq \in EquityLevel,
             TickPlaceOrder(t, eq)
      PROVE  /\ \A k \in Ticket : Advances(book[k], book'[k])
             /\ \A k \in Ticket : book[k].status = "unused" /\ book'[k].status = "pending" =>
                  \A j \in Ticket \ {k} : book[j].status \in {"unused", "gone"}
                                          /\ book'[j].status \in {"unused", "gone"}
  BY <1>1, ClockType, PlacingAdvances
<1>2. ASSUME \A t \in now .. Lesser(now + MaxStep, MaxTime), eq \in EquityLevel :
               ~TickPlaceOrder(t, eq)
      PROVE  /\ \A k \in Ticket : Advances(book[k], book'[k])
             /\ \A k \in Ticket : ~(book[k].status = "unused" /\ book'[k].status = "pending")
  <2>1. ASSUME NEW k \in Ticket PROVE Advances(book[k], book'[k])
    <3>1. ASSUME NEW t \in now .. Lesser(now + MaxStep, MaxTime), NEW eq \in EquityLevel,
                 OnTick(t, eq)
          PROVE  Advances(book[k], book'[k])
      BY <1>2, <3>1, ClockType, OnTickAdvances
    <3>2. ASSUME NEW t \in now .. Lesser(now + MaxStep, MaxTime), NEW eq \in EquityLevel,
                 Restart(t, eq) \/ CrashInPartial(t, eq)
          PROVE  FALSE
      BY <3>2 DEF Restart, CrashInPartial, Orderly
    <3>3. CASE OnTrade \/ \E j \in Ticket : Fill(j) \/ ServerClose(j)
      BY <3>3, BrokerAdvances
    <3>4. CASE UNCHANGED vars  BY <3>4 DEF vars, Advances
    <3> QED  BY <3>1, <3>2, <3>3, <3>4 DEF Next
  <2>2. \A k \in Ticket : ~(book[k].status = "unused" /\ book'[k].status = "pending")
    BY <1>2, OnlyPlaceOrderSends
  <2> QED  BY <2>1, <2>2
<1> QED  BY <1>1, <1>2

\* The expert advisor implements TradeContract, for every lot, target, time and bid
\* and every refusal of partial and final closes: parts are taken in the announced
\* order, each at most once, one trade is alive at a time, and what is over stays over.
THEOREM KeepsTheContract ==
  ASSUME Orderly, Fault \cap Unchecked = {}
  PROVE  Spec => ImplementsContract
<1> DEFINE stages == [k \in Ticket |-> StageOf(book[k])]
<1>1. Init => Contract!Init
  <2> SUFFICES ASSUME Init PROVE Contract!Init  OBVIOUS
  <2>1. \A k \in Ticket : book[k] = NoOrder  BY DEF Init
  <2>2. StageOf(NoOrder) = "none"  BY ClosedTyped, StagesOf DEF NoOrder
  <2> QED  BY <2>1, <2>2 DEF Contract!Init
<1>2. TypeOK /\ TypeOK' /\ LedgerInv /\ TradeInv /\ [Next]_vars => Contract!Step
  <2> SUFFICES ASSUME TypeOK, TypeOK', LedgerInv, TradeInv, [Next]_vars
               PROVE  Contract!Step
    OBVIOUS
  <2>1. \A k \in Ticket : stages[k] = StageOf(book[k]) /\ stages'[k] = StageOf(book'[k])
    OBVIOUS
  <2>2. \A k \in Ticket : book[k] \in Trade /\ book'[k] \in Trade  BY DEF TypeOK
  <2>3. \A k \in Ticket : stages'[k] \in {stages[k]} \cup Contract!Successors(stages[k])
    BY <2>1, StepAdvances DEF Advances
  <2>4. ASSUME NEW k \in Ticket, stages[k] = "none", stages'[k] = "resting",
               NEW j \in Ticket \ {k}
        PROVE  stages[j] \notin Contract!Live /\ stages'[j] \notin Contract!Live
    <3>1. book[k].status = "unused" /\ book'[k].status = "pending"
      BY <2>1, <2>2, <2>4, StagesOf
    <3>2. /\ book[j].status \in {"unused", "gone"}
          /\ book'[j].status \in {"unused", "gone"}
      BY <3>1, StepAdvances
    <3> QED  BY <2>1, <2>2, <3>2, StagesOf
  <2>5. DOMAIN stages' = Ticket  OBVIOUS
  <2> HIDE DEF stages
  <2>6. /\ \A k \in Ticket : stages'[k] \in {stages[k]} \cup Contract!Successors(stages[k])
        /\ \A k \in Ticket : stages[k] = "none" /\ stages'[k] = "resting" =>
             \A j \in Ticket \ {k} : stages[j] \notin Contract!Live
                                     /\ stages'[j] \notin Contract!Live
        /\ DOMAIN stages' = Ticket
    BY <2>3, <2>4, <2>5
  <2> QED  BY <2>6 DEF Contract!Step, stages
<1>3. TypeOK /\ TypeOK' /\ LedgerInv /\ TradeInv /\ [Next]_vars => Contract!Next
  BY <1>2 DEF Contract!Next
<1> HIDE DEF stages
<1> QED  BY <1>1, <1>3, LedgerInvariant, TradeInvariant, TypeCorrect, PTL
         DEF Spec, ImplementsContract, Contract!Spec
=============================================================================
