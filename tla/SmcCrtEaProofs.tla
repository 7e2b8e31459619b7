--------------------------- MODULE SmcCrtEaProofs ---------------------------
(***************************************************************************)
(* Theorems about SmcCrtEa for every value of its constants.               *)
(***************************************************************************)
EXTENDS SmcCrtEa, TLAPS

\* The two working records of one pass of ManageOpenPosition.
PassType == [ledger : Ledger, lot : Nat, target : Nat]
WorkType == [vol : Nat, stop : Int, told : 0 .. 2, done : 0 .. 2]

----------------------------------------------------------------------------
\* What the operators of one pass return

\* The start of a day is a time: the remainder never exceeds the dividend.
LEMMA DayStartType == ASSUME NEW t \in Nat PROVE GetDayStart(t) \in Nat
BY TimeAssumption DEF GetDayStart

\* The last closed bar has a number.
LEMMA ClosedBarType == ASSUME NEW t \in Nat PROVE ClosedBar(t) \in Nat
BY TimeAssumption DEF ClosedBar

\* Initialising the ledger and following the bid keep it a ledger.
LEMMA TrackedType ==
  ASSUME NEW b \in Trade, NEW g \in Ledger, NEW x \in Int, NEW t \in Nat
  PROVE  Tracked(b, g, x, t) \in Ledger
<1>1. CASE g.known /\ g.rDist # 0
  <2>1. Greater(g.extreme, x) \in Int  BY DEF Greater, Ledger
  <2> QED  BY <1>1, <2>1 DEF Tracked, Ledger
<1>2. CASE ~(g.known /\ g.rDist # 0)
  <2> DEFINE r == IF g.initialStop # 0 THEN Abs(g.initialStop) ELSE Abs(b.stop)
  <2>1. /\ b.vol \in Nat
        /\ b.stop \in Int
        /\ g.initialStop \in Int
    BY DEF Ledger, Trade
  <2>2. r \in Nat  BY <2>1 DEF Abs
  <2>3. Tracked(b, g, x, t) =
          [known |-> TRUE, origLot |-> b.vol, partials |-> 0, rDist |-> r,
           entryTime |-> t, extreme |-> x, initialStop |-> g.initialStop]
    BY <1>2 DEF Tracked
  <2> HIDE DEF r
  <2> QED  BY <2>1, <2>2, <2>3 DEF Ledger
<1> QED  BY <1>1, <1>2

\* The pass starts from well-typed records.
LEMMA PassTyped ==
  ASSUME NEW b \in Trade, NEW g \in Ledger, NEW x \in Int, NEW t \in Nat
  PROVE  /\ Pass(b, g, x, t) \in PassType
         /\ Before(b, g, Pass(b, g, x, t)) \in WorkType
<1>1. Tracked(b, g, x, t) \in Ledger  BY TrackedType
<1>2. (IF g.known THEN g.origLot ELSE b.vol) \in Nat  BY DEF Ledger, Trade
<1>3. (IF g.known THEN g.partials ELSE 0) \in 0 .. 2  BY DEF Ledger
<1>4. Tracked(b, g, x, t).partials \in 0 .. 2  BY <1>1 DEF Ledger
<1>5. /\ b.vol \in Nat
      /\ b.stop \in Int
      /\ b.target \in Nat
  BY DEF Trade
<1> QED  BY <1>1, <1>2, <1>3, <1>4, <1>5 DEF Pass, PassType, Before, WorkType

\* Recording that partial i was taken keeps the working record well typed.
LEMMA RecordedTyped ==
  ASSUME NEW v \in WorkType, NEW i \in 0 .. 2
  PROVE  Recorded(v, i) \in WorkType
BY DEF WorkType, Recorded

\* The first partial keeps the working record well typed: the volume it takes is
\* smaller than the volume there is.
LEMMA Partial1Typed ==
  ASSUME NEW p \in PassType, NEW w \in WorkType, NEW fail
  PROVE  /\ Fires1(p, w) => Taken1(p, w, fail) \in WorkType
         /\ AfterPartial1(p, w, fail) \in WorkType
<1>1. PartialLot1(p.lot) \in Nat  BY DEF PartialLot1, PassType
<1>2. ASSUME Fires1(p, w) PROVE Taken1(p, w, fail) \in WorkType
  <2>1. w.vol - PartialLot1(p.lot) \in Nat  BY <1>1, <1>2 DEF Fires1, WorkType
  <2>2. (IF "modify1" \in fail THEN w.stop ELSE 0) \in Int  BY DEF WorkType
  <2>3. w.told \in 0 .. 2 /\ w.done \in 0 .. 2  BY DEF WorkType
  <2> QED  BY <2>1, <2>2, <2>3 DEF Taken1, WorkType
<1>3. ASSUME Fires1(p, w), "partial1" \notin fail
      PROVE  AfterPartial1(p, w, fail) \in WorkType
  <2> DEFINE v == Taken1(p, w, fail)
  <2>1. v \in WorkType  BY <1>2, <1>3
  <2>2. AfterPartial1(p, w, fail) = Recorded(v, 1)
    BY <1>3 DEF AfterPartial1
  <2>3. 1 \in 0 .. 2  OBVIOUS
  <2> HIDE DEF v
  <2> QED  BY <2>1, <2>2, <2>3, RecordedTyped
<1>4. ASSUME ~(Fires1(p, w) /\ "partial1" \notin fail)
      PROVE  AfterPartial1(p, w, fail) \in WorkType
  BY <1>4 DEF AfterPartial1
<1> QED  BY <1>2, <1>3, <1>4

\* So does the second.
LEMMA Partial2Typed ==
  ASSUME NEW p \in PassType, NEW w \in WorkType, NEW fail
  PROVE  /\ Fires2(p, w) => Taken2(p, w, fail) \in WorkType
         /\ AfterPartial2(p, w, fail) \in WorkType
<1>1. PartialLot2(p.lot) \in Nat  BY DEF PartialLot2, PassType
<1>2. ASSUME Fires2(p, w) PROVE Taken2(p, w, fail) \in WorkType
  <2>1. w.vol - PartialLot2(p.lot) \in Nat  BY <1>1, <1>2 DEF Fires2, WorkType
  <2>2. (IF "modify2" \in fail THEN w.stop ELSE p.ledger.rDist) \in Int
    BY DEF WorkType, PassType, Ledger
  <2>3. w.told \in 0 .. 2 /\ w.done \in 0 .. 2  BY DEF WorkType
  <2> QED  BY <2>1, <2>2, <2>3 DEF Taken2, WorkType
<1>3. ASSUME Fires2(p, w), "partial2" \notin fail
      PROVE  AfterPartial2(p, w, fail) \in WorkType
  <2> DEFINE v == Taken2(p, w, fail)
  <2>1. v \in WorkType  BY <1>2, <1>3
  <2>2. AfterPartial2(p, w, fail) = Recorded(v, 2)
    BY <1>3 DEF AfterPartial2
  <2>3. 2 \in 0 .. 2  OBVIOUS
  <2> HIDE DEF v
  <2> QED  BY <2>1, <2>2, <2>3, RecordedTyped
<1>4. ASSUME ~(Fires2(p, w) /\ "partial2" \notin fail)
      PROVE  AfterPartial2(p, w, fail) \in WorkType
  BY <1>4 DEF AfterPartial2
<1> QED  BY <1>2, <1>3, <1>4

\* Writing the working record back gives a trade and a ledger.
LEMMA WrittenBackTyped ==
  ASSUME NEW b \in Trade, NEW p \in PassType, NEW w \in WorkType
  PROVE  Scaled(b, w) \in Trade /\ Told(p, w) \in Ledger
<1>1. w.vol \in Nat /\ w.stop \in Int /\ w.told \in 0 .. 2  BY DEF WorkType
<1>2. Scaled(b, w) \in Trade  BY <1>1 DEF Scaled, Trade
<1>3. p.ledger \in Ledger  BY DEF PassType
<1>4. Told(p, w) \in Ledger  BY <1>1, <1>3 DEF Told, Ledger
<1> QED  BY <1>2, <1>4

\* An empty ledger is a ledger, a closed trade is a trade.
LEMMA ClosedTyped ==
  /\ NoGV \in Ledger
  /\ NoOrder \in Trade
  /\ \A b \in Trade : Closed(b) \in Trade
<1>1. NoGV \in Ledger  BY DEF NoGV, Ledger
<1>2. NoOrder \in Trade  BY DEF NoOrder, Trade
<1>3. ASSUME NEW b \in Trade PROVE Closed(b) \in Trade  BY DEF Trade, Closed
<1> QED  BY <1>1, <1>2, <1>3

\* A whole pass over a position returns a trade and a ledger.
LEMMA ManagedTyped ==
  ASSUME NEW b \in Trade, NEW g \in Ledger, NEW x \in Int, NEW t \in Nat, NEW fail
  PROVE  Managed(b, g, x, t, fail).b \in Trade /\ Managed(b, g, x, t, fail).g \in Ledger
<1> DEFINE p == Pass(b, g, x, t)
           w1 == AfterPartial1(p, Before(b, g, p), fail)
           w == AfterPartial2(p, w1, fail)
<1>1. p \in PassType /\ Before(b, g, p) \in WorkType  BY PassTyped
<1>2. w1 \in WorkType  BY <1>1, Partial1Typed
<1>3. w \in WorkType  BY <1>1, <1>2, Partial2Typed
<1>4. Scaled(b, w) \in Trade /\ Told(p, w) \in Ledger
  BY <1>1, <1>3, WrittenBackTyped
<1> QED  BY <1>4, ClosedTyped DEF Managed

----------------------------------------------------------------------------
\* Type correctness

\* The times a tick or a restart may carry are times.
LEMMA ClockType ==
  ASSUME TypeOK, NEW t \in now .. Lesser(now + MaxStep, MaxTime)
  PROVE  t \in Nat
BY TimeAssumption DEF TypeOK, Lesser

\* The part of TypeOK that a quote decides.
LEMMA QuoteTyped ==
  ASSUME TypeOK, NEW t \in Nat, NEW eq \in EquityLevel, Quote(t, eq)
  PROVE  /\ now' \in Nat
         /\ equity' \in EquityLevel
         /\ dayStart' \in Nat
         /\ dayEquity' \in EquityLevel
BY DayStartType DEF TypeOK, Quote, StartEquity

\* The part of TypeOK that the new-bar check decides.
LEMMA NewBarTyped ==
  ASSUME TypeOK, NEW t \in Nat, NEW s \in TradeState, NEW attempt \in Nat,
         NewBar(t, s, attempt)
  PROVE  /\ lastBar' \in Nat
         /\ state' \in TradeState
         /\ setup' \in [bar : Nat, expires : Nat]
         /\ lastAttempt' \in Nat
<1>1. ClosedBar(t) \in Nat  BY ClosedBarType
<1>2. t + EntryWindow \in Nat  BY TimeAssumption
<1> QED  BY <1>1, <1>2 DEF TypeOK, NewBar, TradeState

\* The states and times the flat branch computes.
LEMMA FlatTyped ==
  ASSUME TypeOK, NEW t \in Nat, NEW eq \in EquityLevel
  PROVE  /\ CheckedState(t, eq) \in TradeState
         /\ FlatState(t, eq) \in TradeState
         /\ FlatCooldown(t, eq) \in Nat
BY TimeAssumption DEF TypeOK, CheckedState, FlatState, FlatCooldown, TradeState

\* Closing any set of trades leaves a book.
LEMMA ClosingTyped ==
  ASSUME NEW B \in [Ticket -> Trade], NEW S
  PROVE  [k \in Ticket |-> IF k \in S THEN Closed(B[k]) ELSE B[k]] \in [Ticket -> Trade]
BY ClosedTyped

\* CloseAllOurPositions leaves a book and ledgers.
LEMMA CloseAllTyped ==
  ASSUME TypeOK, CloseAllOurPositions
  PROVE  /\ gv' \in [Ticket -> Ledger]
         /\ book' \in [Ticket -> Trade]
         /\ tradeEvent' \in BOOLEAN
<1>1. PICK closed \in Accepted("closeAll", Open), deleted \in Accepted("delete", Pending) :
        /\ book' = [k \in Ticket |-> IF k \in closed \cup deleted THEN Closed(book[k])
                                                                  ELSE book[k]]
        /\ gv' = [k \in Ticket |-> IF k \in Open THEN NoGV ELSE gv[k]]
        /\ tradeEvent' = (tradeEvent \/ closed \cup deleted # {})
  BY DEF CloseAllOurPositions
<1>2. book' \in [Ticket -> Trade]  BY <1>1, ClosingTyped DEF TypeOK
<1>3. gv' \in [Ticket -> Ledger]  BY <1>1, ClosedTyped DEF TypeOK
<1>4. tradeEvent' \in BOOLEAN  BY <1>1 DEF TypeOK
<1> QED  BY <1>2, <1>3, <1>4

\* Every branch of OnTick preserves the types.
LEMMA OnTickTyped ==
  ASSUME TypeOK, NEW t \in Nat, NEW eq \in EquityLevel, OnTick(t, eq)
  PROVE  TypeOK'
<1>1. CASE TickHardKill(t, eq)
  BY <1>1, QuoteTyped, CloseAllTyped DEF TickHardKill, TypeOK, TradeState
<1>2. CASE TickFridayClose(t, eq)
  <2>1. /\ gv' \in [Ticket -> Ledger]
        /\ book' \in [Ticket -> Trade]
        /\ tradeEvent' \in BOOLEAN
    BY <1>2, CloseAllTyped DEF TickFridayClose, TypeOK
  <2> QED  BY <1>2, <2>1, QuoteTyped, FlatTyped DEF TickFridayClose, TypeOK
<1>3. CASE TickManage(t, eq)
  <2>1. PICK bid \in [Open -> Excursion], fail \in SUBSET (Fault \cap Request) :
          LET after == [k \in Open |-> Managed(book[k], gv[k], bid[k], t, fail)]
          IN  /\ book' = [k \in Ticket |-> IF k \in Open THEN after[k].b ELSE book[k]]
              /\ gv' = [k \in Ticket |-> IF k \in Open THEN after[k].g ELSE gv[k]]
              /\ tradeEvent' = (tradeEvent \/ book' # book)
    BY <1>3 DEF TickManage
  <2>2. ASSUME NEW k \in Ticket, k \in Open
        PROVE  /\ Managed(book[k], gv[k], bid[k], t, fail).b \in Trade
               /\ Managed(book[k], gv[k], bid[k], t, fail).g \in Ledger
    <3>1. bid[k] \in Int  BY <2>2, TradeAssumption
    <3>2. book[k] \in Trade /\ gv[k] \in Ledger  BY DEF TypeOK
    <3> QED  BY <3>1, <3>2, ManagedTyped
  <2>3. book' \in [Ticket -> Trade]  BY <2>1, <2>2 DEF TypeOK
  <2>4. gv' \in [Ticket -> Ledger]  BY <2>1, <2>2 DEF TypeOK
  <2>5. tradeEvent' \in BOOLEAN  BY <2>1 DEF TypeOK
  <2> QED  BY <1>3, <2>3, <2>4, <2>5, QuoteTyped DEF TickManage, TypeOK, TradeState
<1>4. CASE TickResting(t, eq)
  BY <1>4, QuoteTyped, FlatTyped DEF TickResting, Flat, TypeOK
<1>5. CASE TickExpireOrder(t, eq)
  <2>1. book' \in [Ticket -> Trade] /\ tradeEvent' \in BOOLEAN
    BY <1>5, ClosingTyped DEF TickExpireOrder, TypeOK
  <2>2. "IDLE" \in TradeState /\ lastAttempt \in Nat  BY DEF TradeState, TypeOK
  <2> QED  BY <1>5, <2>1, <2>2, QuoteTyped, FlatTyped, NewBarTyped
           DEF TickExpireOrder, Flat, TypeOK
<1>6. CASE TickExpireTrigger(t, eq)
  <2>1. "IDLE" \in TradeState /\ lastAttempt \in Nat  BY DEF TradeState, TypeOK
  <2> QED  BY <1>6, <2>1, QuoteTyped, FlatTyped, NewBarTyped
           DEF TickExpireTrigger, Flat, TypeOK
<1>7. CASE TickPlaceOrder(t, eq)
  <2>1. PICK k \in Ticket, lot \in Lot, target \in Target :
          book' = [book EXCEPT ![k] = [status |-> "pending", bar |-> setup.bar,
                                       lot |-> lot, vol |-> lot, stop |-> -1,
                                       target |-> target, since |-> t]]
    BY <1>7 DEF TickPlaceOrder
  <2>2. lot \in Nat /\ target \in Nat /\ setup.bar \in Nat
    BY TradeAssumption DEF TypeOK
  <2>3. [status |-> "pending", bar |-> setup.bar, lot |-> lot, vol |-> lot,
         stop |-> -1, target |-> target, since |-> t] \in Trade
    BY <2>2 DEF Trade
  <2>4. book' \in [Ticket -> Trade]  BY <2>1, <2>3 DEF TypeOK
  <2>5. "WAITING_ENTRY" \in TradeState  BY DEF TradeState
  <2> QED  BY <1>7, <2>4, <2>5, QuoteTyped, FlatTyped, NewBarTyped
           DEF TickPlaceOrder, Flat, TypeOK
<1>8. CASE TickRetryLater(t, eq)
  <2>1. "TRIGGER_DETECTED" \in TradeState  BY DEF TradeState
  <2> QED  BY <1>8, <2>1, QuoteTyped, FlatTyped, NewBarTyped
           DEF TickRetryLater, Flat, TypeOK
<1>9. CASE TickWatch(t, eq)
  <2>1. lastAttempt \in Nat  BY DEF TypeOK
  <2> QED  BY <1>9, <2>1, QuoteTyped, FlatTyped, NewBarTyped
           DEF TickWatch, Flat, TypeOK
<1> QED  BY <1>1, <1>2, <1>3, <1>4, <1>5, <1>6, <1>7, <1>8, <1>9 DEF OnTick

\* What OnInit decides has its type.
LEMMA OnInitTyped ==
  ASSUME TypeOK, NEW t \in Nat, NEW eq \in EquityLevel, OnInit(t, eq)
  PROVE  /\ now' \in Nat
         /\ equity' \in EquityLevel
         /\ dayStart' \in Nat
         /\ dayEquity' \in EquityLevel
         /\ setup' \in [bar : Nat, expires : Nat]
         /\ lastBar' \in Nat
         /\ cooldownUntil' \in Nat
         /\ lastAttempt' \in Nat
         /\ tradeEvent' \in BOOLEAN
<1>1. setup' \in [bar : Nat, expires : Nat]
  <2>1. [bar |-> 0, expires |-> 0] \in [bar : Nat, expires : Nat]  OBVIOUS
  <2> QED  BY <2>1 DEF TypeOK, OnInit
<1>2. now' \in Nat /\ equity' \in EquityLevel /\ dayEquity' \in EquityLevel
  BY DEF OnInit
<1>3. dayStart' \in Nat  BY DayStartType DEF OnInit
<1>4. lastBar' \in Nat  BY DEF TypeOK, OnInit
<1>5. cooldownUntil' \in Nat  BY DEF TypeOK, OnInit
<1>6. lastAttempt' \in Nat  BY DEF TypeOK, OnInit
<1>7. tradeEvent' \in BOOLEAN  BY DEF OnInit
<1> QED  BY <1>1, <1>2, <1>3, <1>4, <1>5, <1>6, <1>7

\* A restart keeps the types, also one in the middle of a partial close.
LEMMA RestartTyped ==
  ASSUME TypeOK, NEW t \in Nat, NEW eq \in EquityLevel,
         Restart(t, eq) \/ CrashInPartial(t, eq)
  PROVE  TypeOK'
<1>1. CASE Restart(t, eq)
  <2>1. state' \in TradeState  BY <1>1 DEF Restart, StateOnInit, TradeState
  <2> QED  BY <1>1, <2>1, OnInitTyped DEF Restart, TypeOK
<1>2. CASE CrashInPartial(t, eq)
  <2>1. PICK k \in Open, x \in Excursion, fail \in SUBSET (Fault \cap Request) :
          LET p  == Pass(book[k], gv[k], x, t)
              w0 == Before(book[k], gv[k], p)
              w1 == AfterPartial1(p, w0, fail)
          IN  \/ /\ Fires1(p, w0)
                 /\ book' = [book EXCEPT ![k] = Scaled(@, Taken1(p, w0, fail))]
                 /\ gv' = [gv EXCEPT ![k] = Told(p, w0)]
              \/ /\ Fires2(p, w1)
                 /\ book' = [book EXCEPT ![k] = Scaled(@, Taken2(p, w1, fail))]
                 /\ gv' = [gv EXCEPT ![k] = Told(p, w1)]
    BY <1>2 DEF CrashInPartial
  <2> DEFINE p  == Pass(book[k], gv[k], x, t)
             w0 == Before(book[k], gv[k], p)
             w1 == AfterPartial1(p, w0, fail)
  <2>2. k \in Ticket /\ x \in Int /\ book[k] \in Trade /\ gv[k] \in Ledger
    BY TradeAssumption DEF TypeOK, Open
  <2>3. p \in PassType /\ w0 \in WorkType  BY <2>2, PassTyped
  <2>4. w1 \in WorkType  BY <2>3, Partial1Typed
  <2>5. \/ /\ Fires1(p, w0)
           /\ book' = [book EXCEPT ![k] = Scaled(@, Taken1(p, w0, fail))]
           /\ gv' = [gv EXCEPT ![k] = Told(p, w0)]
        \/ /\ Fires2(p, w1)
           /\ book' = [book EXCEPT ![k] = Scaled(@, Taken2(p, w1, fail))]
           /\ gv' = [gv EXCEPT ![k] = Told(p, w1)]
    BY <2>1
  <2> HIDE DEF p, w0, w1
  <2>6. book' \in [Ticket -> Trade] /\ gv' \in [Ticket -> Ledger]
    <3>1. CASE /\ Fires1(p, w0)
               /\ book' = [book EXCEPT ![k] = Scaled(@, Taken1(p, w0, fail))]
               /\ gv' = [gv EXCEPT ![k] = Told(p, w0)]
      BY <2>2, <2>3, <3>1, Partial1Typed, WrittenBackTyped DEF TypeOK
    <3>2. CASE /\ Fires2(p, w1)
               /\ book' = [book EXCEPT ![k] = Scaled(@, Taken2(p, w1, fail))]
               /\ gv' = [gv EXCEPT ![k] = Told(p, w1)]
      BY <2>2, <2>3, <2>4, <3>2, Partial2Typed, WrittenBackTyped DEF TypeOK
    <3> QED  BY <2>5, <3>1, <3>2
  <2>7. state' \in TradeState  BY <1>2 DEF CrashInPartial, StateOnInit, TradeState
  <2> QED  BY <1>2, <2>6, <2>7, OnInitTyped DEF CrashInPartial, TypeOK
<1> QED  BY <1>1, <1>2

\* What the broker does and how OnTrade records it keep the types.
LEMMA BrokerTyped ==
  ASSUME TypeOK, OnTrade \/ \E k \in Ticket : Fill(k) \/ ServerClose(k)
  PROVE  TypeOK'
<1>1. CASE OnTrade
  <2> DEFINE fresh == {k \in Open : ~gv[k].known}
  <2>1. PICK bid \in [fresh -> Excursion] :
          gv' = [k \in Ticket |->
                   IF k \notin fresh THEN gv[k]
                   ELSE [known |-> TRUE, origLot |-> book[k].vol,
                         rDist |-> Abs(book[k].stop), partials |-> 0,
                         entryTime |-> now, extreme |-> bid[k],
                         initialStop |-> book[k].stop]]
    BY <1>1 DEF OnTrade
  <2>2. ASSUME NEW k \in fresh
        PROVE  [known |-> TRUE, origLot |-> book[k].vol, rDist |-> Abs(book[k].stop),
                partials |-> 0, entryTime |-> now, extreme |-> bid[k],
                initialStop |-> book[k].stop] \in Ledger
    <3>1. bid[k] \in Int  BY <2>2, TradeAssumption
    <3>2. book[k].vol \in Nat /\ book[k].stop \in Int /\ now \in Nat
      BY DEF TypeOK, Trade, Open
    <3>3. Abs(book[k].stop) \in Nat  BY <3>2 DEF Abs
    <3> QED  BY <3>1, <3>2, <3>3 DEF Ledger
  <2>3. gv' \in [Ticket -> Ledger]  BY <2>1, <2>2 DEF TypeOK
  <2>4. PICK deleted \in (IF fresh = {} THEN {{}} ELSE Accepted("delete", Pending)) :
          /\ book' = [k \in Ticket |-> IF k \in deleted THEN Closed(book[k])
                                                        ELSE book[k]]
          /\ tradeEvent' = (deleted # {})
    BY <1>1 DEF OnTrade
  <2>5. book' \in [Ticket -> Trade] /\ tradeEvent' \in BOOLEAN
    BY <2>4, ClosingTyped DEF TypeOK
  <2> QED  BY <1>1, <2>3, <2>5 DEF OnTrade, memory, TypeOK
<1>2. CASE \E k \in Ticket : Fill(k) \/ ServerClose(k)
  <2>1. PICK k \in Ticket : Fill(k) \/ ServerClose(k)  BY <1>2
  <2>2. book[k] \in Trade /\ now \in Nat  BY DEF TypeOK
  <2>3. [book[k] EXCEPT !.status = "open", !.since = now] \in Trade
    BY <2>2 DEF Trade
  <2>4. book' \in [Ticket -> Trade]
    BY <2>1, <2>2, <2>3, ClosedTyped DEF Fill, ServerClose, TypeOK
  <2> QED  BY <2>1, <2>4 DEF Fill, ServerClose, memory, TypeOK
<1> QED  BY <1>1, <1>2

\* Every variable keeps its type in every behaviour of the program.
THEOREM TypeCorrect == Spec => []TypeOK
<1>1. Init => TypeOK
  <2> SUFFICES ASSUME Init PROVE TypeOK  OBVIOUS
  <2>1. BarLen \in Nat  BY TimeAssumption
  <2> QED  BY <2>1, DayStartType, ClosedTyped DEF Init, TypeOK, TradeState
<1>2. TypeOK /\ [Next]_vars => TypeOK'
  <2> SUFFICES ASSUME TypeOK, [Next]_vars PROVE TypeOK'  OBVIOUS
  <2>1. ASSUME NEW t \in now .. Lesser(now + MaxStep, MaxTime), NEW eq \in EquityLevel,
               OnTick(t, eq) \/ Restart(t, eq) \/ CrashInPartial(t, eq)
        PROVE  TypeOK'
    BY <2>1, ClockType, OnTickTyped, RestartTyped
  <2>2. CASE OnTrade \/ \E k \in Ticket : Fill(k) \/ ServerClose(k)
    BY <2>2, BrokerTyped
  <2>3. CASE UNCHANGED vars
    BY <2>3 DEF vars, memory, TypeOK
  <2> QED  BY <2>1, <2>2, <2>3 DEF Next
<1> QED  BY <1>1, <1>2, PTL DEF Spec

----------------------------------------------------------------------------
\* The daily-loss halt

\* What one pass leaves of a position is open or gone, never pending.
LEMMA ManagedStatus ==
  ASSUME NEW b \in Trade, NEW g, NEW x, NEW t, NEW fail, b.status = "open"
  PROVE  Managed(b, g, x, t, fail).b.status # "pending"
<1> DEFINE p == Pass(b, g, x, t)
           w == AfterPartial2(p, AfterPartial1(p, Before(b, g, p), fail), fail)
           m == Managed(b, g, x, t, fail)
<1>1. m.b \in {b, Closed(b), Scaled(b, w)}  BY DEF Managed
<1>2. Closed(b).status = "gone"  BY DEF Closed, Trade
<1> HIDE DEF w
<1>3. Scaled(b, w).status = "open"  BY DEF Scaled, Trade
<1> HIDE DEF m
<1>4. m.b.status # "pending"  BY <1>1, <1>2, <1>3
<1> QED  BY <1>4 DEF m

\* A step that sends the order k is a tick that places an order.
LEMMA OnlyPlaceOrderSends ==
  ASSUME TypeOK, [Next]_vars, NEW k \in Ticket,
         book[k].status = "unused", book'[k].status = "pending"
  PROVE  \E t \in now .. Lesser(now + MaxStep, MaxTime), eq \in EquityLevel :
           TickPlaceOrder(t, eq)
<1>1. book[k] \in Trade  BY DEF TypeOK
<1>2. Closed(book[k]).status = "gone"  BY <1>1 DEF Closed, Trade
<1>3. k \notin Open /\ k \notin Pending  BY DEF Open, Pending
<1>4. ASSUME NEW t \in now .. Lesser(now + MaxStep, MaxTime), NEW eq \in EquityLevel,
             OnTick(t, eq)
      PROVE  TickPlaceOrder(t, eq)
  <2>1. ~CloseAllOurPositions
    BY <1>2 DEF CloseAllOurPositions
  <2>2. ~TickManage(t, eq)
    BY <1>3 DEF TickManage
  <2>3. ~TickExpireOrder(t, eq)
    BY <1>2 DEF TickExpireOrder
  <2>4. book' # book  OBVIOUS
  <2> QED  BY <1>4, <2>1, <2>2, <2>3, <2>4
           DEF OnTick, TickHardKill, TickFridayClose, TickResting, TickExpireTrigger,
               TickRetryLater, TickWatch
<1>5. ASSUME NEW t \in now .. Lesser(now + MaxStep, MaxTime), NEW eq \in EquityLevel,
             Restart(t, eq) \/ CrashInPartial(t, eq)
      PROVE  FALSE
  <2>1. ~Restart(t, eq)  BY DEF Restart
  <2>2. ASSUME CrashInPartial(t, eq)  PROVE FALSE
    <3>1. PICK j \in Open : \E b : book' = [book EXCEPT ![j] = b]
      BY <2>2 DEF CrashInPartial
    <3> QED  BY <1>3, <3>1 DEF TypeOK
  <2> QED  BY <1>5, <2>1, <2>2
<1>6. ~OnTrade  BY <1>2 DEF OnTrade
<1>7. ASSUME NEW j \in Ticket, Fill(j) \/ ServerClose(j)  PROVE FALSE
  <2>1. j # k  BY <1>7, <1>1, <1>2 DEF Fill, ServerClose, TypeOK
  <2> QED  BY <1>7, <2>1 DEF Fill, ServerClose, TypeOK
<1>8. book' # book  OBVIOUS
<1> QED  BY <1>4, <1>5, <1>6, <1>7, <1>8 DEF Next, vars

\* An attempt to enter is made only when the soft limit is not reached.
LEMMA AttemptChecksLoss ==
  ASSUME NEW t, NEW eq, MayAttempt(t, eq)
  PROVE  ~SoftLoss(t, eq)
BY DEF MayAttempt, FlatState, CheckedState

\* Whatever state the loss finds the program in, a tick that has lost the soft
\* limit since the start of its day sends no order.
THEOREM DailyLossStopsOrders == Spec => NoOrderUnderDailyLoss
<1>1. ASSUME TypeOK, [Next]_vars, NEW k \in Ticket,
             book[k].status = "unused", book'[k].status = "pending"
      PROVE  ~LossAtLeast(MaxLossPct, dayEquity', equity')
  <2>1. PICK t \in now .. Lesser(now + MaxStep, MaxTime), eq \in EquityLevel :
          TickPlaceOrder(t, eq)
    BY <1>1, OnlyPlaceOrderSends
  <2>2. dayEquity' = StartEquity(t, eq) /\ equity' = eq
    BY <2>1 DEF TickPlaceOrder, Flat, Quote
  <2>3. ~SoftLoss(t, eq)  BY <2>1, AttemptChecksLoss DEF TickPlaceOrder
  <2> QED  BY <2>2, <2>3 DEF SoftLoss
<1>2. TypeOK /\ [Next]_vars =>
        [\A k \in Ticket : book[k].status = "unused" /\ book'[k].status = "pending"
           => ~LossAtLeast(MaxLossPct, dayEquity', equity')]_vars
  BY <1>1
<1> QED  BY <1>2, TypeCorrect, PTL DEF Spec, NoOrderUnderDailyLoss

----------------------------------------------------------------------------
\* The ledger agrees with the broker, and a stop is only ever tightened, where the
\* broker does not refuse the requests whose result the program ignores.

\* The requests whose failure the program does not look at, and the crash
\* between a partial close and its entry in the ledger.
Unchecked == {"hold", "closeAll", "modify1", "modify2", "crash"}

\* The inductive invariant, for one ticket.  A ledger exists only for a ticket
\* that has been a position; a pending order is whole, with its first stop.
TicketInv(b, g) ==
  /\ b.status \in {"unused", "pending"} => g = NoGV
  /\ b.status = "pending" => b.vol = b.lot /\ b.stop = -1
  /\ b.status = "open" => LedgerAgrees(b, g) /\ (~g.known => g.initialStop = 0)

LedgerInv == \A k \in Ticket : TicketInv(book[k], gv[k])

\* The same agreement for the working record of a pass: the stop counts the
\* partials taken and the volume is what they leave.
WorkAgrees(w, lot) ==
  /\ w.told = w.done
  /\ w.stop = w.done - 1
  /\ w.done = 0 => w.vol = lot
  /\ w.done = 1 => w.vol = lot - PartialLot1(lot)
  /\ w.done = 2 => w.vol \in {lot - PartialLot1(lot) - PartialLot2(lot),
                              lot - PartialLot2(lot)}

----------------------------------------------------------------------------
\* One pass of ManageOpenPosition

\* The distance of a stop below the entry.
LEMMA AbsNegated == \A s \in Int : s < 0 => Abs(s) = 0 - s
BY DEF Abs

\* A pass starts from a working record that agrees with the position.
LEMMA PassAgrees ==
  ASSUME NEW b \in Trade, NEW g \in Ledger, NEW x \in Int, NEW t \in Nat,
         b.status = "open", TicketInv(b, g)
  PROVE  LET p == Pass(b, g, x, t)
         IN  /\ p.ledger.known
             /\ p.ledger.rDist = 1
             /\ p.ledger.origLot = b.lot
             /\ p.lot = b.lot
             /\ WorkAgrees(Before(b, g, p), b.lot)
<1> DEFINE p == Pass(b, g, x, t)
<1>1. /\ b.lot \in Nat
      /\ b.vol \in Nat
      /\ b.stop \in Int
      /\ g.partials \in 0 .. 2
      /\ g.known \in BOOLEAN
  BY DEF Trade, Ledger
<1>2. LedgerAgrees(b, g) /\ (~g.known => g.initialStop = 0)  BY DEF TicketInv
<1>3. CASE g.known
  <2>1. g.rDist = 1 /\ g.origLot = b.lot  BY <1>2, <1>3 DEF LedgerAgrees
  <2>2. p.ledger = [g EXCEPT !.extreme = Greater(@, x)]
    BY <1>3, <2>1 DEF Pass, Tracked
  <2>3. /\ p.ledger.known
        /\ p.ledger.rDist = 1
        /\ p.ledger.origLot = b.lot
        /\ p.ledger.partials = g.partials
    BY <1>3, <2>1, <2>2 DEF Ledger
  <2>4. p.lot = b.lot  BY <1>3, <2>1 DEF Pass
  <2>5. WorkAgrees(Before(b, g, p), b.lot)
    BY <1>1, <1>2, <1>3, <2>3 DEF LedgerAgrees, WorkAgrees, Before
  <2> QED  BY <2>3, <2>4, <2>5
<1>4. CASE ~g.known
  <2>1. b.vol = b.lot /\ b.stop = -1 /\ g.initialStop = 0
    BY <1>2, <1>4 DEF LedgerAgrees
  <2>2. Abs(b.stop) = 1  BY <1>1, <2>1, AbsNegated
  <2>3. /\ p.ledger.known
        /\ p.ledger.rDist = 1
        /\ p.ledger.origLot = b.lot
        /\ p.ledger.partials = 0
    BY <1>4, <2>1, <2>2 DEF Pass, Tracked
  <2>4. p.lot = b.lot  BY <1>4, <2>1 DEF Pass
  <2>5. WorkAgrees(Before(b, g, p), b.lot)
    BY <1>1, <1>4, <2>1, <2>3 DEF WorkAgrees, Before
  <2> QED  BY <2>3, <2>4, <2>5
<1> QED  BY <1>1, <1>3, <1>4

\* The first partial keeps the agreement.
LEMMA Partial1Agrees ==
  ASSUME NEW p \in PassType, NEW w \in WorkType, NEW fail, "modify1" \notin fail,
         WorkAgrees(w, p.lot)
  PROVE  /\ WorkAgrees(AfterPartial1(p, w, fail), p.lot)
         /\ w.done <= AfterPartial1(p, w, fail).done
<1>1. /\ PartialLot1(p.lot) \in Int
      /\ PartialLot2(p.lot) \in Int
      /\ p.lot \in Nat
  BY DEF PartialLot1, PartialLot2, PassType
<1>2. /\ w.vol \in Nat
      /\ w.done \in 0 .. 2
  BY DEF WorkType
<1>3. CASE Fires1(p, w) /\ "partial1" \notin fail
  <2>1. w.done = 0  BY <1>2, <1>3 DEF Fires1
  <2>2. AfterPartial1(p, w, fail) =
          [vol |-> p.lot - PartialLot1(p.lot), stop |-> 0, told |-> 1, done |-> 1]
    BY <1>3, <2>1 DEF AfterPartial1, Recorded, Taken1, WorkAgrees
  <2> QED  BY <1>1, <2>1, <2>2 DEF WorkAgrees
<1>4. CASE ~(Fires1(p, w) /\ "partial1" \notin fail)
  <2>1. AfterPartial1(p, w, fail) = w  BY <1>4 DEF AfterPartial1
  <2> QED  BY <1>2, <2>1
<1> QED  BY <1>3, <1>4

\* So does the second, taken after the first or before it.
LEMMA Partial2Agrees ==
  ASSUME NEW p \in PassType, NEW w \in WorkType, NEW fail, "modify2" \notin fail,
         p.ledger.rDist = 1, WorkAgrees(w, p.lot)
  PROVE  /\ WorkAgrees(AfterPartial2(p, w, fail), p.lot)
         /\ w.done <= AfterPartial2(p, w, fail).done
<1>1. /\ PartialLot1(p.lot) \in Int
      /\ PartialLot2(p.lot) \in Int
      /\ p.lot \in Nat
  BY DEF PartialLot1, PartialLot2, PassType
<1>2. /\ w.vol \in Nat
      /\ w.done \in 0 .. 2
  BY DEF WorkType
<1>3. CASE Fires2(p, w) /\ "partial2" \notin fail
  <2>1. w.done \in {0, 1}  BY <1>2, <1>3 DEF Fires2
  <2>2. AfterPartial2(p, w, fail) =
          [vol |-> w.vol - PartialLot2(p.lot), stop |-> 1, told |-> 2, done |-> 2]
    BY <1>3 DEF AfterPartial2, Recorded, Taken2
  <2>3. w.vol \in {p.lot, p.lot - PartialLot1(p.lot)}
    BY <2>1 DEF WorkAgrees
  <2> QED  BY <1>1, <2>1, <2>2, <2>3 DEF WorkAgrees
<1>4. CASE ~(Fires2(p, w) /\ "partial2" \notin fail)
  <2>1. AfterPartial2(p, w, fail) = w  BY <1>4 DEF AfterPartial2
  <2> QED  BY <1>2, <2>1
<1> QED  BY <1>3, <1>4

\* A whole pass keeps the invariant of its ticket and never lowers the stop.
LEMMA ManagedAgrees ==
  ASSUME NEW b \in Trade, NEW g \in Ledger, NEW x \in Int, NEW t \in Nat, NEW fail,
         b.status = "open", TicketInv(b, g), fail \cap Unchecked = {}
  PROVE  LET m == Managed(b, g, x, t, fail)
         IN  /\ TicketInv(m.b, m.g)
             /\ m.b.status = "open" => m.b.stop >= b.stop
<1> DEFINE p  == Pass(b, g, x, t)
           w0 == Before(b, g, p)
           w1 == AfterPartial1(p, w0, fail)
           w  == AfterPartial2(p, w1, fail)
           m  == Managed(b, g, x, t, fail)
<1>1. "hold" \notin fail /\ "modify1" \notin fail /\ "modify2" \notin fail
  BY DEF Unchecked
<1>2. p \in PassType /\ w0 \in WorkType  BY PassTyped
<1>3. /\ p.ledger.known
      /\ p.ledger.rDist = 1
      /\ p.ledger.origLot = b.lot
      /\ p.lot = b.lot
      /\ WorkAgrees(w0, p.lot)
  BY PassAgrees
<1>4. w0.stop = b.stop  BY DEF Before
<1>5. m \in {[b |-> Closed(b), g |-> NoGV], [b |-> Scaled(b, w), g |-> Told(p, w)]}
  BY <1>1 DEF Managed
<1> HIDE DEF p, w0, m
<1>6. w1 \in WorkType /\ WorkAgrees(w1, p.lot) /\ w0.done <= w1.done
  BY <1>1, <1>2, <1>3, Partial1Typed, Partial1Agrees
<1> HIDE DEF w1
<1>7. w \in WorkType /\ WorkAgrees(w, p.lot) /\ w1.done <= w.done
  BY <1>1, <1>2, <1>3, <1>6, Partial2Typed, Partial2Agrees
<1> HIDE DEF w
<1>8. CASE m = [b |-> Closed(b), g |-> NoGV]
  <2>1. m.b.status = "gone"  BY <1>8 DEF Closed, Trade
  <2> QED  BY <2>1 DEF TicketInv, m
<1>9. CASE m = [b |-> Scaled(b, w), g |-> Told(p, w)]
  <2>1. /\ m.b.status = "open"
        /\ m.b.vol = w.vol
        /\ m.b.stop = w.stop
        /\ m.b.lot = b.lot
    BY <1>9 DEF Scaled, Trade
  <2>2. /\ m.g.known
        /\ m.g.partials = w.told
        /\ m.g.rDist = 1
        /\ m.g.origLot = b.lot
    BY <1>2, <1>3, <1>9 DEF Told, PassType, Ledger
  <2>3. w.told \in 0 .. 2 /\ w.done \in 0 .. 2 /\ w0.done \in 0 .. 2 /\ w1.done \in 0 .. 2
    BY <1>2, <1>6, <1>7 DEF WorkType
  <2>4. LedgerAgrees(m.b, m.g)
    BY <1>3, <1>7, <2>1, <2>2, <2>3 DEF LedgerAgrees, WorkAgrees
  <2>5. TicketInv(m.b, m.g)  BY <2>1, <2>2, <2>4 DEF TicketInv
  <2>6. w.stop >= w0.stop
    BY <1>3, <1>6, <1>7, <2>3 DEF WorkAgrees
  <2> QED  BY <1>4, <2>1, <2>5, <2>6 DEF m
<1> QED  BY <1>5, <1>8, <1>9

\* Closing a ticket, with or without its ledger, keeps its invariant.
LEMMA ClosedAgrees ==
  ASSUME NEW b \in Trade, NEW g
  PROVE  TicketInv(Closed(b), g)
BY DEF TicketInv, Closed, Trade

----------------------------------------------------------------------------
\* The steps of the program and of the broker

\* Closing everything keeps the invariant: no position survives it.
LEMMA CloseAllAgrees ==
  ASSUME TypeOK, LedgerInv, CloseAllOurPositions, "closeAll" \notin Fault
  PROVE  LedgerInv'
<1>1. PICK deleted \in SUBSET Pending :
        book' = [k \in Ticket |-> IF k \in Open \cup deleted THEN Closed(book[k])
                                                             ELSE book[k]]
  BY DEF CloseAllOurPositions, Accepted
<1>2. gv' = [k \in Ticket |-> IF k \in Open THEN NoGV ELSE gv[k]]
  BY DEF CloseAllOurPositions
<1>3. ASSUME NEW k \in Ticket PROVE TicketInv(book'[k], gv'[k])
  <2>1. book[k] \in Trade  BY DEF TypeOK
  <2> QED  BY <1>1, <1>2, <2>1, ClosedAgrees DEF LedgerInv
<1> QED  BY <1>3 DEF LedgerInv

\* Every tick keeps the invariant.
LEMMA OnTickAgrees ==
  ASSUME TypeOK, LedgerInv, Fault \cap Unchecked = {},
         NEW t \in Nat, NEW eq \in EquityLevel, OnTick(t, eq)
  PROVE  LedgerInv'
<1>1. "closeAll" \notin Fault  BY DEF Unchecked
<1>2. CASE UNCHANGED <<gv, book>>
  BY <1>2 DEF LedgerInv
<1>3. CASE CloseAllOurPositions
  BY <1>1, <1>3, CloseAllAgrees
<1>4. CASE TickManage(t, eq)
  <2>1. PICK bid \in [Open -> Excursion], fail \in SUBSET (Fault \cap Request) :
          /\ book' = [k \in Ticket |->
                        IF k \in Open THEN Managed(book[k], gv[k], bid[k], t, fail).b
                                      ELSE book[k]]
          /\ gv' = [k \in Ticket |->
                      IF k \in Open THEN Managed(book[k], gv[k], bid[k], t, fail).g
                                    ELSE gv[k]]
    BY <1>4 DEF TickManage
  <2>2. fail \cap Unchecked = {}  OBVIOUS
  <2>3. ASSUME NEW k \in Ticket PROVE TicketInv(book'[k], gv'[k])
    <3>1. book[k] \in Trade /\ gv[k] \in Ledger /\ TicketInv(book[k], gv[k])
      BY DEF TypeOK, LedgerInv
    <3>2. CASE k \in Open
      <4>1. bid[k] \in Int  BY <3>2, TradeAssumption
      <4>2. book[k].status = "open"  BY <3>2 DEF Open
      <4> QED  BY <2>1, <2>2, <3>1, <3>2, <4>1, <4>2, ManagedAgrees
    <3>3. CASE k \notin Open
      BY <2>1, <3>1, <3>3
    <3> QED  BY <3>2, <3>3
  <2> QED  BY <2>3 DEF LedgerInv
<1>5. CASE TickExpireOrder(t, eq)
  <2>1. PICK deleted \in Accepted("delete", Pending) :
          book' = [k \in Ticket |-> IF k \in deleted THEN Closed(book[k]) ELSE book[k]]
    BY <1>5 DEF TickExpireOrder
  <2>2. ASSUME NEW k \in Ticket PROVE TicketInv(book'[k], gv'[k])
    <3>1. book[k] \in Trade  BY DEF TypeOK
    <3>2. gv' = gv  BY <1>5 DEF TickExpireOrder
    <3> QED  BY <2>1, <3>1, <3>2, ClosedAgrees DEF LedgerInv
  <2> QED  BY <2>2 DEF LedgerInv
<1>6. CASE TickPlaceOrder(t, eq)
  <2>1. PICK k \in Ticket, lot \in Lot, target \in Target :
          /\ book[k].status = "unused"
          /\ book' = [book EXCEPT ![k] = [status |-> "pending", bar |-> setup.bar,
                                          lot |-> lot, vol |-> lot, stop |-> -1,
                                          target |-> target, since |-> t]]
    BY <1>6 DEF TickPlaceOrder
  <2>2. gv' = gv  BY <1>6 DEF TickPlaceOrder
  <2>3. gv[k] = NoGV  BY <2>1 DEF LedgerInv, TicketInv
  <2>4. TicketInv(book'[k], gv'[k])
    BY <2>1, <2>2, <2>3 DEF TicketInv, TypeOK
  <2>5. ASSUME NEW j \in Ticket, j # k PROVE TicketInv(book'[j], gv'[j])
    BY <2>1, <2>2, <2>5 DEF LedgerInv, TypeOK
  <2> QED  BY <2>4, <2>5 DEF LedgerInv
<1> QED  BY <1>2, <1>3, <1>4, <1>5, <1>6
         DEF OnTick, TickHardKill, TickFridayClose, TickResting, TickExpireTrigger,
             TickRetryLater, TickWatch

\* What the broker does keeps the invariant: a fill starts a position without a
\* ledger, OnTrade writes one that agrees.
LEMMA BrokerAgrees ==
  ASSUME TypeOK, LedgerInv, OnTrade \/ \E k \in Ticket : Fill(k) \/ ServerClose(k)
  PROVE  LedgerInv'
<1>1. CASE OnTrade
  <2> DEFINE fresh == {k \in Open : ~gv[k].known}
  <2>1. PICK bid \in [fresh -> Excursion] :
          gv' = [k \in Ticket |->
                   IF k \notin fresh THEN gv[k]
                   ELSE [known |-> TRUE, origLot |-> book[k].vol,
                         rDist |-> Abs(book[k].stop), partials |-> 0,
                         entryTime |-> now, extreme |-> bid[k],
                         initialStop |-> book[k].stop]]
    BY <1>1 DEF OnTrade
  <2>2. PICK deleted \in SUBSET Pending :
          book' = [k \in Ticket |-> IF k \in deleted THEN Closed(book[k]) ELSE book[k]]
    BY <1>1 DEF OnTrade, Accepted
  <2>3. ASSUME NEW k \in Ticket PROVE TicketInv(book'[k], gv'[k])
    <3>1. book[k] \in Trade /\ TicketInv(book[k], gv[k])  BY DEF TypeOK, LedgerInv
    <3>2. CASE k \in deleted
      BY <2>2, <3>1, <3>2, ClosedAgrees
    <3>3. CASE k \notin deleted /\ k \notin fresh
      BY <2>1, <2>2, <3>1, <3>3
    <3>4. CASE k \in fresh
      <4>1. book'[k] = book[k] /\ book[k].status = "open" /\ ~gv[k].known
        BY <2>2, <3>4 DEF Open, Pending
      <4>2. book[k].vol = book[k].lot /\ book[k].stop = -1
        BY <3>1, <4>1 DEF TicketInv, LedgerAgrees
      <4>3. Abs(book[k].stop) = 1
        <5>1. book[k].stop \in Int  BY <3>1 DEF Trade
        <5> QED  BY <4>2, <5>1, AbsNegated
      <4>4. /\ gv'[k].known
            /\ gv'[k].partials = 0
            /\ gv'[k].rDist = 1
            /\ gv'[k].origLot = book[k].lot
        BY <2>1, <3>4, <4>2, <4>3
      <4> QED  BY <4>1, <4>2, <4>4 DEF TicketInv, LedgerAgrees
    <3> QED  BY <3>2, <3>3, <3>4
  <2> QED  BY <2>3 DEF LedgerInv
<1>2. CASE \E k \in Ticket : Fill(k) \/ ServerClose(k)
  <2>1. PICK k \in Ticket : Fill(k) \/ ServerClose(k)  BY <1>2
  <2>2. gv' = gv /\ book[k] \in Trade /\ TicketInv(book[k], gv[k])
    BY <2>1 DEF Fill, ServerClose, TypeOK, LedgerInv
  <2>3. CASE Fill(k)
    <3>1. /\ book[k].status = "pending"
          /\ book' = [book EXCEPT ![k] = [@ EXCEPT !.status = "open", !.since = now]]
      BY <2>3 DEF Fill
    <3>2. /\ book'[k].status = "open"
          /\ book'[k].vol = book[k].vol
          /\ book'[k].lot = book[k].lot
          /\ book'[k].stop = book[k].stop
      BY <2>2, <3>1 DEF TypeOK, Trade
    <3>3. gv[k] = NoGV /\ book[k].vol = book[k].lot /\ book[k].stop = -1
      BY <2>2, <3>1 DEF TicketInv
    <3>4. TicketInv(book'[k], gv'[k])
      BY <2>2, <3>2, <3>3 DEF TicketInv, LedgerAgrees, NoGV
    <3>5. ASSUME NEW j \in Ticket, j # k PROVE TicketInv(book'[j], gv'[j])
      BY <2>2, <3>1, <3>5 DEF LedgerInv, TypeOK
    <3> QED  BY <3>4, <3>5 DEF LedgerInv
  <2>4. CASE ServerClose(k)
    <3>1. book' = [book EXCEPT ![k] = Closed(book[k])]  BY <2>4 DEF ServerClose
    <3>2. TicketInv(book'[k], gv'[k])
      BY <2>2, <3>1, ClosedAgrees DEF TypeOK
    <3>3. ASSUME NEW j \in Ticket, j # k PROVE TicketInv(book'[j], gv'[j])
      BY <2>2, <3>1, <3>3 DEF LedgerInv, TypeOK
    <3> QED  BY <3>2, <3>3 DEF LedgerInv
  <2> QED  BY <2>1, <2>3, <2>4
<1> QED  BY <1>1, <1>2

\* The inductive invariant holds in every reachable state, restarts included.
LEMMA LedgerInvariant ==
  ASSUME Fault \cap Unchecked = {}
  PROVE  Spec => []LedgerInv
<1>1. Init => LedgerInv
  BY DEF Init, LedgerInv, TicketInv, NoOrder, NoGV
<1>2. TypeOK /\ LedgerInv /\ [Next]_vars => LedgerInv'
  <2> SUFFICES ASSUME TypeOK, LedgerInv, [Next]_vars PROVE LedgerInv'  OBVIOUS
  <2>1. ASSUME NEW t \in now .. Lesser(now + MaxStep, MaxTime), NEW eq \in EquityLevel,
               OnTick(t, eq) \/ Restart(t, eq) \/ CrashInPartial(t, eq)
        PROVE  LedgerInv'
    <3>1. t \in Nat  BY ClockType
    <3>2. ~CrashInPartial(t, eq)  BY DEF CrashInPartial, Unchecked
    <3>3. CASE Restart(t, eq)  BY <3>3 DEF Restart, LedgerInv
    <3> QED  BY <2>1, <3>1, <3>2, <3>3, OnTickAgrees
  <2>2. CASE OnTrade \/ \E k \in Ticket : Fill(k) \/ ServerClose(k)
    BY <2>2, BrokerAgrees
  <2>3. CASE UNCHANGED vars  BY <2>3 DEF vars, LedgerInv
  <2> QED  BY <2>1, <2>2, <2>3 DEF Next
<1> QED  BY <1>1, <1>2, TypeCorrect, PTL DEF Spec

\* The ledger and the broker agree in every reachable state, restarts included.
THEOREM LedgerAlwaysAgrees ==
  ASSUME Fault \cap Unchecked = {}
  PROVE  Spec => []LedgerMatchesBroker
<1>1. LedgerInv => LedgerMatchesBroker
  BY DEF LedgerInv, LedgerMatchesBroker, TicketInv, Open
<1> QED  BY <1>1, LedgerInvariant, PTL

----------------------------------------------------------------------------
\* The stop

\* Only a pass of ManageOpenPosition, or a crash in one, moves the stop of a
\* position that stays open.
LEMMA OnlyManageMovesStop ==
  ASSUME TypeOK, [Next]_vars, NEW k \in Open, book'[k].status = "open",
         "crash" \notin Fault
  PROVE  \/ book'[k].stop = book[k].stop
         \/ \E t \in now .. Lesser(now + MaxStep, MaxTime), eq \in EquityLevel :
              TickManage(t, eq)
<1>1. k \in Ticket /\ book[k] \in Trade /\ book[k].status = "open"
  BY DEF TypeOK, Open
<1>2. Closed(book[k]).status = "gone"  BY <1>1 DEF Closed, Trade
<1>3. SUFFICES ASSUME NEW t \in now .. Lesser(now + MaxStep, MaxTime),
                      NEW eq \in EquityLevel, OnTick(t, eq), ~TickManage(t, eq)
               PROVE  book'[k].stop = book[k].stop
  <2>1. CASE UNCHANGED book  BY <2>1
  <2>2. CASE OnTrade  BY <1>1, <1>2, <2>2 DEF OnTrade
  <2>3. ASSUME NEW j \in Ticket, Fill(j) \/ ServerClose(j)
        PROVE  book'[k].stop = book[k].stop
    <3>1. book[j] \in Trade  BY DEF TypeOK
    <3>2. CASE Fill(j)
      <4>1. j # k  BY <1>1, <3>2 DEF Fill
      <4> QED  BY <1>1, <3>2, <4>1 DEF Fill, TypeOK
    <3>3. CASE ServerClose(j)
      BY <1>1, <1>2, <3>3 DEF ServerClose, TypeOK
    <3> QED  BY <2>3, <3>2, <3>3
  <2>4. ASSUME NEW t \in now .. Lesser(now + MaxStep, MaxTime), NEW eq \in EquityLevel,
               Restart(t, eq) \/ CrashInPartial(t, eq)
        PROVE  UNCHANGED book
    BY <2>4 DEF Restart, CrashInPartial
  <2> QED  BY <1>3, <2>1, <2>2, <2>3, <2>4 DEF Next, vars
<1>4. CASE CloseAllOurPositions
  BY <1>1, <1>2, <1>4 DEF CloseAllOurPositions
<1>5. CASE TickExpireOrder(t, eq)
  BY <1>1, <1>2, <1>5 DEF TickExpireOrder
<1>6. CASE TickPlaceOrder(t, eq)
  BY <1>1, <1>6 DEF TickPlaceOrder, Flat
<1> QED  BY <1>3, <1>4, <1>5, <1>6
         DEF OnTick, TickHardKill, TickFridayClose, TickResting, TickExpireTrigger,
             TickRetryLater, TickWatch

\* A stop is only ever tightened, whichever partials are refused or taken out of
\* order.
THEOREM StopsOnlyTighten ==
  ASSUME Fault \cap Unchecked = {}
  PROVE  Spec => StopNeverLoosens
<1>1. ASSUME TypeOK, LedgerInv, [Next]_vars, NEW k \in Open, book'[k].status = "open"
      PROVE  book'[k].stop >= book[k].stop
  <2>1. book[k] \in Trade /\ gv[k] \in Ledger /\ TicketInv(book[k], gv[k])
    BY <1>1 DEF TypeOK, LedgerInv, Open
  <2>2. book[k].status = "open" /\ book[k].stop \in Int
    BY <2>1 DEF Trade, Open
  <2>3. "crash" \notin Fault  BY DEF Unchecked
  <2>4. CASE book'[k].stop = book[k].stop  BY <2>2, <2>4
  <2>5. ASSUME NEW t \in now .. Lesser(now + MaxStep, MaxTime), NEW eq \in EquityLevel,
               TickManage(t, eq)
        PROVE  book'[k].stop >= book[k].stop
    <3>1. PICK bid \in [Open -> Excursion], fail \in SUBSET (Fault \cap Request) :
            book' = [j \in Ticket |->
                       IF j \in Open THEN Managed(book[j], gv[j], bid[j], t, fail).b
                                     ELSE book[j]]
      BY <2>5 DEF TickManage
    <3>2. book'[k] = Managed(book[k], gv[k], bid[k], t, fail).b
      BY <3>1 DEF Open
    <3>3. bid[k] \in Int /\ t \in Nat /\ fail \cap Unchecked = {}
      BY <1>1, ClockType, TradeAssumption
    <3> QED  BY <1>1, <2>1, <2>2, <3>2, <3>3, ManagedAgrees
  <2> QED  BY <1>1, <2>3, <2>4, <2>5, OnlyManageMovesStop
<1>2. TypeOK /\ LedgerInv /\ [Next]_vars =>
        [\A k \in Open : book'[k].status = "open" => book'[k].stop >= book[k].stop]_vars
  BY <1>1
<1> QED  BY <1>2, LedgerInvariant, TypeCorrect, PTL DEF Spec, StopNeverLoosens
=============================================================================
