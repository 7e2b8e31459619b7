---------------------------- MODULE TradingDesk ----------------------------
(***************************************************************************)
(* Several runs of run_phase2 of trading-system side by side, one process  *)
(* each, against one account at the broker and one high-water file.        *)
(*                                                                         *)
(* run_symbol reads the account, updates the high-water mark, asks the     *)
(* agents, hands their plan to a new RiskGateway and sends the order.  The *)
(* plans stand for the answers of the agents.  Money is a whole number of  *)
(* the smallest unit; the price of a symbol is the same whenever a plan or *)
(* the broker needs it.                                                    *)
(***************************************************************************)
EXTENDS Integers, FiniteSets, FiniteSetsExt, Functions

CONSTANTS
  Runs,            \* processes that may run at once
  Symbols,
  Plans,           \* trade plans of the orchestrator
  Markets,         \* market contexts
  Equities,        \* equities the account may have
  FreezeTime, AlertCount, MaxRiskPct, MinRR, MinStopMille, StopAtrPct,
  MaxExposurePct, MaxDrawdownPct, PdtEquity, PdtTrades, AlertSizePct, AlertStopPct

\* The gateway that run_symbol builds: no alert counted, no freeze set.
Gateway == INSTANCE RiskGateway
  WITH MaxTime <- 0, MaxStep <- 0, MaxStreak <- 0, Accounts <- {},
       now <- 0, alerts <- 0, freezeUntil <- -1,
       decision <- [verdict |-> "none"], streak <- 0

ASSUME DeskAssumption ==
  /\ IsFiniteSet(Runs) /\ Runs # {}
  /\ IsFiniteSet(Symbols)
  /\ Plans \subseteq Gateway!Plan
  /\ Markets \subseteq Gateway!Market
  /\ IsFiniteSet(Equities) /\ Equities # {} /\ Equities \subseteq Nat \ {0}
  /\ {MaxRiskPct, MaxExposurePct, AlertSizePct} \subseteq 0 .. 100

VARIABLES
  equity,     \* at the broker: the account's equity
  positions,  \* at the broker: value of the position in a symbol, negative when short
  file,       \* state_hwm.json
  pc,         \* how far a process is in run_symbol
  acct,       \* acct.equity as a process has read it
  exposure,   \* acct.open_positions_value
  hwm,        \* the high-water mark a process goes by
  order,      \* the order a process is about to send
  highest,    \* highest equity that any process has written for (observed only)
  disturbed   \* an update of the file was cut short or met another (observed only)

broker == <<equity, positions>>
locals == <<acct, exposure, hwm, order>>
vars == <<broker, file, pc, locals, highest, disturbed>>

Missing == -1  \* there is no file
Garbled == -2  \* a file that json.loads refuses
NoOrder == [bias |-> "flat", value |-> 0]

Goes(r, from, to) == pc[r] = from /\ pc' = [pc EXCEPT ![r] = to]

----------------------------------------------------------------------------
\* get_account: the equity, then the positions

ReadEquity(r) ==
  /\ Goes(r, "idle", "account")
  /\ acct' = [acct EXCEPT ![r] = equity]
  /\ UNCHANGED <<broker, file, exposure, hwm, order, highest, disturbed>>

\* The sum of signed market values.
OpenValue == SumFunctionOnSet(positions, Symbols)

\* Mutant: the exposure keeps the default of AccountSnapshot.
Bug_ReadPositions(r) ==
  /\ Goes(r, "account", "positions")
  /\ UNCHANGED <<broker, file, locals, highest, disturbed>>

ReadPositions(r) ==
  /\ Goes(r, "account", "positions")
  /\ exposure' = [exposure EXCEPT ![r] = OpenValue]
  /\ UNCHANGED <<broker, file, acct, hwm, order, highest, disturbed>>

----------------------------------------------------------------------------
\* _update_high_water: read, truncate, write

Updating == {r \in Runs : pc[r] \in {"read", "truncated"}}

\* Mutant: what the file holds is taken as it is.
Bug_MarkAsRead(r) == file

\* Mutant: the mark is the equity, not the larger of the two.
Bug_Peak(r) == acct[r]

Peak(r) ==
  IF file \in {Missing, Garbled} THEN acct[r]
                                 ELSE Gateway!Greater(acct[r], file)

ReadHighWater(r) ==
  /\ Goes(r, "positions", "read")
  /\ hwm' = [hwm EXCEPT ![r] = Peak(r)]
  /\ disturbed' = (disturbed \/ Updating # {})
  /\ UNCHANGED <<broker, file, acct, exposure, order, highest>>

TruncateHighWater(r) ==
  /\ Goes(r, "read", "truncated")
  /\ file' = Garbled
  /\ UNCHANGED <<broker, locals, highest, disturbed>>

WriteHighWater(r) ==
  /\ Goes(r, "truncated", "written")
  /\ file' = hwm[r]
  /\ highest' = Gateway!Greater(highest, acct[r])
  /\ UNCHANGED <<broker, locals, disturbed>>

\* AccountSnapshot refuses a negative exposure: the process ends with an exception.
Snapshot(r) ==
  /\ Goes(r, "written", IF exposure[r] >= 0 THEN "agents" ELSE "done")
  /\ UNCHANGED <<broker, file, locals, highest, disturbed>>

----------------------------------------------------------------------------
\* The plan, the gateway and the order

\* Alpaca grants four times the equity; the account is not a day trader's.
Account(r) ==
  [equity |-> acct[r], highWater |-> hwm[r], exposure |-> exposure[r],
   buyingPower |-> 4 * acct[r], dayTrades |-> 0]

Approved(r, p, m) ==
  /\ p.bias # "flat"
  /\ ~Gateway!Frozen(p, 0)
  /\ Gateway!Approves(p, Account(r), m)

Approve(r) ==
  /\ Goes(r, "agents", "order")
  /\ \E p \in Plans, m \in Markets :
       /\ Approved(r, p, m)
       /\ order' = [order EXCEPT ![r] =
            [bias |-> p.bias,
             value |-> Gateway!Qty(p, Account(r), m) * Gateway!UnitPrice(p, m)]]
  /\ UNCHANGED <<broker, file, acct, exposure, hwm, highest, disturbed>>

\* A flat plan, or one that the gateway rejects.
NoTrade(r) ==
  /\ Goes(r, "agents", "done")
  /\ \E p \in Plans, m \in Markets : ~Approved(r, p, m)
  /\ UNCHANGED <<broker, file, locals, highest, disturbed>>

\* submit_bracket sends a market order for the symbol the process was started with
\* (it matters only here), and the broker fills it.
Submit(r) ==
  /\ Goes(r, "order", "done")
  /\ \E s \in Symbols : positions' = [positions EXCEPT ![s] =
       IF order[r].bias = "long" THEN @ + order[r].value ELSE @ - order[r].value]
  /\ UNCHANGED <<equity, file, locals, highest, disturbed>>

\* A dry run, or an order the broker refuses.
NotSubmitted(r) ==
  /\ Goes(r, "order", "done")
  /\ UNCHANGED <<broker, file, locals, highest, disturbed>>

----------------------------------------------------------------------------
\* Processes and the broker

Start(r) ==
  /\ Goes(r, "done", "idle")
  /\ acct' = [acct EXCEPT ![r] = 0]
  /\ exposure' = [exposure EXCEPT ![r] = 0]
  /\ hwm' = [hwm EXCEPT ![r] = 0]
  /\ order' = [order EXCEPT ![r] = NoOrder]
  /\ UNCHANGED <<broker, file, highest, disturbed>>

Die(r) ==
  /\ pc[r] \notin {"idle", "done"}
  /\ pc' = [pc EXCEPT ![r] = "done"]
  /\ disturbed' = (disturbed \/ pc[r] = "truncated")
  /\ UNCHANGED <<broker, file, locals, highest>>

EquityMoves ==
  /\ equity' \in Equities
  /\ UNCHANGED <<positions, file, pc, locals, highest, disturbed>>

\* Positions are closed by hand: no run ever does.
Close(s) ==
  /\ positions[s] # 0
  /\ positions' = [positions EXCEPT ![s] = 0]
  /\ UNCHANGED <<equity, file, pc, locals, highest, disturbed>>

----------------------------------------------------------------------------
Init ==
  /\ equity \in Equities
  /\ positions = [s \in Symbols |-> 0]
  /\ file = Missing
  /\ pc = [r \in Runs |-> "idle"]
  /\ acct = [r \in Runs |-> 0]
  /\ exposure = [r \in Runs |-> 0]
  /\ hwm = [r \in Runs |-> 0]
  /\ order = [r \in Runs |-> NoOrder]
  /\ highest = 0
  /\ disturbed = FALSE

RunSymbol(r) ==
  \/ ReadEquity(r) \/ ReadPositions(r)
  \/ ReadHighWater(r) \/ TruncateHighWater(r) \/ WriteHighWater(r)
  \/ Snapshot(r) \/ Approve(r) \/ NoTrade(r) \/ Submit(r) \/ NotSubmitted(r)
  \/ Start(r) \/ Die(r)

Next ==
  \/ \E r \in Runs : RunSymbol(r)
  \/ EquityMoves
  \/ \E s \in Symbols : Close(s)

Spec == Init /\ [][Next]_vars

----------------------------------------------------------------------------
\* Properties

\* Every variable stays in its range (run_symbol and the broker).
TypeOK ==
  /\ equity \in Equities
  /\ positions \in [Symbols -> Int]
  /\ file \in Nat \cup {Missing, Garbled}
  /\ pc \in [Runs -> {"idle", "account", "positions", "read", "truncated", "written",
                      "agents", "order", "done"}]
  /\ acct \in [Runs -> Nat]
  /\ exposure \in [Runs -> Int]
  /\ hwm \in [Runs -> Nat]
  /\ order \in [Runs -> [bias : {"long", "short", "flat"}, value : Nat]]
  /\ highest \in Nat
  /\ disturbed \in BOOLEAN

\* The exposure cap of the largest account, in hundredths.
Cap == MaxExposurePct * Max(Equities)
GrossExposure ==
  SumFunctionOnSet([s \in Symbols |-> Gateway!Abs(positions[s])], Symbols)

\* Runs that overlap size against the same snapshot, but no more than once each: as
\* long as nothing is sold short, the open positions stay within the cap for every
\* process that may run at once, however slow its agents are and however often the
\* others run meanwhile (get_account, evaluate and submit_bracket).
ExposureWithinCaps ==
  (\A p \in Plans : p.bias # "short") => 100 * GrossExposure <= Cardinality(Runs) * Cap

\* One process at a time stays within the cap (get_account and evaluate).
GrossWithinCap == 100 * GrossExposure <= Cap

\* Between updates the file holds the highest equity written for, whatever died
\* where, unless an update was cut short after it truncated the file or read the
\* file while another was on its way (_update_high_water, whose mark the drawdown
\* lock measures from).
PeakIsKept ==
  ~disturbed /\ Updating = {} => file = IF highest = 0 THEN Missing ELSE highest
=============================================================================
