--------------------------- MODULE MCTradingDesk ---------------------------
(***************************************************************************)
(* Plans and markets for the model checking of TradingDesk.                *)
(***************************************************************************)
EXTENDS TradingDesk, TLC

Alike == Permutations(Runs) \cup Permutations(Symbols)


Long == [bias |-> "long", alert |-> FALSE, riskPct |-> 2, entry |-> 10,
         stop |-> 9, target |-> 12]

\* A long plan and a flat one; with an alert the size is halved.
LongPlans == {Long, [Long EXCEPT !.alert = TRUE], [Long EXCEPT !.bias = "flat"]}

\* The same, and a short plan.
BothPlans == LongPlans \cup {[Long EXCEPT !.bias = "short", !.stop = 11, !.target = 8]}

\* An open session and a closed one.
MCMarkets ==
  {[kind |-> "equity", shortable |-> TRUE, ssr |-> FALSE, open |-> o, atr |-> 0,
    multiplier |-> 1] : o \in BOOLEAN}
=============================================================================
