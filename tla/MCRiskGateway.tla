--------------------------- MODULE MCRiskGateway ---------------------------
(***************************************************************************)
(* Inputs for the model checking of RiskGateway: every way through         *)
(* evaluate is taken, and each of the three sizes is the binding one, or   *)
(* leaves nothing.                                                         *)
(***************************************************************************)
EXTENDS RiskGateway

\* Long plans with and without an alert at two risk levels, a short one, one with
\* its stop on the wrong side, one with too near a target, and flat ones.
MCPlans ==
  LET long == [bias |-> "long", alert |-> FALSE, riskPct |-> 2, entry |-> 10,
               stop |-> 8, target |-> 14]
  IN  {[long EXCEPT !.alert = a, !.riskPct = r] : a \in BOOLEAN, r \in {1, 2}}
      \cup {[long EXCEPT !.bias = "flat", !.alert = a] : a \in BOOLEAN}
      \cup {[long EXCEPT !.bias = "short", !.stop = 11, !.target = 8],
            [long EXCEPT !.stop = 11], [long EXCEPT !.target = 13]}

\* A healthy account; one where the exposure cap binds, one already above it; one
\* short of buying power; one whose drawdown locks it and which is a day trader's.
MCAccounts ==
  LET healthy == [equity |-> 900, highWater |-> 900, exposure |-> 0,
                  buyingPower |-> 1800, dayTrades |-> 3]
  IN  {healthy, [healthy EXCEPT !.exposure = 250], [healthy EXCEPT !.exposure = 300],
       [healthy EXCEPT !.buyingPower = 60], [healthy EXCEPT !.equity = 200]}

\* A share, one under a short-sale restriction, a coin traded in lots of three with
\* an ATR that asks for a wide stop, and a closed session.
MCMarkets ==
  LET share == [kind |-> "equity", shortable |-> TRUE, ssr |-> FALSE, open |-> TRUE,
                atr |-> 0, multiplier |-> 1]
  IN  {share, [share EXCEPT !.ssr = TRUE], [share EXCEPT !.open = FALSE],
       [share EXCEPT !.kind = "crypto", !.atr = 10, !.multiplier = 3]}
=============================================================================
