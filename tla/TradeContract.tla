--------------------------- MODULE TradeContract ---------------------------
(***************************************************************************)
(* What the expert advisor promises of its trades, whoever asks: at most   *)
(* one order or position at a time; an order rests, is filled or is        *)
(* withdrawn; a position is scaled out in the announced order, half first  *)
(* and three tenths of the original size next, each at most once; and what *)
(* is over stays over.  SmcCrtEa is shown to implement this.               *)
(***************************************************************************)
CONSTANT Ticket

VARIABLE stage   \* the stage of every trade

\* "late" is a position whose second part was taken although the first was
\* refused: the first is then never made up for.
Live  == {"resting", "full", "half", "late", "runner"}
Stage == Live \cup {"none", "over"}

Successors(s) ==
  CASE s = "none"    -> {"resting"}
    [] s = "resting" -> {"full", "over"}
    [] s = "full"    -> {"half", "late", "runner", "over"}
    [] s = "half"    -> {"runner", "over"}
    [] OTHER         -> {"over"}

Init == stage = [k \in Ticket |-> "none"]

\* One handler may move several trades, but opens one only when none is live.
Step ==
  /\ \A k \in Ticket : stage'[k] \in {stage[k]} \cup Successors(stage[k])
  /\ \A k \in Ticket : stage[k] = "none" /\ stage'[k] = "resting" =>
       \A j \in Ticket \ {k} : stage[j] \notin Live /\ stage'[j] \notin Live
  /\ DOMAIN stage' = Ticket

Next == Step

Spec == Init /\ [][Next]_stage
=============================================================================
