----------------------------- MODULE XSentiment -----------------------------
(***************************************************************************)
(* The X sentiment of trading-system: compute_metrics makes a spike ratio  *)
(* and a list of different texts of the stored tweets, and                 *)
(* x_sentiment_agent_node asks a model about them when the ratio passes    *)
(* its gate, with a time limit and a neutral signal for everything that    *)
(* goes wrong.                                                             *)
(*                                                                         *)
(* A text is what clean_text leaves of it, and two texts are Alike when    *)
(* token_set_ratio says so.  Scores only decide what the model is shown.   *)
(* A call first runs up to MaxSetup seconds in one piece (it imports the   *)
(* client inside the coroutine), when no timer can stop it; the limit of   *)
(* future.result never fires before the one of wait_for but then, and the  *)
(* executor waits for its thread all the same, so it changes nothing.      *)
(***************************************************************************)
EXTENDS Integers, Sequences, FiniteSets, Functions

CONSTANTS
  Windows,    \* the cleaned texts of a 15-minute window, newest first
  Histories,  \* tweets in each of the eight half hours, the newest first
  Alike,      \* pairs of texts above FUZZY_THRESHOLD
  Libraries,  \* which of rapidfuzz and polars are installed
  Limit,      \* LLM_TIMEOUT_SECONDS
  MaxSetup    \* bound on the part of a call that can not be stopped

Gate == 2     \* VOLUME_GATE_THRESHOLD
Bins == 1..8

SentimentAssumption ==
  /\ \A w \in Windows : w \in Seq(Range(w))
  /\ Histories \subseteq [Bins -> Nat]
  /\ Libraries \subseteq SUBSET {"rapidfuzz", "polars"}
  /\ Limit \in Nat \ {0} /\ MaxSetup \in Nat

VARIABLES
  window, bins, installed,
  metrics,   \* state["x_sentiment_metrics"]
  loop,      \* what asyncio.get_event_loop finds: "none", "idle" or "running"
  phase,     \* how far the node is
  attempt,   \* 1 inside the try of _run_async_with_timeout, 2 in its handler
  calls,     \* calls of the model
  began,     \* when the present call began
  now,       \* seconds since the node was entered
  signal,    \* state["x_sentiment_signal"]
  took       \* seconds the answer took that the signal is made of (observed only)

inputs == <<window, bins, installed, loop>>
vars == <<inputs, metrics, phase, attempt, calls, began, now, signal, took>>

----------------------------------------------------------------------------
\* sentiment_engine

\* The first of every cluster; without rapidfuzz, of every text.
Similar(s, t) == s = t \/ ("rapidfuzz" \in installed /\ {<<s, t>>, <<t, s>>} \cap Alike # {})

\* Mutant: a text is compared with the one kept last only.
Bug_IsDuplicate(text, kept) == kept # <<>> /\ Similar(text, kept[Len(kept)])

IsDuplicate(text, kept) == \E k \in Range(kept) : Similar(text, k)

fuzzy_deduplicate(texts) ==
  LET unique[n \in 0..Len(texts)] ==
        IF n = 0 THEN <<>>
        ELSE IF IsDuplicate(texts[n], unique[n - 1]) THEN unique[n - 1]
                                                     ELSE Append(unique[n - 1], texts[n])
  IN  unique[Len(texts)]

\* Weights of ewm_mean(span=4, adjust=True), times 5^7: powers of three fifths.  The series
\* begins with the newest half hour, so the oldest one has the largest weight.
EwmWeight == <<2187, 3645, 6075, 10125, 16875, 28125, 46875, 78125>>

SumOver(f) == f[1] + f[2] + f[3] + f[4] + f[5] + f[6] + f[7] + f[8]

\* Mutant: the weights are not divided by their sum.
Bug_Baseline(b) == <<SumOver([k \in Bins |-> EwmWeight[k] * b[k]]), 5 ^ 7>>

\* A pair: numerator and denominator.
Baseline(b) ==
  IF "polars" \in installed
    THEN <<SumOver([k \in Bins |-> EwmWeight[k] * b[k]]), SumOver(EwmWeight)>>
    ELSE <<SumOver(b), Cardinality({k \in Bins : b[k] > 0})>>

\* compute_volume_spike_ratio, again as a pair.
SpikeRatio(count, b) ==
  IF \A k \in Bins : b[k] = 0
    THEN <<IF count > 0 THEN count ELSE 1, 1>>
    ELSE <<count * Baseline(b)[2], Baseline(b)[1]>>

NoMetrics == [ratio |-> <<0, 1>>, samples |-> <<>>, ids |-> {}]

\* What is kept are the tweets whose text is kept: exact copies stay.
compute_metrics(texts, b) ==
  IF texts = <<>> THEN NoMetrics
  ELSE LET unique == fuzzy_deduplicate(texts)
       IN  [ratio   |-> SpikeRatio(Len(texts), b),
            samples |-> unique,
            ids     |-> {i \in DOMAIN texts : texts[i] \in Range(unique)}]

----------------------------------------------------------------------------
\* x_sentiment_agent_node

Absent == [ratio |-> <<-1, 1>>]   \* there are no metrics in the state
Neutral == [bias |-> "NEUTRAL", alert |-> FALSE]
Answers == [bias : {"BULLISH", "BEARISH", "NEUTRAL"}, alert : BOOLEAN]

Spikes == metrics.ratio[1] >= Gate * metrics.ratio[2]
Elapsed == now - began

ComputeMetrics ==
  /\ phase = "inputs"
  /\ metrics' \in {Absent, compute_metrics(window, bins)}
  /\ phase' = "entered"
  /\ UNCHANGED <<inputs, attempt, calls, began, now, signal, took>>

\* The node returns a signal.
Return(s, t) ==
  /\ phase' = "done"
  /\ signal' = s
  /\ took' = t
  /\ UNCHANGED <<inputs, metrics, attempt, calls, began, now>>

GateBypass == phase = "entered" /\ ~Spikes /\ Return(Neutral, 0)

\* A call of the model begins; without an event loop the first one is the handler's.
Call(a) ==
  /\ phase' = "setup"
  /\ attempt' = a
  /\ calls' = calls + 1
  /\ began' = now
  /\ UNCHANGED <<inputs, metrics, now, signal, took>>

FirstCall == phase = "entered" /\ Spikes /\ Call(IF loop = "none" THEN 2 ELSE 1)

\* The client is ready and the coroutine waits for the answer.
Request ==
  /\ phase = "setup"
  /\ phase' = "waiting"
  /\ UNCHANGED <<inputs, metrics, attempt, calls, began, now, signal, took>>

\* Mutant: an answer is taken although the timer has run out.
Bug_InTime == TRUE

InTime == Elapsed <= Limit

Answer == phase = "waiting" /\ InTime /\ \E a \in Answers : Return(a, Elapsed)

\* Mutant: the call that asyncio.run makes in the handler is not timed.
Bug_TimeoutError == phase = "waiting" /\ Elapsed >= Limit /\ attempt = 1 /\ Return(Neutral, 0)

\* wait_for cancels the call.
TimeoutError == phase = "waiting" /\ Elapsed >= Limit /\ Return(Neutral, 0)

\* Any other exception of the call, an answer without the wanted structure included.
OtherError == phase \in {"setup", "waiting"} /\ Return(Neutral, 0)

\* Mutant: the handler's own call is repeated as well.
Bug_Retries == loop # "running"

\* The handler of RuntimeError calls again; asyncio.run refuses to while a loop runs.
Retries == attempt = 1 /\ loop # "running"

RuntimeError ==
  /\ phase \in {"setup", "waiting"}
  /\ IF Retries THEN Call(2) ELSE Return(Neutral, 0)

\* No time passes beyond a timer that is due.
MayPass == Elapsed < (IF phase = "setup" THEN MaxSetup ELSE Limit)

Second ==
  /\ phase \in {"setup", "waiting"}
  /\ MayPass
  /\ now' = now + 1
  /\ UNCHANGED <<inputs, metrics, phase, attempt, calls, began, signal, took>>

Init ==
  /\ window \in Windows
  /\ bins \in {h \in Histories : Len(window) <= h[1]}
  /\ installed \in Libraries
  /\ loop \in {"none", "idle", "running"}
  /\ metrics = Absent
  /\ phase = "inputs" /\ attempt = 1 /\ calls = 0 /\ began = 0 /\ now = 0
  /\ signal = Neutral /\ took = 0

Node == \/ GateBypass \/ FirstCall \/ Request \/ Answer
        \/ TimeoutError \/ OtherError \/ RuntimeError \/ Second

Next == ComputeMetrics \/ Node

\* The program runs; an answer or an error may never come.
Fairness == WF_vars(GateBypass \/ FirstCall) /\ WF_vars(Request)
              /\ WF_vars(TimeoutError) /\ WF_vars(Second)

Spec == Init /\ [][Next]_vars /\ Fairness

----------------------------------------------------------------------------
TypeOK ==
  /\ metrics = Absent \/ metrics = compute_metrics(window, bins)
  /\ phase \in {"inputs", "entered", "setup", "waiting", "done"}
  /\ attempt \in 1..2 /\ calls \in 0..2
  /\ {now, began, took} \subseteq Nat /\ began <= now
  /\ signal \in Answers

\* Every text of the window is like one that is kept and not newer than the kept one, and
\* no two kept ones are alike (fuzzy_deduplicate).
OneOfEachIsKept ==
  LET kept == fuzzy_deduplicate(window)
  IN  /\ \A i \in DOMAIN window : \E j \in 1..i :
           window[j] \in Range(kept) /\ Similar(window[i], window[j])
      /\ \A i, j \in DOMAIN kept : Similar(kept[i], kept[j]) => i = j

\* The gate opens for a window that has three times the tweets of every half hour before,
\* and stays closed when it has less than twice those of the quietest: whichever library
\* computes it, the baseline is an average.
BaselineIsAnAverage ==
  (metrics # Absent /\ window # <<>> /\ \A k \in Bins : bins[k] > 0) =>
    /\ (bins[1] = Len(window) /\ \A k \in Bins \ {1} : Len(window) >= 3 * bins[k]) => Spikes
    /\ (\A k \in Bins : Len(window) < Gate * bins[k]) => ~Spikes

\* An alert or a direction comes from a model that was asked because of a spike, and that
\* answered within the limit of its call, however long its set-up took.
AlertsAreHeardInTime == signal # Neutral => Spikes /\ calls > 0 /\ took <= Limit

\* The node is left within one limit, or the set-up it can not stop, for each of at most
\* two calls (_run_async_with_timeout asks again after a RuntimeError).
ReturnsInTime == now <= calls * (IF Limit > MaxSetup THEN Limit ELSE MaxSetup) /\ calls <= 2

\* The node returns, though the model may never answer.
NodeReturns == phase = "entered" ~> phase = "done"

=============================================================================
