----------------------------- MODULE AgentGraph -----------------------------
(***************************************************************************)
(* The graph that build_graph of trading-system compiles and run_symbol    *)
(* invokes: the enabled agents are asked side by side, the orchestrator    *)
(* waits for all of them and decides, and the plan marks the symbol armed  *)
(* or flat.                                                                *)
(*                                                                         *)
(* What a language model answers is outside the program: any vote, a text  *)
(* that can not be parsed, or no answer at all.  LangGraph applies what    *)
(* the agents write when all of them are done, and hands their signals to  *)
(* the reducer _append.  run_symbol builds a new graph, with an empty      *)
(* checkpoint, for every invocation.                                       *)
(***************************************************************************)
EXTENDS Consensus, Functions

CONSTANTS
  enabled_agents,       \* names of the agents, a sequence
  consensus_threshold,
  Snapshots             \* feature snapshots

Agents == Range(enabled_agents)
Replies == Votes \cup {"malformed", "error"}

GraphAssumption ==
  /\ enabled_agents \in Seq(STRING)
  /\ \A i, j \in DOMAIN enabled_agents : enabled_agents[i] = enabled_agents[j] => i = j
  /\ "x_sentiment" \notin Agents /\ "vwap" \notin Agents
  /\ consensus_threshold \in Nat
  /\ None \notin Int
  /\ \A s \in Snapshots : /\ {s.close, s.vwap, s.orbHigh, s.orbLow} \subseteq (Nat \ {0}) \cup {None}
                          /\ s.atr \in Nat \cup {None}
                          /\ s.res \cup s.sup \subseteq Int
                          /\ IsFiniteSet(s.res) /\ IsFiniteSet(s.sup)

VARIABLES
  stage,    \* the node the graph has come to
  fs,       \* feature_snapshot
  said,     \* what the model said to an agent (observed only)
  writes,   \* signals of the agents that are done, not yet applied
  signals,  \* the channel of GraphState
  plan,     \* trade_plan
  state     \* the symbol's state

vars == <<stage, fs, said, writes, signals, plan, state>>

NoSignal == [agent |-> "none"]
NoPlan == [bias |-> "none"]

\* Anything but a vote becomes an abstention, an error of the transport too.
parse_signal(a, reply) ==
  [agent |-> a, vote |-> IF reply \in Votes THEN reply ELSE "abstain", levels |-> None]

\* Mutant: the new graph is given the checkpoint of the one before.
Bug_NewChannel == signals

NewChannel == <<>>

\* build_graph and invoke: START leads to every agent.
Invoke ==
  /\ stage \in {"idle", "done", "raised"}
  /\ fs' \in Snapshots
  /\ stage' = "agents"
  /\ said' = [a \in Agents |-> "nothing"]
  /\ writes' = [a \in Agents |-> NoSignal]
  /\ signals' = NewChannel
  /\ plan' = NoPlan
  /\ state' = "scanning"

\* Mutant: an agent whose model can not be reached writes no signal.
Bug_Written(a, reply) == IF reply = "error" THEN NoSignal ELSE parse_signal(a, reply)

Written(a, reply) == parse_signal(a, reply)

Agent(a) ==
  /\ stage = "agents"
  /\ said[a] = "nothing"
  /\ \E reply \in Replies :
       /\ said' = [said EXCEPT ![a] = reply]
       /\ writes' = [writes EXCEPT ![a] = Written(a, reply)]
  /\ UNCHANGED <<stage, fs, signals, plan, state>>

\* The orchestrator is reached when every agent is done; _append adds what they wrote.
FanIn ==
  /\ stage = "agents"
  /\ \A a \in Agents : writes[a] # NoSignal
  /\ stage' = "orchestrator"
  /\ signals' = signals \o [i \in DOMAIN enabled_agents |-> writes[enabled_agents[i]]]
  /\ UNCHANGED <<fs, said, writes, plan, state>>

Orchestrate ==
  /\ stage = "orchestrator"
  /\ plan' = orchestrator_node(signals, fs, FALSE, consensus_threshold)
  /\ stage' = IF plan' = Raised THEN "raised" ELSE "mark"
  /\ UNCHANGED <<fs, said, writes, signals, state>>

Mark ==
  /\ stage = "mark"
  /\ stage' = "done"
  /\ state' = IF plan.bias = "flat" THEN "flat" ELSE "plan_armed"
  /\ UNCHANGED <<fs, said, writes, signals, plan>>

Init ==
  /\ stage = "idle"
  /\ fs \in Snapshots
  /\ said = [a \in Agents |-> "nothing"]
  /\ writes = [a \in Agents |-> NoSignal]
  /\ signals = <<>>
  /\ plan = NoPlan
  /\ state = "scanning"

Next == Invoke \/ (\E a \in Agents : Agent(a)) \/ FanIn \/ Orchestrate \/ Mark

\* An invocation that was begun goes on; nothing makes anybody begin one.
Fairness == (\A a \in Agents : WF_vars(Agent(a))) /\ WF_vars(FanIn \/ Orchestrate \/ Mark)

Spec == Init /\ [][Next]_vars /\ Fairness

----------------------------------------------------------------------------
Decided == stage \in {"mark", "done"}
Directional == Decided /\ plan.bias \in Directions

TypeOK ==
  /\ stage \in {"idle", "agents", "orchestrator", "mark", "done", "raised"}
  /\ fs \in Snapshots
  /\ said \in [Agents -> Replies \cup {"nothing"}]
  /\ \A a \in Agents : writes[a] \in {NoSignal} \cup {parse_signal(a, v) : v \in Votes}
  /\ signals \in Seq(UNION {{parse_signal(a, v) : v \in Votes} : a \in Agents})
  /\ Decided => plan.bias \in Directions \cup {"flat"}
  /\ state \in {"scanning", "flat", "plan_armed"}

\* Whoever stands behind a direction: the agents whose model said so, and the VWAP.
Sources(bias) ==
  {a \in Agents : said[a] = bias} \cup (IF structural_vote(fs) = bias THEN {"vwap"} ELSE {})

\* A plan with a direction has two different sources behind it that really said so, and
\* more than the other direction has.  An outage of the models says nothing, so it never
\* makes a trade (floor and tally of orchestrator_node, _call_llm, _parse_signal).
TwoSourcesBackATrade ==
  Directional =>
    /\ Cardinality(Sources(plan.bias)) >= 2
    /\ Cardinality(Sources(plan.bias)) > Cardinality(Sources(Opposite(plan.bias)))

\* The orchestrator decides on one signal of every enabled agent, none of them from an
\* earlier invocation (fan-in and reducer).
EveryAgentVotesOnce ==
  stage \in {"orchestrator", "mark", "done", "raised"} =>
    \A a \in Agents :
      Cardinality({i \in DOMAIN signals : signals[i].agent = a}) = 1

\* After a break of the opening range upwards no plan opposes the VWAP: a long plan has
\* its stop below it or on it, a short plan its stop above the entry at the VWAP.
TrendDayFollowsVwap ==
  Directional /\ classify_regime(fs) = "trend_up" /\ fs.vwap \notin {None, fs.close} =>
    plan.levels.stop = fs.vwap

\* The levels of a plan are on their sides of the entry, the nearest target first: the
\* gateway never turns an orchestrator's plan down as malformed.
LevelsFitTheBias ==
  Directional =>
    LET sign == IF plan.bias = "long" THEN 1 ELSE -1
        away == [i \in DOMAIN plan.levels.targets |->
                   sign * (plan.levels.targets[i] - plan.levels.entry)]
    IN  /\ sign * (plan.levels.entry - plan.levels.stop) > 0
        /\ \A i \in DOMAIN away : away[i] > 0 /\ (i > 1 => away[i] > away[i - 1])

\* An invocation that was begun comes to a plan or an exception, whatever the models do.
InvocationEnds == stage = "agents" ~> stage \in {"done", "raised"}
=============================================================================
