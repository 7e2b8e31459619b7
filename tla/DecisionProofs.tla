---------------------------- MODULE DecisionProofs ----------------------------
(***************************************************************************)
(* Theorems about MCDecision for any agents, snapshots, windows, readings  *)
(* and candles: a plan has two sources behind it and levels on their       *)
(* sides, the sentiment node keeps one tweet of each cluster and hears     *)
(* alerts in time, the bias engine has no side of its own, and the signal  *)
(* providers of the backtest are traded as they vote, and the loop of      *)
(* tweets passes over nothing that is not in the database.                 *)
(***************************************************************************)
EXTENDS MCDecision, FiniteSetTheorems, SequenceTheorems, TLAPS

------------------------------------------------------------------------------
\* Finite sets of numbers

\* A set of sets that is not empty has a member that no other member lies in.
LEMMA SmallestSubset ==
  ASSUME NEW S, IsFiniteSet(S), NEW F \in SUBSET SUBSET S, F # {}
  PROVE  \E U \in F : \A V \in F : V \subseteq U => V = U
<1>1. IsWellFoundedOn(StrictSubsetOrdering(S), FiniteSubsetsOf(S))
  BY FS_StrictSubsetOrderingWellFounded
<1>2. F \subseteq FiniteSubsetsOf(S)
  BY FS_Subset DEF FiniteSubsetsOf
<1>3. \E U \in F : \A V \in F : ~(<<V, U>> \in StrictSubsetOrdering(S))
  BY <1>1, <1>2, WFMin
<1> QED BY <1>3 DEF StrictSubsetOrdering

\* A finite set of numbers has a first one on the way up or down.
LEMMA FirstExists ==
  ASSUME NEW P, IsFiniteSet(P), P \subseteq Int, P # {}, NEW sign \in {-1, 1}
  PROVE  G!First(P, sign) \in P /\ \A q \in P : sign * G!First(P, sign) <= sign * q
<1> DEFINE F == {{q \in P : sign * q <= sign * p} : p \in P}
           N == P
<1>1. F \in SUBSET SUBSET N /\ F # {} /\ IsFiniteSet(N)
  OBVIOUS
<1>2. PICK U \in F : \A Z \in F : Z \subseteq U => Z = U
  <2> HIDE DEF F, N
  <2> QED BY <1>1, SmallestSubset
<1>3. PICK p \in P : U = {q \in P : sign * q <= sign * p}
  BY <1>2
<1>4. ASSUME NEW q \in P, ~(sign * p <= sign * q) PROVE FALSE
  <2>0. p \in Int /\ q \in Int /\ sign * p \in Int /\ sign * q \in Int
    OBVIOUS
  <2>1. {x \in P : sign * x <= sign * q} \in F
    OBVIOUS
  <2>2. {x \in P : sign * x <= sign * q} \subseteq U
    <3> SUFFICES ASSUME NEW x \in P, sign * x <= sign * q PROVE sign * x <= sign * p
      BY <1>3
    <3>1. sign * x \in Int
      OBVIOUS
    <3> QED BY <2>0, <3>1, <1>4
  <2>3. p \in U /\ p \notin {x \in P : sign * x <= sign * q}
    BY <1>3, <1>4, <2>0
  <2> QED BY <1>2, <2>1, <2>2, <2>3
<1>5. \A q \in P : sign * p <= sign * q
  BY <1>4
<1> QED BY <1>5 DEF G!First

\* A finite set of numbers has a largest and a smallest.
LEMMA ExtremesExist ==
  ASSUME NEW P, IsFiniteSet(P), P \subseteq Int, P # {}
  PROVE  /\ C!Max(P) \in P /\ \A x \in P : C!Max(P) >= x
         /\ C!Min(P) \in P /\ \A x \in P : C!Min(P) <= x
<1>1. PICK x \in P : \A q \in P : x <= q
  <2>1. G!First(P, 1) \in P /\ \A q \in P : 1 * G!First(P, 1) <= 1 * q
    BY FirstExists
  <2>2. \A y \in Int : 1 * y = y
    OBVIOUS
  <2>3. \A q \in P : G!First(P, 1) <= q
    BY <2>1, <2>2
  <2> QED BY <2>1, <2>3
<1>2. PICK u \in P : \A q \in P : u >= q
  <2>1. G!First(P, -1) \in P /\ \A q \in P : (-1) * G!First(P, -1) <= (-1) * q
    BY FirstExists
  <2>2. \A y \in Int : (-1) * y = 0 - y
    OBVIOUS
  <2> DEFINE p == G!First(P, -1)
  <2>3. p \in P /\ \A q \in P : (-1) * p <= (-1) * q
    BY <2>1
  <2> HIDE DEF p
  <2>4. \A q \in P : p >= q
    <3> SUFFICES ASSUME NEW q \in P PROVE p >= q
      OBVIOUS
    <3>1. p \in Int /\ q \in Int /\ (-1) * p <= (-1) * q
      BY <2>3
    <3>2. 0 - p <= 0 - q
      BY <2>2, <3>1
    <3> QED BY <3>1, <3>2
  <2> QED BY <2>3, <2>4
<1> QED BY <1>1, <1>2 DEF C!Max, C!Min

LEMMA ValuesAreFinite ==
  ASSUME NEW n \in Nat, NEW f, DOMAIN f = 1..n
  PROVE  IsFiniteSet({f[i] : i \in 1..n})
<1> DEFINE g == [i \in 1..n |-> f[i]]
           T == {f[i] : i \in 1..n}
<1>1. g \in Surjection(1..n, T)
  BY DEF Surjection
<1> DEFINE N == 1..n
<1>2. IsFiniteSet(N) /\ g \in Surjection(N, T)
  BY <1>1, FS_Interval
<1> HIDE DEF T, N, g
<1>3. IsFiniteSet(T)
  BY <1>2, FS_Surjection
<1> QED BY <1>3 DEF T

LEMMA PartsAreFinite ==
  ASSUME NEW n \in Nat, NEW S \in SUBSET (1..n)
  PROVE  IsFiniteSet(S) /\ S \subseteq Int
<1> DEFINE N == 1..n
<1>1. IsFiniteSet(N) /\ S \in SUBSET N /\ N \subseteq Int
  BY FS_Interval
<1> HIDE DEF N
<1> QED BY <1>1, FS_Subset

\* A property of whole numbers that 0 has and that passes to the next one, as a set.
LEMMA UpTo ==
  ASSUME NEW N \in Nat, NEW S \in SUBSET (0..N), 0 \in S,
         \A n \in 0..N : n \in S /\ n # N => n + 1 \in S
  PROVE  S = 0..N
<1> DEFINE Missing == (0..N) \ S
<1>1. CASE Missing = {}
  BY <1>1
<1>2. CASE Missing # {}
  <2>1. Missing \in SUBSET (0..N) /\ IsFiniteSet(0..N)
    BY FS_Interval
  <2>2. PICK n \in Missing : \A m \in Missing : n <= m
    <3> HIDE DEF Missing
    <3>1. IsFiniteSet(Missing)
      BY <2>1, FS_Subset
    <3>2. Missing \subseteq Int
      BY <2>1
    <3>3. G!First(Missing, 1) \in Missing /\ \A q \in Missing : 1 * G!First(Missing, 1) <= 1 * q
      BY <1>2, <3>1, <3>2, FirstExists
    <3>4. \A q \in Int : 1 * q = q
      OBVIOUS
    <3>5. \A q \in Missing : G!First(Missing, 1) <= q
      BY <3>2, <3>3, <3>4
    <3> QED BY <3>3, <3>5
  <2>3. n # 0
    OBVIOUS
  <2>4. n - 1 \in 0..N /\ n - 1 \notin Missing /\ n - 1 # N
    BY <2>2, <2>3
  <2> QED BY <2>2, <2>4
<1> QED BY <1>1, <1>2

------------------------------------------------------------------------------
\* The graph of agents

LEMMA SameFiniteness == \A S : G!IsFiniteSet(S) <=> IsFiniteSet(S)
BY DEF G!IsFiniteSet, IsFiniteSet

LEMMA SameCardinality == \A S : G!Cardinality(S) = Cardinality(S)
BY DEF G!Cardinality, Cardinality

\* What the agents' signals are when all of them are done.
Heard == [i \in DOMAIN EnabledAgents |-> G!parse_signal(EnabledAgents[i], said[EnabledAgents[i]])]

\* What an agent wrote is what its model said, the channel holds one signal of each when
\* the orchestrator is reached, and its plan was made of them and of the snapshot.
GraphInv ==
  /\ fs \in Snapshots
  /\ stage \in {"idle", "agents", "orchestrator", "mark", "done", "raised"}
  /\ said \in [G!Agents -> G!Replies \cup {"nothing"}]
  /\ writes = [a \in G!Agents |-> IF said[a] = "nothing" THEN G!NoSignal
                                                         ELSE G!parse_signal(a, said[a])]
  /\ stage \in {"idle", "agents"} => signals = <<>>
  /\ stage \in {"orchestrator", "mark", "done", "raised"} =>
       signals = Heard /\ \A a \in G!Agents : said[a] # "nothing"
  /\ G!Decided => plan = G!orchestrator_node(signals, fs, FALSE, Threshold) /\ plan # G!Raised
  /\ state \in {"scanning", "flat", "plan_armed"}

\* What is assumed of the constants.
LEMMA GraphValues ==
  /\ EnabledAgents \in Seq(STRING)
  /\ \A i, j \in DOMAIN EnabledAgents : EnabledAgents[i] = EnabledAgents[j] => i = j
  /\ "x_sentiment" \notin G!Agents /\ "vwap" \notin G!Agents
  /\ Threshold \in Nat /\ None \notin Int
BY DecisionAssumption DEF G!GraphAssumption

LEMMA SnapshotValues ==
  ASSUME NEW s \in Snapshots
  PROVE  /\ {s.close, s.vwap, s.orbHigh, s.orbLow} \subseteq (Nat \ {0}) \cup {None}
         /\ s.atr \in Nat \cup {None}
         /\ s.res \cup s.sup \subseteq Int
         /\ IsFiniteSet(s.res) /\ IsFiniteSet(s.sup)
<1>1. \A x \in Snapshots :
         /\ {x.close, x.vwap, x.orbHigh, x.orbLow} \subseteq (Nat \ {0}) \cup {None}
         /\ x.atr \in Nat \cup {None}
         /\ x.res \cup x.sup \subseteq Int
         /\ IsFiniteSet(x.res) /\ IsFiniteSet(x.sup)
  BY DecisionAssumption, SameFiniteness DEF G!GraphAssumption
<1> QED BY <1>1

\* A signal is not what stands for none.
LEMMA SignalIsWritten == \A a, r : G!parse_signal(a, r) # G!NoSignal
<1> SUFFICES ASSUME NEW a, NEW r, G!parse_signal(a, r) = G!NoSignal PROVE FALSE
  OBVIOUS
<1>1. "vote" \in DOMAIN G!parse_signal(a, r)
  BY DEF G!parse_signal
<1>2. "vote" \notin DOMAIN G!NoSignal
  BY DEF G!NoSignal
<1> QED BY <1>1, <1>2

LEMMA AgentsByName == \A i \in DOMAIN EnabledAgents : EnabledAgents[i] \in G!Agents
BY DEF G!Agents, G!Range, Range

LEMMA GraphInit == Init => GraphInv
<1> SUFFICES ASSUME Init PROVE GraphInv
  OBVIOUS
<1>1. G!Init
  BY DEF Init
<1>2. /\ stage = "idle" /\ fs \in Snapshots /\ state = "scanning" /\ signals = <<>>
      /\ said = [a \in G!Agents |-> "nothing"] /\ writes = [a \in G!Agents |-> G!NoSignal]
  BY <1>1 DEF G!Init
<1>3. writes = [a \in G!Agents |-> IF said[a] = "nothing" THEN G!NoSignal
                                                          ELSE G!parse_signal(a, said[a])]
  BY <1>2
<1> QED BY <1>2, <1>3 DEF GraphInv, G!Decided

LEMMA GraphStep == GraphInv /\ [Next]_vars => GraphInv'
<1> SUFFICES ASSUME GraphInv, [Next]_vars PROVE GraphInv'
  OBVIOUS
<1>1. CASE UNCHANGED graph
  BY <1>1 DEF graph, GraphInv, Heard, G!Decided
<1>2. CASE G!Invoke
  <2>1. writes' = [a \in G!Agents |-> IF said'[a] = "nothing" THEN G!NoSignal
                                                              ELSE G!parse_signal(a, said'[a])]
    BY <1>2 DEF G!Invoke
  <2> QED BY <1>2, <2>1 DEF G!Invoke, GraphInv, G!Decided, G!NewChannel
<1>3. ASSUME NEW a \in G!Agents, G!Agent(a) PROVE GraphInv'
  <2>1. PICK r \in G!Replies : /\ said' = [said EXCEPT ![a] = r]
                               /\ writes' = [writes EXCEPT ![a] = G!parse_signal(a, r)]
    BY <1>3 DEF G!Agent, G!Written
  <2>2. /\ stage = "agents" /\ stage' = stage /\ fs' = fs /\ signals' = signals
        /\ plan' = plan /\ state' = state
    BY <1>3 DEF G!Agent
  <2>3. r # "nothing"
    BY DEF G!Replies, G!Votes, G!Directions
  <2>4. writes' = [b \in G!Agents |-> IF said'[b] = "nothing" THEN G!NoSignal
                                                              ELSE G!parse_signal(b, said'[b])]
    BY <2>1, <2>3 DEF GraphInv
  <2>5. said' \in [G!Agents -> G!Replies \cup {"nothing"}]
    BY <2>1 DEF GraphInv
  <2> QED BY <2>2, <2>4, <2>5 DEF GraphInv, G!Decided
<1>4. CASE G!FanIn
  <2>1. /\ stage = "agents" /\ stage' = "orchestrator"
        /\ \A a \in G!Agents : writes[a] # G!NoSignal
        /\ signals' = signals \o [i \in DOMAIN EnabledAgents |-> writes[EnabledAgents[i]]]
        /\ UNCHANGED <<fs, said, writes, plan, state>>
    BY <1>4 DEF G!FanIn
  <2>2. \A a \in G!Agents : said[a] # "nothing" /\ writes[a] = G!parse_signal(a, said[a])
    BY <2>1 DEF GraphInv
  <2>3. [i \in DOMAIN EnabledAgents |-> writes[EnabledAgents[i]]] = Heard
    BY <2>2, AgentsByName DEF Heard
  <2>4. Heard \in Seq(UNION {{Heard[i]} : i \in DOMAIN EnabledAgents})
    BY GraphValues DEF Heard
  <2>5. signals' = Heard
    <3>1. signals = <<>>
      BY <2>1 DEF GraphInv
    <3>2. signals' = <<>> \o Heard
      BY <2>1, <2>3, <3>1
    <3> HIDE DEF Heard
    <3>3. PICK S : Heard \in Seq(S)
      BY <2>4
    <3> QED BY <3>2, <3>3
  <2>6. Heard' = Heard
    BY <2>1 DEF Heard
  <2> QED BY <2>1, <2>2, <2>5, <2>6 DEF GraphInv, G!Decided
<1>5. CASE G!Orchestrate
  <2>1. /\ stage = "orchestrator" /\ UNCHANGED <<fs, said, writes, signals, state>>
        /\ plan' = G!orchestrator_node(signals, fs, FALSE, Threshold)
        /\ stage' = IF plan' = G!Raised THEN "raised" ELSE "mark"
    BY <1>5 DEF G!Orchestrate
  <2>2. Heard' = Heard
    BY <2>1 DEF Heard
  <2> QED BY <2>1, <2>2 DEF GraphInv, G!Decided
<1>6. CASE G!Mark
  <2>1. Heard' = Heard
    BY <1>6 DEF G!Mark, Heard
  <2> QED BY <1>6, <2>1 DEF GraphInv, G!Decided, G!Mark
<1> QED BY <1>1, <1>2, <1>3, <1>4, <1>5, <1>6
        DEF Next, vars, AskAgent, Decide, InGraph, InNode, InFeed, Step, Leave, Prepare, TimeOut, Tick

LEMMA GraphAlways == Spec => []GraphInv
BY GraphInit, GraphStep, PTL DEF Spec
------------------------------------------------------------------------------
\* Votes and their sources

\* The votes for a direction are as many as the agents whose model said it.
LEMMA BackersCount ==
  ASSUME GraphInv, NEW d \in G!Directions, signals = Heard
  PROVE  /\ IsFiniteSet({a \in G!Agents : said[a] = d})
         /\ G!Cardinality(G!Backers(signals, d)) = Cardinality({a \in G!Agents : said[a] = d})
         /\ Cardinality({a \in G!Agents : said[a] = d}) \in Nat
<1> DEFINE S == {i \in DOMAIN EnabledAgents : said[EnabledAgents[i]] = d}
           T == {a \in G!Agents : said[a] = d}
           f == [i \in S |-> EnabledAgents[i]]
<1>1. G!Backers(signals, d) = S
  <2>1. \A i \in DOMAIN EnabledAgents : signals[i].vote = d <=> said[EnabledAgents[i]] = d
    BY DEF Heard, G!parse_signal, G!Votes, G!Directions
  <2>2. DOMAIN signals = DOMAIN EnabledAgents
    BY DEF Heard
  <2> QED BY <2>1, <2>2 DEF G!Backers
<1>2. IsFiniteSet(S)
  <2>1. DOMAIN EnabledAgents = 1..Len(EnabledAgents) /\ Len(EnabledAgents) \in Nat
    BY GraphValues
  <2>2. S \in SUBSET (1..Len(EnabledAgents)) /\ IsFiniteSet(1..Len(EnabledAgents))
    BY <2>1, FS_Interval
  <2> HIDE DEF S
  <2> QED BY <2>2, FS_Subset
<1>3. f \in [S -> T]
  BY AgentsByName
<1>4. \A i, j \in S : f[i] = f[j] => i = j
  BY GraphValues
<1>5. \A a \in T : \E i \in S : f[i] = a
  BY DEF G!Agents, G!Range
<1>6. ExistsBijection(S, T)
  BY <1>3, <1>4, <1>5 DEF ExistsBijection, Bijection, Injection, Surjection, IsInjective
<1>7. IsFiniteSet(T) /\ Cardinality(T) = Cardinality(S)
  BY <1>2, <1>6, FS_Bijection
<1> QED BY <1>1, <1>7, FS_CardinalityType, SameCardinality

\* The sources of a direction, the VWAP with them.
LEMMA SourcesCount ==
  ASSUME GraphInv, NEW d \in G!Directions, signals = Heard
  PROVE  /\ G!Cardinality(G!Sources(d)) \in Nat
         /\ G!Weight(signals, FALSE, G!structural_vote(fs), d) = 2 * G!Cardinality(G!Sources(d))
<1> DEFINE T == {a \in G!Agents : said[a] = d}
<1>1. IsFiniteSet(T) /\ G!Cardinality(G!Backers(signals, d)) = Cardinality(T) /\ Cardinality(T) \in Nat
  BY BackersCount
<1>2. "vwap" \notin T
  BY GraphValues
<1>3. Cardinality(T \cup {"vwap"}) = Cardinality(T) + 1
  BY <1>1, <1>2, FS_AddElement
<1>4. G!Cardinality({i \in G!Backers(signals, d) : FALSE /\ signals[i].agent = "x_sentiment"}) = 0
  <2>1. {i \in G!Backers(signals, d) : FALSE /\ signals[i].agent = "x_sentiment"} = {}
    OBVIOUS
  <2> QED BY <2>1, FS_EmptySet, SameCardinality
<1>5. CASE G!structural_vote(fs) = d
  <2>1. G!Sources(d) = T \cup {"vwap"}
    BY <1>5 DEF G!Sources
  <2>2. G!Cardinality(G!Sources(d)) = Cardinality(T) + 1
    BY <1>3, <2>1, SameCardinality
  <2> HIDE DEF T
  <2> QED BY <1>1, <1>4, <1>5, <2>2 DEF G!Weight
<1>6. CASE G!structural_vote(fs) # d
  <2>1. G!Sources(d) = T
    BY <1>6 DEF G!Sources
  <2>2. G!Cardinality(G!Sources(d)) = Cardinality(T)
    BY <2>1, SameCardinality
  <2> HIDE DEF T
  <2> QED BY <1>1, <1>4, <1>6, <2>2 DEF G!Weight
<1> QED BY <1>5, <1>6

\* A direction that survives is the one that won the tally.
LEMMA WinnerHasTheFloor ==
  ASSUME NEW long \in Nat, NEW short \in Nat, NEW t \in Nat, NEW regime, NEW structural,
         NEW d \in G!Directions, G!Enforced(G!Winner(long, short, t), regime, structural) = d
  PROVE  /\ G!Winner(long, short, t) = d
         /\ d = "long" => long >= 4 /\ long > short
         /\ d = "short" => short >= 4 /\ short > long
<1>1. G!Winner(long, short, t) = d
  BY DEF G!Enforced, G!Directions
<1>2. G!Floor(t, long + short) \in Int /\ G!Floor(t, long + short) >= 4
  BY DEF G!Floor, G!Smaller, G!Larger, G!MinDirectional
<1>3. G!Winner(long, short, t) = IF long > short /\ long >= G!Floor(t, long + short) THEN "long"
                                 ELSE IF short > long /\ short >= G!Floor(t, long + short)
                                      THEN "short" ELSE "flat"
  BY DEF G!Winner
<1>4. d = "long" \/ d = "short"
  BY DEF G!Directions
<1> HIDE DEF G!Floor
<1> DEFINE floor == G!Floor(t, long + short)
<1> HIDE DEF floor
<1>5. floor \in Int /\ floor >= 4
  BY <1>2 DEF floor
<1>6. G!Winner(long, short, t) = IF long > short /\ long >= floor THEN "long"
                                 ELSE IF short > long /\ short >= floor THEN "short" ELSE "flat"
  BY <1>3 DEF floor
<1> QED BY <1>1, <1>4, <1>5, <1>6

\* A plan is flat or what survived the tally, at the levels made for it.
LEMMA PlanOfTheTally ==
  ASSUME GraphInv, G!Decided
  PROVE  LET b == G!Bias(signals, fs, FALSE, Threshold)
             k == IF b = "flat" THEN None ELSE G!PlanLevels(signals, fs, b)
         IN  /\ signals = Heard
             /\ plan.bias = (IF k = None THEN "flat" ELSE b) /\ plan.levels = k
             /\ k # None => G!Accepted(k)
<1>1. /\ signals = Heard
      /\ plan = G!orchestrator_node(signals, fs, FALSE, Threshold) /\ plan # G!Raised
  BY DEF G!Decided, GraphInv
<1> DEFINE b == G!Bias(signals, fs, FALSE, Threshold)
           k == IF b = "flat" THEN None ELSE G!PlanLevels(signals, fs, b)
           c == G!Score(signals, fs, FALSE)
<1>2. G!orchestrator_node(signals, fs, FALSE, Threshold) =
        IF (k # None /\ ~G!Accepted(k)) \/ c > G!MaxScore THEN G!Raised
        ELSE [bias |-> IF k = None THEN "flat" ELSE b, levels |-> k, score |-> c, alert |-> FALSE]
  BY DEF G!orchestrator_node
<1>3. /\ plan = [bias |-> IF k = None THEN "flat" ELSE b, levels |-> k, score |-> c, alert |-> FALSE]
      /\ k # None => G!Accepted(k)
  <2> HIDE DEF b, k, c
  <2> QED BY <1>1, <1>2
<1>4. plan.bias = (IF k = None THEN "flat" ELSE b) /\ plan.levels = k
  <2> HIDE DEF b, k, c
  <2> QED BY <1>3
<1> QED BY <1>1, <1>3, <1>4

\* A plan has a direction or is flat.
LEMMA PlanBias ==
  ASSUME GraphInv, G!Decided
  PROVE  plan.bias \in G!Directions \cup {"flat"}
<1>1. plan.bias \in {"flat", G!Bias(signals, fs, FALSE, Threshold)}
  BY PlanOfTheTally
<1>2. G!Bias(signals, fs, FALSE, Threshold) \in {"long", "short", "flat"}
  BY DEF G!Bias, G!Enforced, G!Winner
<1> QED BY <1>1, <1>2 DEF G!Directions

\* A plan with a direction is the one that survived, at levels made of the snapshot.
LEMMA DirectionalPlan ==
  ASSUME GraphInv, G!Directional
  PROVE  /\ plan.bias \in G!Directions
         /\ signals = Heard
         /\ G!Bias(signals, fs, FALSE, Threshold) = plan.bias
         /\ plan.levels = G!derive_levels(fs, plan.bias)
         /\ plan.levels # None /\ G!Accepted(plan.levels)
<1> DEFINE b == G!Bias(signals, fs, FALSE, Threshold)
           k == IF b = "flat" THEN None ELSE G!PlanLevels(signals, fs, b)
<1>1. plan.bias \in G!Directions /\ G!Decided
  BY DEF G!Directional
<1>2. /\ signals = Heard /\ plan.bias = (IF k = None THEN "flat" ELSE b) /\ plan.levels = k
      /\ k # None => G!Accepted(k)
  BY <1>1, PlanOfTheTally
<1>3. k # None /\ b = plan.bias
  BY <1>1, <1>2 DEF G!Directions
<1>4. k = G!PlanLevels(signals, fs, b)
  BY <1>1, <1>3 DEF G!Directions
<1>5. {i \in G!Backers(signals, b) : signals[i].levels # None} = {}
  BY <1>2 DEF G!Backers, Heard, G!parse_signal
<1>6. k = G!derive_levels(fs, b)
  BY <1>4, <1>5 DEF G!PlanLevels
<1> QED BY <1>1, <1>2, <1>3, <1>6

\* TwoSourcesBackATrade.
LEMMA GraphTwoSources == GraphInv => G!TwoSourcesBackATrade
<1> SUFFICES ASSUME GraphInv, G!Directional
             PROVE  /\ G!Cardinality(G!Sources(plan.bias)) >= 2
                    /\ G!Cardinality(G!Sources(plan.bias))
                         > G!Cardinality(G!Sources(G!Opposite(plan.bias)))
  BY DEF G!TwoSourcesBackATrade
<1> DEFINE long == G!Cardinality(G!Sources("long"))
           short == G!Cardinality(G!Sources("short"))
<1>1. /\ plan.bias \in {"long", "short"} /\ signals = Heard
      /\ G!Bias(signals, fs, FALSE, Threshold) = plan.bias
  BY DirectionalPlan DEF G!Directions
<1>2. /\ long \in Nat /\ short \in Nat
      /\ G!Weight(signals, FALSE, G!structural_vote(fs), "long") = 2 * long
      /\ G!Weight(signals, FALSE, G!structural_vote(fs), "short") = 2 * short
  BY <1>1, SourcesCount DEF G!Directions
<1> HIDE DEF long, short
<1>3. G!Enforced(G!Winner(2 * long, 2 * short, Threshold), G!classify_regime(fs),
                 G!structural_vote(fs)) = plan.bias
  BY <1>1, <1>2 DEF G!Bias
<1>4. /\ plan.bias = "long" => 2 * long >= 4 /\ 2 * long > 2 * short
      /\ plan.bias = "short" => 2 * short >= 4 /\ 2 * short > 2 * long
  <2>1. 2 * long \in Nat /\ 2 * short \in Nat
    BY <1>2
  <2> QED BY <1>1, <1>3, <2>1, GraphValues, WinnerHasTheFloor DEF G!Directions
<1>5. CASE plan.bias = "long"
  BY <1>2, <1>4, <1>5 DEF G!Opposite, long, short
<1>6. CASE plan.bias = "short"
  BY <1>2, <1>4, <1>6 DEF G!Opposite, long, short
<1> QED BY <1>1, <1>5, <1>6

\* EveryAgentVotesOnce.
LEMMA GraphOneVote == GraphInv => G!EveryAgentVotesOnce
<1> SUFFICES ASSUME GraphInv, stage \in {"orchestrator", "mark", "done", "raised"},
                    NEW a \in G!Agents
             PROVE  G!Cardinality({i \in DOMAIN signals : signals[i].agent = a}) = 1
  BY DEF G!EveryAgentVotesOnce
<1>1. signals = Heard
  BY DEF GraphInv
<1>2. PICK k \in DOMAIN EnabledAgents : EnabledAgents[k] = a
  BY DEF G!Agents, G!Range
<1>3. \A i \in DOMAIN EnabledAgents : signals[i].agent = EnabledAgents[i]
  BY <1>1 DEF Heard, G!parse_signal
<1>4. {i \in DOMAIN signals : signals[i].agent = a} = {k}
  <2>1. DOMAIN signals = DOMAIN EnabledAgents
    BY <1>1 DEF Heard
  <2>2. \A i \in DOMAIN EnabledAgents : signals[i].agent = a <=> i = k
    BY <1>2, <1>3, GraphValues
  <2> QED BY <2>1, <2>2
<1> QED BY <1>4, SameCardinality, FS_Singleton

\* TrendDayFollowsVwap.
LEMMA GraphTrendDay == GraphInv => G!TrendDayFollowsVwap
<1> SUFFICES ASSUME GraphInv, G!Directional, G!classify_regime(fs) = "trend_up",
                    fs.vwap \notin {None, fs.close}
             PROVE  plan.levels.stop = fs.vwap
  BY DEF G!TrendDayFollowsVwap
<1> DEFINE b == plan.bias
           w == G!Winner(G!Weight(signals, FALSE, G!structural_vote(fs), "long"),
                         G!Weight(signals, FALSE, G!structural_vote(fs), "short"), Threshold)
<1>1. /\ b \in {"long", "short"} /\ G!Bias(signals, fs, FALSE, Threshold) = b
      /\ plan.levels = G!derive_levels(fs, b) /\ plan.levels # None
  BY DirectionalPlan DEF G!Directions
<1>2. G!Enforced(w, "trend_up", G!structural_vote(fs)) = b
  BY <1>1 DEF G!Bias
<1>3. w = b /\ G!structural_vote(fs) # G!Opposite(b)
  <2> HIDE DEF w
  <2> QED BY <1>1, <1>2 DEF G!Enforced
<1>4. None \notin {fs.close, fs.atr} /\ plan.levels.stop = G!Stop(fs, b)
  BY <1>1 DEF G!derive_levels, G!Levels
<1>5. fs.close \in Int /\ fs.vwap \in Int /\ fs.close # fs.vwap
  BY <1>4, SnapshotValues DEF GraphInv
<1> QED BY <1>1, <1>3, <1>4, <1>5 DEF G!structural_vote, G!Opposite, G!Stop

\* Nearest gives one or two numbers on the way, in their order, or the default.
LEMMA NearestOnTheWay ==
  ASSUME NEW P, IsFiniteSet(P), P \subseteq Int, NEW sign \in {-1, 1}, NEW other \in Int,
         NEW t, t = G!Nearest(P, sign, other)
  PROVE  /\ t \in Seq(P \cup {other}) /\ Len(t) \in 1..2
         /\ P # {} => t \in Seq(P)
         /\ Len(t) = 2 => sign * t[2] > sign * t[1]
<1> DEFINE first == G!First(P, sign)
           rest == P \ {first}
           second == G!First(rest, sign)
<1>1. t = IF P = {} THEN <<other>> ELSE IF rest = {} THEN <<first>> ELSE <<first, second>>
  BY DEF G!Nearest
<1>2. P # {} => first \in P /\ \A q \in P : sign * first <= sign * q
  BY FirstExists
<1>3. IsFiniteSet(rest) /\ rest \subseteq P
  <2>1. rest \in SUBSET P
    OBVIOUS
  <2> HIDE DEF rest
  <2> QED BY <2>1, FS_Subset
<1>4. rest # {} => second \in rest
  <2> HIDE DEF rest
  <2>1. rest \subseteq Int
    BY <1>3
  <2> QED BY <1>3, <2>1, FirstExists
<1>5. CASE P = {}
  BY <1>1, <1>5
<1>6. CASE P # {} /\ rest = {}
  <2>1. t = <<first>> /\ first \in P
    BY <1>1, <1>2, <1>6
  <2> HIDE DEF first, rest
  <2>2. Len(t) = 1 /\ t \in Seq(P) /\ t \in Seq(P \cup {other})
    BY <2>1
  <2> QED BY <2>2
<1>7. CASE P # {} /\ rest # {}
  <2>1. second \in P /\ second # first
    BY <1>4, <1>7
  <2>2. t = <<first, second>>
    BY <1>1, <1>7
  <2> HIDE DEF first, rest, second
  <2>3. sign * first <= sign * second /\ first \in Int /\ second \in Int
    BY <1>2, <1>7, <2>1
  <2>4. sign * second > sign * first
    BY <2>1, <2>3
  <2> QED BY <1>2, <1>7, <2>1, <2>2, <2>4
<1> QED BY <1>5, <1>6, <1>7

\* LevelsFitTheBias.
LEMMA GraphLevels == GraphInv => G!LevelsFitTheBias
<1> SUFFICES ASSUME GraphInv, G!Directional PROVE G!LevelsFitTheBias
  BY DEF G!LevelsFitTheBias
<1> DEFINE b == plan.bias
           sign == IF b = "long" THEN 1 ELSE -1
           stop == G!Stop(fs, b)
           P == IF b = "long" THEN {t \in fs.res : t > fs.close} ELSE {t \in fs.sup : t < fs.close}
           double == fs.close + 2 * (fs.close - stop)
           targets == G!Nearest(P, sign, double)
<1>1. /\ b \in {"long", "short"} /\ plan.levels = G!derive_levels(fs, b) /\ plan.levels # None
      /\ G!Accepted(plan.levels)
  BY DirectionalPlan DEF G!Directions
<1>2. /\ None \notin {fs.close, fs.atr}
      /\ plan.levels = [entry |-> fs.close, stop |-> stop, targets |-> G!Targets(fs, b)]
  BY <1>1 DEF G!derive_levels, G!Levels
<1>3. G!Targets(fs, b) = targets
  BY <1>1 DEF G!Targets
<1>4. fs.close \in Nat /\ fs.atr \in Nat /\ fs.vwap \in Nat \cup {None}
  BY <1>2, SnapshotValues DEF GraphInv
<1>5. stop \in Int /\ stop # fs.close
  BY <1>1, <1>2, <1>4 DEF G!Stop, G!Accepted
<1>6. sign * (fs.close - stop) > 0
  <2>1. b = "long" => stop <= fs.close
    BY <1>4 DEF G!Stop
  <2>2. b = "short" => stop >= fs.close
    BY <1>4 DEF G!Stop
  <2> HIDE DEF stop
  <2> QED BY <1>1, <1>4, <1>5, <2>1, <2>2
<1>7. double \in Int /\ sign * (double - fs.close) > 0
  <2> HIDE DEF stop
  <2> QED BY <1>1, <1>4, <1>5, <1>6
<1>8. IsFiniteSet(P) /\ P \subseteq Int /\ \A t \in P : sign * (t - fs.close) > 0
  <2>1. /\ IsFiniteSet(fs.res) /\ IsFiniteSet(fs.sup) /\ fs.res \subseteq Int /\ fs.sup \subseteq Int
    BY SnapshotValues DEF GraphInv
  <2>2. P \in SUBSET fs.res \/ P \in SUBSET fs.sup
    OBVIOUS
  <2>3. \A t \in P : sign * (t - fs.close) > 0
    BY <1>1, <1>4, <2>1
  <2> HIDE DEF P
  <2> QED BY <2>1, <2>2, <2>3, FS_Subset
<1> HIDE DEF stop, P, double
<1>9. /\ targets \in Seq(P \cup {double}) /\ Len(targets) \in 1..2
      /\ Len(targets) = 2 => sign * targets[2] > sign * targets[1]
  <2>1. sign \in {-1, 1}
    OBVIOUS
  <2> HIDE DEF sign
  <2> QED BY <1>7, <1>8, <2>1, NearestOnTheWay
<1> HIDE DEF targets
<1>10. \A i \in DOMAIN targets : targets[i] \in Int /\ sign * (targets[i] - fs.close) > 0
  <2> SUFFICES ASSUME NEW i \in DOMAIN targets
               PROVE  targets[i] \in Int /\ sign * (targets[i] - fs.close) > 0
    OBVIOUS
  <2>1. targets[i] \in P \cup {double}
    BY <1>9
  <2> HIDE DEF sign
  <2> QED BY <1>7, <1>8, <2>1
<1>11. sign \in {-1, 1}
  OBVIOUS
<1> DEFINE away == [i \in DOMAIN targets |-> sign * (targets[i] - fs.close)]
<1>12. \A i \in DOMAIN away : away[i] > 0 /\ (i > 1 => away[i] > away[i - 1])
  <2> SUFFICES ASSUME NEW i \in DOMAIN targets
               PROVE  away[i] > 0 /\ (i > 1 => away[i] > away[i - 1])
    OBVIOUS
  <2>1. away[i] > 0
    BY <1>10
  <2>2. ASSUME i > 1 PROVE away[i] > away[i - 1]
    <3>1. i = 2 /\ Len(targets) = 2 /\ {1, 2} \subseteq DOMAIN targets
      BY <1>9, <2>2
    <3>2. targets[1] \in Int /\ targets[2] \in Int /\ sign * targets[2] > sign * targets[1]
      BY <1>9, <1>10, <3>1
    <3>3. away[2] = sign * (targets[2] - fs.close) /\ away[1] = sign * (targets[1] - fs.close)
      BY <3>1
    <3> HIDE DEF away, sign
    <3> QED BY <1>4, <1>11, <3>1, <3>2, <3>3
  <2> QED BY <2>1, <2>2
<1>13. /\ plan.levels.entry = fs.close /\ plan.levels.stop = stop /\ plan.levels.targets = targets
  BY <1>2, <1>3 DEF stop, targets
<1> QED BY <1>6, <1>12, <1>13 DEF G!LevelsFitTheBias

------------------------------------------------------------------------------
\* The sentiment node: calls of the model

\* The longest one call may keep the node.
Longest == IF Limit > MaxSetup THEN Limit ELSE MaxSetup

Calling == phase \in {"setup", "waiting"}

\* A call that has begun is at most one Longest old, and so are the calls before it; a
\* signal other than the neutral one has been set by an answer.
CallsInv ==
  /\ {now, began, took, calls} \subseteq Nat /\ attempt \in 1..2 /\ calls <= attempt
  /\ phase \in {"inputs", "entered"} => calls = 0 /\ now = 0 /\ signal = X!Neutral
  /\ Calling => /\ X!Spikes /\ signal = X!Neutral /\ calls > 0
                /\ began <= now /\ X!Elapsed <= Longest
                /\ began <= (IF calls = 1 THEN 0 ELSE Longest)
  /\ X!AlertsAreHeardInTime /\ X!ReturnsInTime

LEMMA CallsInit == ASSUME X!SentimentAssumption, X!Init PROVE CallsInv
BY DEF X!SentimentAssumption, X!Init, CallsInv, Calling, X!AlertsAreHeardInTime, X!ReturnsInTime

\* The node returns: with the neutral signal, or with an answer in time.
LEMMA ReturnStep ==
  ASSUME X!SentimentAssumption, CallsInv, NEW s, NEW t \in Nat, X!Return(s, t),
         s = X!Neutral \/ (Calling /\ t <= Limit)
  PROVE  CallsInv'
BY DEF X!SentimentAssumption, CallsInv, Calling, X!Return, X!Spikes, X!Elapsed, Longest,
       X!AlertsAreHeardInTime, X!ReturnsInTime

\* A call begins: the first of all, or the handler's own after one that failed.
LEMMA CallStep ==
  ASSUME X!SentimentAssumption, CallsInv, NEW a \in 1..2, X!Call(a), X!Spikes,
         \/ phase = "entered"
         \/ Calling /\ attempt = 1 /\ a = 2
  PROVE  CallsInv'
<1>1. calls' = calls + 1 /\ calls' \in 1..2 /\ calls' <= a /\ now \in Nat
  BY DEF X!Call, CallsInv, Calling
<1>2. signal' = X!Neutral /\ X!Spikes'
  BY DEF X!Call, CallsInv, Calling, X!Spikes
<1>3. Longest \in Nat /\ now <= (IF calls' = 1 THEN 0 ELSE Longest)
  BY <1>1 DEF CallsInv, Calling, X!Elapsed, Longest, X!SentimentAssumption
<1>4. /\ now' = now /\ began' = now /\ phase' = "setup" /\ attempt' = a /\ took' = took
      /\ took \in Nat
  BY DEF X!Call, CallsInv
<1>5. X!AlertsAreHeardInTime' /\ X!ReturnsInTime'
  BY <1>1, <1>2, <1>3, <1>4 DEF X!AlertsAreHeardInTime, X!ReturnsInTime, Longest
<1> QED BY <1>1, <1>2, <1>3, <1>4, <1>5 DEF CallsInv, Calling, X!Elapsed, Longest

LEMMA CallsStep ==
  ASSUME X!SentimentAssumption, CallsInv, X!Next \/ UNCHANGED X!vars
  PROVE  CallsInv'
<1>1. CASE X!ComputeMetrics
  <2>1. /\ phase = "inputs" /\ phase' = "entered"
        /\ UNCHANGED <<attempt, calls, began, now, signal, took>>
    BY <1>1 DEF X!ComputeMetrics
  <2> QED BY <2>1 DEF CallsInv, Calling, X!AlertsAreHeardInTime, X!ReturnsInTime
<1>2. CASE X!GateBypass
  BY <1>2, ReturnStep DEF X!GateBypass
<1>3. CASE X!FirstCall
  BY <1>3, CallStep DEF X!FirstCall
<1>4. CASE X!Request
  BY <1>4 DEF X!Request, X!inputs, CallsInv, Calling, X!Spikes, X!Elapsed,
              X!AlertsAreHeardInTime, X!ReturnsInTime
<1>5. CASE X!Answer
  <2>1. PICK s \in X!Answers : X!Return(s, X!Elapsed)
    BY <1>5 DEF X!Answer
  <2>2. X!Elapsed \in Nat /\ X!Elapsed <= Limit /\ Calling
    BY <1>5 DEF X!Answer, X!InTime, X!Elapsed, CallsInv, Calling
  <2> QED BY <2>1, <2>2, ReturnStep
<1>6. CASE X!TimeoutError
  BY <1>6, ReturnStep DEF X!TimeoutError
<1>7. CASE X!OtherError
  BY <1>7, ReturnStep DEF X!OtherError
<1>8. CASE X!RuntimeError
  <2>1. X!Spikes /\ Calling
    BY <1>8 DEF X!RuntimeError, CallsInv, Calling
  <2> QED BY <1>8, <2>1, CallStep, ReturnStep DEF X!RuntimeError, X!Retries
<1>9. CASE X!Second
  BY <1>9 DEF X!Second, X!MayPass, X!inputs, X!SentimentAssumption, CallsInv, Calling, X!Spikes,
              X!Elapsed, Longest, X!AlertsAreHeardInTime, X!ReturnsInTime
<1>10. CASE UNCHANGED X!vars
  BY <1>10 DEF X!vars, X!inputs, CallsInv, Calling, X!Spikes, X!Elapsed,
               X!AlertsAreHeardInTime, X!ReturnsInTime
<1> QED BY <1>1, <1>2, <1>3, <1>4, <1>5, <1>6, <1>7, <1>8, <1>9, <1>10 DEF X!Next, X!Node

------------------------------------------------------------------------------
\* What the node keeps of a window

\* What is assumed of the constants.
LEMMA SentimentValues ==
  /\ X!SentimentAssumption
  /\ \A w \in Windows : w \in Seq(X!Range(w))
  /\ Histories \subseteq [1..8 -> Nat]
BY DecisionAssumption DEF X!SentimentAssumption, X!Bins

\* The step of fuzzy_deduplicate that comes to the text t.
Kept(t, kept) == IF X!IsDuplicate(t, kept) THEN kept ELSE Append(kept, t)

\* The texts kept after each one, as far as the N-th.
IsRun(texts, N, u) ==
  u = [n \in 0..N |-> IF n = 0 THEN <<>> ELSE Kept(texts[n], u[n - 1])]

LEMMA RunsExist == ASSUME NEW texts, NEW N \in Nat PROVE \E u : IsRun(texts, N, u)
<1> DEFINE Short == {n \in 0..N : ~\E u : IsRun(texts, n, u)}
<1>1. CASE Short = {}
  BY <1>1
<1>2. CASE Short # {}
  <2>1. IsFiniteSet(Short) /\ Short \subseteq Int
    <3>1. Short \in SUBSET (0..N) /\ IsFiniteSet(0..N)
      BY FS_Interval
    <3> HIDE DEF Short
    <3>2. IsFiniteSet(Short)
      BY <3>1, FS_Subset
    <3> QED BY <3>1, <3>2
  <2>2. PICK n \in Short : \A m \in Short : n <= m
    <3> HIDE DEF Short
    <3>1. G!First(Short, 1) \in Short /\ \A q \in Short : 1 * G!First(Short, 1) <= 1 * q
      BY <1>2, <2>1, FirstExists
    <3>2. \A q \in Short : G!First(Short, 1) <= q
      <4>1. \A q \in Int : 1 * q = q
        OBVIOUS
      <4> QED BY <2>1, <3>1, <4>1
    <3> QED BY <3>1, <3>2
  <2>3. n # 0
    <3>1. IsRun(texts, 0, [k \in 0..0 |-> <<>>])
      BY DEF IsRun
    <3> QED BY <3>1
  <2>4. PICK u : IsRun(texts, n - 1, u)
    BY <2>2, <2>3
  <2> DEFINE w == [k \in 0..n |-> IF k = n THEN Kept(texts[n], u[n - 1]) ELSE u[k]]
  <2>5. IsRun(texts, n, w)
    <3>1. u = [k \in 0..(n - 1) |-> IF k = 0 THEN <<>> ELSE Kept(texts[k], u[k - 1])]
      BY <2>4 DEF IsRun
    <3>2. ASSUME NEW k \in 0..n
          PROVE  w[k] = IF k = 0 THEN <<>> ELSE Kept(texts[k], w[k - 1])
      <4>1. CASE k = n
        <5>1. w[n] = Kept(texts[n], u[n - 1]) /\ w[n - 1] = u[n - 1]
          BY <2>3
        <5> QED BY <2>3, <4>1, <5>1
      <4>2. CASE k # n
        <5>1. k \in 0..(n - 1) /\ w[k] = u[k] /\ (k # 0 => w[k - 1] = u[k - 1])
          BY <4>2
        <5>2. u[k] = IF k = 0 THEN <<>> ELSE Kept(texts[k], u[k - 1])
          BY <3>1, <5>1
        <5> HIDE DEF w
        <5> QED BY <5>1, <5>2
      <4> QED BY <4>1, <4>2
    <3>3. w = [k \in 0..n |-> w[k]]
      OBVIOUS
    <3> HIDE DEF w
    <3>4. w = [k \in 0..n |-> IF k = 0 THEN <<>> ELSE Kept(texts[k], w[k - 1])]
      BY <3>2, <3>3
    <3> QED BY <3>4 DEF IsRun
  <2> QED BY <2>5
<1> QED BY <1>1, <1>2

LEMMA DeduplicationRuns ==
  ASSUME NEW texts, Len(texts) \in Nat
  PROVE  \E u : IsRun(texts, Len(texts), u) /\ X!fuzzy_deduplicate(texts) = u[Len(texts)]
<1> DEFINE u == CHOOSE v : IsRun(texts, Len(texts), v)
<1>1. IsRun(texts, Len(texts), u)
  BY RunsExist
<1>2. X!fuzzy_deduplicate(texts) = u[Len(texts)]
  BY DEF X!fuzzy_deduplicate, IsRun, Kept
<1> QED BY <1>1, <1>2

LEMMA SimilarBothWays ==
  \A s, t : X!Similar(s, s) /\ (X!Similar(s, t) <=> X!Similar(t, s))
BY DEF X!Similar

\* What fuzzy_deduplicate keeps of the first n texts.
RunKeeps(texts, n, kept) ==
  /\ kept \in Seq(X!Range(texts))
  /\ \A k \in DOMAIN kept : \E i \in 1..n : kept[k] = texts[i]
  /\ \A i \in 1..n : \E j \in 1..i : /\ \E k \in DOMAIN kept : kept[k] = texts[j]
                                     /\ X!Similar(texts[i], texts[j])
  /\ \A i, j \in DOMAIN kept : X!Similar(kept[i], kept[j]) => i = j

LEMMA KeptKeeps ==
  ASSUME NEW texts, texts \in Seq(X!Range(texts)), NEW n \in Nat, n + 1 \in DOMAIN texts,
         NEW kept, RunKeeps(texts, n, kept)
  PROVE  RunKeeps(texts, n + 1, Kept(texts[n + 1], kept))
<1> DEFINE t == texts[n + 1]
<1>1. CASE X!IsDuplicate(t, kept)
  <2>1. Kept(t, kept) = kept
    BY <1>1 DEF Kept
  <2>2. PICK k \in DOMAIN kept : X!Similar(t, kept[k])
    BY <1>1 DEF X!IsDuplicate, X!Range
  <2>3. PICK m \in 1..n : kept[k] = texts[m]
    BY DEF RunKeeps
  <2>4. \A i \in 1..(n + 1) : i \in 1..n \/ i = n + 1
    OBVIOUS
  <2>5. m \in 1..(n + 1) /\ \A i \in 1..n : i \in 1..(n + 1)
    OBVIOUS
  <2> QED BY <2>1, <2>2, <2>3, <2>4, <2>5 DEF RunKeeps
<1>2. CASE ~X!IsDuplicate(t, kept)
  <2> DEFINE more == Append(kept, t)
             l == Len(kept)
  <2>1. Kept(t, kept) = more
    BY <1>2 DEF Kept
  <2>2. \A k \in DOMAIN kept : ~X!Similar(t, kept[k])
    BY <1>2 DEF X!IsDuplicate, X!Range
  <2>3. kept \in Seq(X!Range(texts)) /\ t \in X!Range(texts) /\ l \in Nat
    BY DEF RunKeeps, X!Range
  <2>4. /\ more \in Seq(X!Range(texts)) /\ DOMAIN kept = 1..l /\ DOMAIN more = 1..(l + 1)
        /\ more[l + 1] = t /\ \A k \in 1..l : more[k] = kept[k]
    <3> HIDE DEF t
    <3> QED BY <2>3
  <2> HIDE DEF more, t, l
  <2>5. \A k \in 1..(l + 1) : k \in 1..l \/ k = l + 1
    BY <2>3
  <2>6. \A k \in 1..l : k \in 1..(l + 1)
    BY <2>3
  <2>7. l + 1 \in 1..(l + 1) /\ n + 1 \in 1..(n + 1)
    BY <2>3
  <2>8. \A i \in 1..(n + 1) : i \in 1..n \/ i = n + 1
    OBVIOUS
  <2>9. \A i \in 1..n : i \in 1..(n + 1)
    OBVIOUS
  <2>10. \A k \in DOMAIN more : \E i \in 1..(n + 1) : more[k] = texts[i]
    BY <2>4, <2>5, <2>7, <2>9 DEF RunKeeps, t
  <2>11. \A i \in 1..(n + 1) : \E j \in 1..i : /\ \E k \in DOMAIN more : more[k] = texts[j]
                                               /\ X!Similar(texts[i], texts[j])
    <3> SUFFICES ASSUME NEW i \in 1..(n + 1)
                 PROVE  \E j \in 1..i : /\ \E k \in DOMAIN more : more[k] = texts[j]
                                        /\ X!Similar(texts[i], texts[j])
      OBVIOUS
    <3>1. CASE i \in 1..n
      BY <2>4, <2>6, <3>1 DEF RunKeeps
    <3>2. CASE i = n + 1
      BY <2>4, <2>7, <3>2, SimilarBothWays DEF t
    <3> QED BY <2>8, <3>1, <3>2
  <2>12. \A i, j \in DOMAIN more : X!Similar(more[i], more[j]) => i = j
    <3> SUFFICES ASSUME NEW i \in 1..(l + 1), NEW j \in 1..(l + 1), X!Similar(more[i], more[j])
                 PROVE  i = j
      BY <2>4
    <3>1. CASE i \in 1..l /\ j \in 1..l
      BY <2>4, <3>1 DEF RunKeeps
    <3>2. CASE i = l + 1 /\ j \in 1..l
      BY <2>2, <2>4, <3>2
    <3>3. CASE i \in 1..l /\ j = l + 1
      BY <2>2, <2>4, <3>3, SimilarBothWays
    <3> QED BY <2>5, <3>1, <3>2, <3>3
  <2> QED BY <2>1, <2>4, <2>10, <2>11, <2>12 DEF RunKeeps, t
<1> QED BY <1>1, <1>2

LEMMA DeduplicationKeeps ==
  ASSUME NEW texts, texts \in Seq(X!Range(texts))
  PROVE  RunKeeps(texts, Len(texts), X!fuzzy_deduplicate(texts))
<1> DEFINE N == Len(texts)
<1>1. N \in Nat /\ DOMAIN texts = 1..N
  OBVIOUS
<1>2. PICK u : IsRun(texts, N, u) /\ X!fuzzy_deduplicate(texts) = u[N]
  BY <1>1, DeduplicationRuns
<1>3. u = [n \in 0..N |-> IF n = 0 THEN <<>> ELSE Kept(texts[n], u[n - 1])]
  BY <1>2 DEF IsRun
<1> DEFINE S == {n \in 0..N : RunKeeps(texts, n, u[n])}
<1>4. 0 \in S
  <2>1. u[0] = <<>> /\ 0 \in 0..N
    BY <1>1, <1>3
  <2>2. RunKeeps(texts, 0, <<>>)
    BY DEF RunKeeps
  <2> QED BY <2>1, <2>2
<1>5. \A n \in 0..N : n \in S /\ n # N => n + 1 \in S
  <2> SUFFICES ASSUME NEW n \in 0..N, n # N, RunKeeps(texts, n, u[n])
               PROVE  n + 1 \in 0..N /\ RunKeeps(texts, n + 1, u[n + 1])
    OBVIOUS
  <2>1. n \in Nat /\ n + 1 \in 0..N /\ n + 1 \in DOMAIN texts
    <3> HIDE DEF N
    <3> QED BY <1>1
  <2>2. u[n + 1] = IF n + 1 = 0 THEN <<>> ELSE Kept(texts[n + 1], u[n + 1 - 1])
    BY <1>3, <2>1
  <2>3. n + 1 # 0 /\ n + 1 - 1 = n
    BY <2>1
  <2>4. u[n + 1] = Kept(texts[n + 1], u[n])
    BY <2>2, <2>3
  <2> QED BY <2>1, <2>4, KeptKeeps
<1>6. S = 0..N
  <2>1. S \in SUBSET (0..N)
    OBVIOUS
  <2> HIDE DEF S, N
  <2> QED BY <1>1, <1>4, <1>5, <2>1, UpTo
<1>7. N \in 0..N
  BY <1>1
<1> QED BY <1>2, <1>6, <1>7

\* OneOfEachIsKept.
LEMMA KeepsOneOfEach == window \in Windows => X!OneOfEachIsKept
<1> SUFFICES ASSUME window \in Windows PROVE X!OneOfEachIsKept
  OBVIOUS
<1> DEFINE kept == X!fuzzy_deduplicate(window)
<1>1. window \in Seq(X!Range(window))
  BY SentimentValues
<1>2. RunKeeps(window, Len(window), kept) /\ DOMAIN window = 1..Len(window)
  BY <1>1, DeduplicationKeeps
<1> HIDE DEF kept
<1>3. \A i \in DOMAIN window : \E j \in 1..i :
         window[j] \in X!Range(kept) /\ X!Similar(window[i], window[j])
  <2> SUFFICES ASSUME NEW i \in 1..Len(window)
               PROVE  \E j \in 1..i : window[j] \in X!Range(kept) /\ X!Similar(window[i], window[j])
    BY <1>2
  <2>1. PICK j \in 1..i : /\ \E k \in DOMAIN kept : kept[k] = window[j]
                          /\ X!Similar(window[i], window[j])
    BY <1>2 DEF RunKeeps
  <2>2. window[j] \in X!Range(kept)
    BY <2>1 DEF X!Range
  <2> QED BY <2>1, <2>2
<1>4. \A i, j \in DOMAIN kept : X!Similar(kept[i], kept[j]) => i = j
  BY <1>2 DEF RunKeeps
<1> QED BY <1>3, <1>4 DEF X!OneOfEachIsKept, kept

------------------------------------------------------------------------------
\* The average of the half hours

\* The sums of the two averages.
Even(b) == b[1] + b[2] + b[3] + b[4] + b[5] + b[6] + b[7] + b[8]
Late(b) == 2187 * b[1] + 3645 * b[2] + 6075 * b[3] + 10125 * b[4]
             + 16875 * b[5] + 28125 * b[6] + 46875 * b[7] + 78125 * b[8]

\* What seven of eight addends that are at most a third of c, or all that are more than half
\* of it, say of their sums.
SumsFollow(c, b) ==
  /\ Even(b) \in Nat /\ Late(b) \in Nat
  /\ b[1] = c /\ (\A k \in (1..8) \ {1} : c >= 3 * b[k])
       => c * 192032 >= 2 * Late(b) /\ c * 8 >= 2 * Even(b)
  /\ (\A k \in 1..8 : c < 2 * b[k]) => c * 192032 < 2 * Late(b) /\ c * 8 < 2 * Even(b)

LEMMA WeightedSum ==
  ASSUME NEW c \in Nat, NEW b \in [1..8 -> Nat]
  PROVE  SumsFollow(c, b)
<1>1. /\ b[1] \in Nat /\ b[2] \in Nat /\ b[3] \in Nat /\ b[4] \in Nat
      /\ b[5] \in Nat /\ b[6] \in Nat /\ b[7] \in Nat /\ b[8] \in Nat
  OBVIOUS
<1>2. ASSUME b[1] = c, \A k \in (1..8) \ {1} : c >= 3 * b[k]
      PROVE  c * 192032 >= 2 * Late(b) /\ c * 8 >= 2 * Even(b)
  <2>1. /\ c >= 3 * b[2] /\ c >= 3 * b[3] /\ c >= 3 * b[4] /\ c >= 3 * b[5]
        /\ c >= 3 * b[6] /\ c >= 3 * b[7] /\ c >= 3 * b[8]
    BY <1>2
  <2>2. b[1] = c
    BY <1>2
  <2>3. c * 192032 >= 2 * Late(b)
    BY <1>1, <2>1, <2>2 DEF Late
  <2>4. c * 8 >= 2 * Even(b)
    BY <1>1, <2>1, <2>2 DEF Even
  <2> QED BY <2>3, <2>4
<1>3. ASSUME \A k \in 1..8 : c < 2 * b[k]
      PROVE  c * 192032 < 2 * Late(b) /\ c * 8 < 2 * Even(b)
  <2>1. /\ c < 2 * b[1] /\ c < 2 * b[2] /\ c < 2 * b[3] /\ c < 2 * b[4] /\ c < 2 * b[5]
        /\ c < 2 * b[6] /\ c < 2 * b[7] /\ c < 2 * b[8]
    BY <1>3
  <2> QED BY <1>1, <2>1 DEF Late, Even
<1>4. Even(b) \in Nat /\ Late(b) \in Nat
  BY <1>1 DEF Late, Even
<1> QED BY <1>2, <1>3, <1>4 DEF SumsFollow

LEMMA EightHalfHours ==
  ASSUME NEW b \in [1..8 -> Nat], \A k \in 1..8 : b[k] > 0
  PROVE  X!Cardinality({k \in X!Bins : b[k] > 0}) = 8
<1>1. {k \in X!Bins : b[k] > 0} = 1..8
  BY DEF X!Bins
<1>2. Cardinality(1..8) = 8
  <2>1. \A n \in Nat : n > 0 => Cardinality(1..n) = n
    BY FS_Interval
  <2> DEFINE n == 8
  <2>2. n \in Nat /\ n > 0
    OBVIOUS
  <2>3. Cardinality(1..n) = n
    <3> HIDE DEF n
    <3> QED BY <2>1, <2>2
  <2> QED BY <2>3
<1>3. \A S : X!Cardinality(S) = Cardinality(S)
  BY DEF X!Cardinality, Cardinality
<1> QED BY <1>1, <1>2, <1>3

\* BaselineIsAnAverage.
LEMMA BaselineAverages ==
  ASSUME window \in Windows, bins \in [1..8 -> Nat],
         metrics \in {X!Absent, X!compute_metrics(window, bins)}
  PROVE  X!BaselineIsAnAverage
<1> SUFFICES ASSUME metrics # X!Absent, window # <<>>, \A k \in 1..8 : bins[k] > 0
             PROVE  /\ (bins[1] = Len(window) /\ \A k \in (1..8) \ {1} : Len(window) >= 3 * bins[k])
                         => X!Spikes
                    /\ (\A k \in 1..8 : Len(window) < 2 * bins[k]) => ~X!Spikes
  BY DEF X!BaselineIsAnAverage, X!Bins, X!Gate
<1> DEFINE c == Len(window)
           ratio == X!SpikeRatio(c, bins)
           b == X!Baseline(bins)
<1>1. c \in Nat
  BY SentimentValues
<1>2. metrics.ratio = ratio
  BY DEF X!compute_metrics
<1>3. ratio = <<c * b[2], b[1]>>
  BY DEF X!SpikeRatio, X!Bins
<1>4. X!Spikes <=> c * b[2] >= 2 * b[1]
  <2> HIDE DEF ratio, b, c
  <2> QED BY <1>2, <1>3 DEF X!Spikes, X!Gate
<1> DEFINE even == Even(bins)
           late == Late(bins)
<1>5. b = <<late, 192032>> \/ b = <<even, 8>>
  <2>1. X!SumOver(bins) = even
    BY DEF X!SumOver, Even
  <2>2. X!SumOver(X!EwmWeight) = 192032
    BY DEF X!SumOver, X!EwmWeight
  <2>3. X!SumOver([k \in X!Bins |-> X!EwmWeight[k] * bins[k]]) = late
    BY DEF X!SumOver, X!EwmWeight, X!Bins, Late
  <2>4. X!Cardinality({k \in X!Bins : bins[k] > 0}) = 8
    BY EightHalfHours
  <2> DEFINE whole == 192032
             counting == X!Cardinality({k \in X!Bins : bins[k] > 0})
             weighing == X!SumOver([k \in X!Bins |-> X!EwmWeight[k] * bins[k]])
             weights == X!SumOver(X!EwmWeight)
             adding == X!SumOver(bins)
  <2>5. b = IF "polars" \in installed THEN <<weighing, weights>> ELSE <<adding, counting>>
    BY DEF X!Baseline
  <2>6. weighing = late /\ weights = whole /\ adding = even /\ counting = 8
    BY <2>1, <2>2, <2>3, <2>4
  <2> HIDE DEF b, even, late, whole, counting, weighing, weights, adding
  <2>7. b = <<late, whole>> \/ b = <<even, 8>>
    BY <2>5, <2>6
  <2> QED BY <2>7 DEF whole
<1>6. /\ even \in Nat /\ late \in Nat
      /\ bins[1] = c /\ (\A k \in (1..8) \ {1} : c >= 3 * bins[k])
           => c * 192032 >= 2 * late /\ c * 8 >= 2 * even
      /\ (\A k \in 1..8 : c < 2 * bins[k]) => c * 192032 < 2 * late /\ c * 8 < 2 * even
  <2>1. SumsFollow(c, bins)
    <3> HIDE DEF c
    <3> QED BY <1>1, WeightedSum
  <2> HIDE DEF c
  <2> QED BY <2>1 DEF SumsFollow
<1> DEFINE more == c * b[2]
           less == 2 * b[1]
           weighed == c * 192032
           counted == c * 8
<1>7. \/ more = weighed /\ less = 2 * late
      \/ more = counted /\ less = 2 * even
  <2> HIDE DEF b, c, even, late
  <2> QED BY <1>5
<1>8. weighed \in Nat /\ counted \in Nat /\ even \in Nat /\ late \in Nat
  <2> HIDE DEF c, even, late
  <2> QED BY <1>1, <1>6
<1>9. /\ bins[1] = c /\ (\A k \in (1..8) \ {1} : c >= 3 * bins[k])
           => weighed >= 2 * late /\ counted >= 2 * even
      /\ (\A k \in 1..8 : c < 2 * bins[k]) => weighed < 2 * late /\ counted < 2 * even
  BY <1>6
<1>10. X!Spikes <=> more >= less
  BY <1>4
<1> HIDE DEF more, less, weighed, counted, even, late, b, c
<1>11. bins[1] = c /\ (\A k \in (1..8) \ {1} : c >= 3 * bins[k]) => X!Spikes
  <2> SUFFICES ASSUME bins[1] = c, \A k \in (1..8) \ {1} : c >= 3 * bins[k] PROVE more >= less
    BY <1>10
  <2>1. weighed >= 2 * late /\ counted >= 2 * even
    BY <1>9
  <2> QED BY <1>7, <2>1, Zenon
<1>12. (\A k \in 1..8 : c < 2 * bins[k]) => ~X!Spikes
  <2> SUFFICES ASSUME \A k \in 1..8 : c < 2 * bins[k] PROVE ~(more >= less)
    BY <1>10
  <2>1. weighed < 2 * late /\ counted < 2 * even
    BY <1>9
  <2>2. \A w, l \in Nat : w < 2 * l => ~(w >= 2 * l)
    OBVIOUS
  <2>3. ~(weighed >= 2 * late) /\ ~(counted >= 2 * even)
    BY <1>8, <2>1, <2>2
  <2> QED BY <1>7, <2>3, Zenon
<1> QED BY <1>11, <1>12 DEF c

------------------------------------------------------------------------------
\* The node

NodeInv ==
  /\ which = "node" => /\ window \in Windows /\ bins \in Histories
                       /\ metrics \in {X!Absent, X!compute_metrics(window, bins)}
  /\ phase \in {"inputs", "entered", "setup", "waiting", "done"} /\ began <= now
  /\ signal \in X!Answers
  /\ CallsInv

LEMMA NodeInit == Init => NodeInv
<1> SUFFICES ASSUME Init PROVE NodeInv
  OBVIOUS
<1>1. X!Init
  BY DEF Init
<1>2. CallsInv
  BY <1>1, CallsInit, SentimentValues
<1>3. signal \in X!Answers
  BY <1>1 DEF X!Init, X!Neutral, X!Answers
<1> QED BY <1>1, <1>2, <1>3 DEF NodeInv, X!Init

\* What no step of the node disturbs.
LEMMA NodeMoves ==
  ASSUME NodeInv, X!Next \/ UNCHANGED node
  PROVE  /\ phase' \in {"inputs", "entered", "setup", "waiting", "done"} /\ began' <= now'
         /\ signal' \in X!Answers
<1>1. now \in Nat /\ began \in Nat /\ X!Neutral \in X!Answers
  BY DEF NodeInv, CallsInv, X!Neutral, X!Answers
<1>2. CASE UNCHANGED node
  BY <1>2 DEF node, NodeInv
<1>3. CASE X!ComputeMetrics
  BY <1>3 DEF X!ComputeMetrics, NodeInv
<1>4. ASSUME NEW s \in X!Answers, NEW t, X!Return(s, t)
      PROVE  phase' = "done" /\ began' <= now' /\ signal' \in X!Answers
  BY <1>4 DEF X!Return, NodeInv
<1>5. ASSUME NEW a, X!Call(a)
      PROVE  phase' = "setup" /\ began' <= now' /\ signal' \in X!Answers
  BY <1>1, <1>5 DEF X!Call, NodeInv
<1>6. CASE X!GateBypass \/ X!TimeoutError \/ X!OtherError \/ X!Answer
  BY <1>1, <1>4, <1>6 DEF X!GateBypass, X!TimeoutError, X!OtherError, X!Answer
<1>7. CASE X!FirstCall \/ X!RuntimeError
  BY <1>1, <1>4, <1>5, <1>7 DEF X!FirstCall, X!RuntimeError
<1>8. CASE X!Request
  BY <1>8 DEF X!Request, NodeInv
<1>9. CASE X!Second
  BY <1>1, <1>9 DEF X!Second, NodeInv
<1> QED BY <1>2, <1>3, <1>6, <1>7, <1>8, <1>9 DEF X!Next, X!Node

LEMMA NodeStep == NodeInv /\ [Next]_vars => NodeInv'
<1> SUFFICES ASSUME NodeInv, [Next]_vars PROVE NodeInv'
  OBVIOUS
<1>1. which' = which /\ (X!Next \/ UNCHANGED node)
  BY DEF Next, vars, AskAgent, Decide, InGraph, InNode, InFeed, Step, Leave, Prepare, TimeOut, Tick,
         X!Next, X!Node
<1>2. CallsInv'
  BY <1>1, CallsStep, SentimentValues DEF NodeInv, node, X!vars, X!inputs
<1>3. /\ phase' \in {"inputs", "entered", "setup", "waiting", "done"} /\ began' <= now'
      /\ signal' \in X!Answers'
  BY <1>1, NodeMoves DEF X!Answers
<1>4. ASSUME UNCHANGED <<window, bins, installed>>
      PROVE  X!compute_metrics(window, bins)' = X!compute_metrics(window, bins)
  BY <1>4 DEF X!compute_metrics, X!SpikeRatio, X!Baseline, X!fuzzy_deduplicate, X!IsDuplicate,
              X!Similar
<1>5. CASE X!ComputeMetrics
  <2>1. /\ UNCHANGED <<window, bins, installed>>
        /\ metrics' \in {X!Absent, X!compute_metrics(window, bins)} /\ X!Absent' = X!Absent
    BY <1>5 DEF X!ComputeMetrics, X!inputs, X!Absent
  <2>2. metrics' \in {X!Absent', X!compute_metrics(window, bins)'}
    BY <1>4, <2>1
  <2> QED BY <1>1, <1>2, <1>3, <2>1, <2>2 DEF NodeInv
<1>6. CASE UNCHANGED <<window, bins, installed, metrics>>
  <2>1. X!compute_metrics(window, bins)' = X!compute_metrics(window, bins)
    BY <1>4, <1>6
  <2> QED BY <1>1, <1>2, <1>6, <1>3, <2>1 DEF NodeInv
<1>7. X!Node => UNCHANGED <<window, bins, installed, metrics>>
  BY DEF X!Node, X!GateBypass, X!FirstCall, X!Request, X!Answer, X!TimeoutError, X!OtherError,
         X!RuntimeError, X!Second, X!Return, X!Call, X!inputs
<1> QED BY <1>1, <1>5, <1>7, <1>6 DEF X!Next, node

LEMMA NodeAlways == Spec => []NodeInv
BY NodeInit, NodeStep, PTL DEF Spec

------------------------------------------------------------------------------
\* The bias engine

\* What is assumed of the constants.
LEMMA BiasValues ==
  /\ None \notin Int
  /\ BiasBars \subseteq [trend : Int \cup {None}, swing : Int \cup {None}, di : Int \cup {None},
                     depth : Int \cup {None}, adx : Int \cup {None}, supertrend : {0, 1, None},
                     zone : {"none", "premium", "discount"}]
  /\ BiasConfigs \subseteq [weights : [B!Factors -> Nat], normalize : BOOLEAN, diMargin : Nat,
                        pdBand : Nat, pdAware : BOOLEAN, discountIsBullish : BOOLEAN]
  /\ \A c \in BiasConfigs :
       B!Total(c.weights) <= 100 /\ 2 * c.weights.premium_discount <= B!Total(c.weights)
BY DecisionAssumption DEF B!BiasAssumption

\* The weight of a factor, on the side of its vote.
Part(v, w) == v * w

LEMMA Minus == \A x \in Int : -x = 0 - x /\ -x \in Int
OBVIOUS

LEMMA PartOfAWeight ==
  ASSUME NEW v \in {-1, 0, 1}, NEW w \in Nat
  PROVE  /\ Part(v, w) \in Int /\ Part(v, w) <= w /\ Part(v, w) >= 0 - w
         /\ \A x \in {-1, 0, 1} : x = 0 - v => Part(x, w) = 0 - Part(v, w)
         /\ v = 0 => Part(v, w) = 0
         /\ v = 1 => Part(v, w) = w
         /\ v = -1 => Part(v, w) = 0 - w
<1>1. 0 * w = 0 /\ 1 * w = w /\ (-1) * w = 0 - w
  OBVIOUS
<1>2. \A x \in {-1, 0, 1} : Part(x, w) = IF x = 0 THEN 0 ELSE IF x = 1 THEN w ELSE 0 - w
  BY <1>1 DEF Part
<1> QED BY <1>2

LEMMA VotesAreSides ==
  ASSUME NEW b \in BiasBars, NEW c \in BiasConfigs
  PROVE  /\ B!structure_vote(b) \in {-1, 0, 1} /\ B!swing_vote(b) \in {-1, 0, 1}
         /\ B!supertrend_vote(b) \in {-1, 0, 1} /\ B!directional_vote(b, c) \in {-1, 0, 1}
         /\ B!premium_discount_vote(b, c) \in {-1, 0, 1}
<1>1. \A x : B!Sign(x) \in {-1, 0, 1}
  BY DEF B!Sign
<1>2. B!structure_vote(b) \in {-1, 0, 1} /\ B!swing_vote(b) \in {-1, 0, 1}
  BY <1>1 DEF B!structure_vote, B!swing_vote
<1>3. B!supertrend_vote(b) \in {-1, 0, 1}
  BY DEF B!supertrend_vote
<1>4. B!directional_vote(b, c) \in {-1, 0, 1}
  BY <1>1 DEF B!directional_vote
<1>5. B!premium_discount_vote(b, c) \in {-1, 0, 1}
  <2> DEFINE bull == IF c.discountIsBullish THEN 1 ELSE -1
  <2>1. bull \in {-1, 1} /\ -bull = 0 - bull
    BY Minus
  <2>2. B!premium_discount_vote(b, c) \in {0, bull, -bull}
    BY DEF B!premium_discount_vote
  <2> HIDE DEF bull
  <2> QED BY <2>1, <2>2
<1> QED BY <1>2, <1>3, <1>4, <1>5

\* The score is the sum of the parts.
LEMMA ScoreOfParts ==
  ASSUME NEW b, NEW c \in BiasConfigs
  PROVE  B!Score(b, c) = Part(B!structure_vote(b), c.weights.structure)
                           + Part(B!swing_vote(b), c.weights.swing)
                           + Part(B!supertrend_vote(b), c.weights.supertrend)
                           + Part(B!directional_vote(b, c), c.weights.directional)
                           + Part(B!premium_discount_vote(b, c), c.weights.premium_discount)
BY DEF B!Score, B!Total, B!Votes, B!Effective, B!Factors, Part

LEMMA WeightValues ==
  ASSUME NEW c \in BiasConfigs
  PROVE  /\ c.weights.structure \in Nat /\ c.weights.swing \in Nat /\ c.weights.supertrend \in Nat
         /\ c.weights.directional \in Nat /\ c.weights.premium_discount \in Nat
         /\ B!Total(c.weights) \in Nat
         /\ B!Effective(c).unit \in 1..100 /\ B!Effective(c).unit >= B!Total(c.weights)
         /\ 2 * c.weights.premium_discount <= B!Effective(c).unit
<1>1. c.weights \in [B!Factors -> Nat]
  BY BiasValues
<1>2. /\ c.weights.structure \in Nat /\ c.weights.swing \in Nat /\ c.weights.supertrend \in Nat
      /\ c.weights.directional \in Nat /\ c.weights.premium_discount \in Nat
  BY <1>1 DEF B!Factors
<1>3. B!Total(c.weights) \in Nat
  BY <1>2 DEF B!Total
<1>4. B!Total(c.weights) <= 100 /\ 2 * c.weights.premium_discount <= B!Total(c.weights)
  BY BiasValues
<1>5. B!Effective(c).unit = IF c.normalize /\ B!Total(c.weights) # 0 THEN B!Total(c.weights) ELSE 100
  BY DEF B!Effective
<1> QED BY <1>2, <1>3, <1>4, <1>5

\* A bar upside down.
LEMMA OppositeReadings ==
  ASSUME NEW b \in BiasBars
  PROVE  LET o == B!Opposite(b)
             turned(x) == IF x = None THEN None ELSE 0 - x
         IN  /\ o.trend = turned(b.trend) /\ o.swing = turned(b.swing) /\ o.di = turned(b.di)
             /\ o.supertrend = IF b.supertrend = None THEN None ELSE 1 - b.supertrend
             /\ o.zone = IF b.zone = "premium" THEN "discount"
                         ELSE IF b.zone = "discount" THEN "premium" ELSE b.zone
             /\ o.depth = b.depth /\ o.adx = b.adx
<1> DEFINE turned(x) == IF x = None THEN None ELSE -x
<1>1. DOMAIN b = {"trend", "swing", "di", "depth", "adx", "supertrend", "zone"}
  BY BiasValues
<1>2. {b.trend, b.swing, b.di} \subseteq Int \cup {None}
  BY BiasValues
<1>3. B!Opposite(b) =
        [b EXCEPT !.trend = turned(b.trend), !.swing = turned(b.swing), !.di = turned(b.di),
                  !.supertrend = IF b.supertrend = None THEN None ELSE 1 - b.supertrend,
                  !.zone = IF b.zone = "premium" THEN "discount"
                           ELSE IF b.zone = "discount" THEN "premium" ELSE b.zone]
  BY <1>1 DEF B!Opposite
<1>4. \A x \in Int \cup {None} : turned(x) = IF x = None THEN None ELSE 0 - x
  BY Minus
<1> HIDE DEF turned
<1>5. LET o == B!Opposite(b)
      IN  /\ o.trend = turned(b.trend) /\ o.swing = turned(b.swing) /\ o.di = turned(b.di)
          /\ o.supertrend = IF b.supertrend = None THEN None ELSE 1 - b.supertrend
          /\ o.zone = IF b.zone = "premium" THEN "discount"
                      ELSE IF b.zone = "discount" THEN "premium" ELSE b.zone
          /\ o.depth = b.depth /\ o.adx = b.adx
  BY <1>1, <1>3
<1> QED BY <1>2, <1>4, <1>5

LEMMA OppositeVotes ==
  ASSUME NEW b \in BiasBars, NEW c \in BiasConfigs
  PROVE  LET o == B!Opposite(b)
         IN  /\ B!structure_vote(o) = 0 - B!structure_vote(b)
             /\ B!swing_vote(o) = 0 - B!swing_vote(b)
             /\ B!supertrend_vote(o) = 0 - B!supertrend_vote(b)
             /\ B!directional_vote(o, c) = 0 - B!directional_vote(b, c)
             /\ B!premium_discount_vote(o, c) = 0 - B!premium_discount_vote(b, c)
             /\ B!Ranging(o) = B!Ranging(b)
<1> DEFINE o == B!Opposite(b)
<1>1. /\ o.trend = IF b.trend = None THEN None ELSE 0 - b.trend
      /\ o.swing = IF b.swing = None THEN None ELSE 0 - b.swing
      /\ o.di = IF b.di = None THEN None ELSE 0 - b.di
      /\ o.supertrend = IF b.supertrend = None THEN None ELSE 1 - b.supertrend
      /\ o.zone = IF b.zone = "premium" THEN "discount"
                  ELSE IF b.zone = "discount" THEN "premium" ELSE b.zone
      /\ o.depth = b.depth /\ o.adx = b.adx
  BY OppositeReadings
<1>2. /\ {b.trend, b.swing, b.di} \subseteq Int \cup {None} /\ None \notin Int
      /\ b.supertrend \in {0, 1, None} /\ c.diMargin \in Nat
  BY BiasValues
<1> HIDE DEF o
<1>3. \A x \in Int : 0 - x \in Int /\ B!Sign(0 - x) = 0 - B!Sign(x)
  BY DEF B!Sign
<1>4. B!structure_vote(o) = 0 - B!structure_vote(b) /\ B!swing_vote(o) = 0 - B!swing_vote(b)
  BY <1>1, <1>2, <1>3 DEF B!structure_vote, B!swing_vote
<1>5. B!supertrend_vote(o) = 0 - B!supertrend_vote(b)
  BY <1>1, <1>2 DEF B!supertrend_vote
<1>6. B!directional_vote(o, c) = 0 - B!directional_vote(b, c)
  <2>1. -c.diMargin = 0 - c.diMargin
    BY <1>2, Minus
  <2>2. \A x \in Int : x \in -c.diMargin..c.diMargin <=> 0 - x \in -c.diMargin..c.diMargin
    BY <1>2, <2>1
  <2> QED BY <1>1, <1>2, <1>3, <2>2 DEF B!directional_vote
<1>7. B!Ranging(o) = B!Ranging(b)
  BY <1>1 DEF B!Ranging
<1>8. B!premium_discount_vote(o, c) = 0 - B!premium_discount_vote(b, c)
  <2> DEFINE bull == IF c.discountIsBullish THEN 1 ELSE -1
             silent(x) == \/ x.zone \notin {"premium", "discount"}
                          \/ c.pdAware /\ ~B!Ranging(x)
                          \/ x.depth # None /\ x.depth < c.pdBand
  <2>1. bull \in {-1, 1} /\ -bull = 0 - bull
    BY Minus
  <2>2. \A x : B!premium_discount_vote(x, c) =
                 IF silent(x) THEN 0 ELSE IF x.zone = "discount" THEN bull ELSE -bull
    BY DEF B!premium_discount_vote
  <2>3. silent(o) <=> silent(b)
    BY <1>1, <1>7
  <2> HIDE DEF bull
  <2>4. ~silent(b) => (o.zone = "discount" <=> b.zone # "discount")
    BY <1>1
  <2> HIDE DEF silent
  <2> QED BY <2>1, <2>2, <2>3, <2>4
<1> QED BY <1>4, <1>5, <1>6, <1>7, <1>8 DEF o

\* UpIsDown.
LEMMA BiasUpIsDown ==
  ASSUME NEW b \in BiasBars, NEW c \in BiasConfigs
  PROVE  B!Bias(B!Opposite(b), c) = -B!Bias(b, c)
<1> DEFINE o == B!Opposite(b)
           u == B!Effective(c).unit
           s == B!Score(b, c)
           m == 2 * B!Band(b) * u
<1>1. /\ B!structure_vote(o) = 0 - B!structure_vote(b)
      /\ B!swing_vote(o) = 0 - B!swing_vote(b)
      /\ B!supertrend_vote(o) = 0 - B!supertrend_vote(b)
      /\ B!directional_vote(o, c) = 0 - B!directional_vote(b, c)
      /\ B!premium_discount_vote(o, c) = 0 - B!premium_discount_vote(b, c)
      /\ B!Ranging(o) = B!Ranging(b)
  BY OppositeVotes
<1>2. \A v, w \in {-1, 0, 1}, x \in Nat : v = 0 - w => Part(v, x) = 0 - Part(w, x) /\ Part(w, x) \in Int
  BY PartOfAWeight
<1>3. \A v \in {-1, 0, 1} : 0 - v \in {-1, 0, 1}
  OBVIOUS
<1> HIDE DEF o
<1>4. B!Score(o, c) = 0 - s /\ s \in Int
  <2> DEFINE p1 == Part(B!structure_vote(b), c.weights.structure)
             p2 == Part(B!swing_vote(b), c.weights.swing)
             p3 == Part(B!supertrend_vote(b), c.weights.supertrend)
             p4 == Part(B!directional_vote(b, c), c.weights.directional)
             p5 == Part(B!premium_discount_vote(b, c), c.weights.premium_discount)
  <2>1. p1 \in Int /\ p2 \in Int /\ p3 \in Int /\ p4 \in Int /\ p5 \in Int
    BY VotesAreSides, WeightValues, PartOfAWeight
  <2>2. /\ Part(B!structure_vote(o), c.weights.structure) = 0 - p1
        /\ Part(B!swing_vote(o), c.weights.swing) = 0 - p2
        /\ Part(B!supertrend_vote(o), c.weights.supertrend) = 0 - p3
        /\ Part(B!directional_vote(o, c), c.weights.directional) = 0 - p4
        /\ Part(B!premium_discount_vote(o, c), c.weights.premium_discount) = 0 - p5
    BY <1>1, <1>2, <1>3, VotesAreSides, WeightValues
  <2>3. s = p1 + p2 + p3 + p4 + p5
    BY ScoreOfParts
  <2>4. B!Score(o, c) = (0 - p1) + (0 - p2) + (0 - p3) + (0 - p4) + (0 - p5)
    BY <2>2, ScoreOfParts
  <2> HIDE DEF p1, p2, p3, p4, p5, s
  <2> QED BY <2>1, <2>3, <2>4
<1>5. u \in Nat /\ B!Band(o) = B!Band(b) /\ B!Band(b) \in {10, 30}
  BY <1>1, WeightValues DEF B!Band
<1>6. m \in Nat
  <2> HIDE DEF u
  <2> QED BY <1>5
<1> DEFINE g == 100 * B!Gated(b, c)
           h == 100 * B!Gated(o, c)
<1>7. g \in Int /\ h = 0 - g
  <2> HIDE DEF s
  <2> QED BY <1>1, <1>4 DEF B!Gated, s
<1>8. /\ B!Bias(b, c) = IF g > m THEN 1 ELSE IF g < -m THEN -1 ELSE 0
      /\ B!Bias(o, c) = IF h > m THEN 1 ELSE IF h < -m THEN -1 ELSE 0
  BY <1>5 DEF B!Bias
<1> HIDE DEF g, h, m
<1>9. -m = 0 - m
  BY <1>6, Minus
<1>10. B!Bias(b, c) \in {-1, 0, 1} /\ B!Bias(o, c) = 0 - B!Bias(b, c)
  BY <1>6, <1>7, <1>8, <1>9
<1> QED BY <1>10, Minus DEF o

\* RangesAreNeverBolder.
LEMMA BiasInARange ==
  ASSUME NEW b \in BiasBars, NEW c \in BiasConfigs, B!Ranging(b), B!Bias(b, c) # 0
  PROVE  B!Bias(B!InATrend(b), c) = B!Bias(b, c)
<1> DEFINE t == B!InATrend(b)
           u == B!Effective(c).unit
           w == c.weights.premium_discount
           s == B!Score(b, c)
           r == B!Score(t, c)
           near == Part(B!premium_discount_vote(b, c), w)
           far == Part(B!premium_discount_vote(t, c), w)
<1>1. DOMAIN b = {"trend", "swing", "di", "depth", "adx", "supertrend", "zone"}
  BY BiasValues
<1>2. /\ t.trend = b.trend /\ t.swing = b.swing /\ t.di = b.di /\ t.supertrend = b.supertrend
      /\ t.zone = b.zone /\ t.depth = b.depth /\ t.adx = 30
  BY <1>1 DEF B!InATrend
<1>3. ~B!Ranging(t)
  BY <1>2 DEF B!Ranging
<1>4. /\ B!structure_vote(t) = B!structure_vote(b) /\ B!swing_vote(t) = B!swing_vote(b)
      /\ B!supertrend_vote(t) = B!supertrend_vote(b)
      /\ B!directional_vote(t, c) = B!directional_vote(b, c)
  BY <1>2 DEF B!structure_vote, B!swing_vote, B!supertrend_vote, B!directional_vote
<1>5. \/ B!premium_discount_vote(t, c) = 0
      \/ B!premium_discount_vote(t, c) = B!premium_discount_vote(b, c)
  BY <1>2, <1>3 DEF B!premium_discount_vote
<1>6. w \in Nat /\ u \in 1..100 /\ 2 * w <= u
  BY WeightValues
<1>7. /\ near \in Int /\ near <= w /\ near >= 0 - w /\ (far = 0 \/ far = near)
  <2>1. B!premium_discount_vote(b, c) \in {-1, 0, 1}
    BY VotesAreSides
  <2>2. Part(0, w) = 0
    BY <1>6 DEF Part
  <2> HIDE DEF w
  <2> QED BY <1>5, <1>6, <2>1, <2>2, PartOfAWeight
<1>8. s \in Int /\ r = s - near + far
  <2> DEFINE p1 == Part(B!structure_vote(b), c.weights.structure)
             p2 == Part(B!swing_vote(b), c.weights.swing)
             p3 == Part(B!supertrend_vote(b), c.weights.supertrend)
             p4 == Part(B!directional_vote(b, c), c.weights.directional)
  <2>1. p1 \in Int /\ p2 \in Int /\ p3 \in Int /\ p4 \in Int
    BY VotesAreSides, WeightValues, PartOfAWeight
  <2>2. s = p1 + p2 + p3 + p4 + near
    BY ScoreOfParts
  <2>3. r = p1 + p2 + p3 + p4 + far
    BY <1>4, ScoreOfParts
  <2> HIDE DEF p1, p2, p3, p4, near, far, s, r
  <2> QED BY <1>7, <2>1, <2>2, <2>3
<1> HIDE DEF t
<1>9. B!Gated(b, c) = s /\ B!Gated(t, c) = 2 * r
  BY <1>3 DEF B!Gated
<1>10. B!Band(b) = 30 /\ B!Band(t) = 10
  BY <1>3 DEF B!Band
<1>11. /\ B!Bias(b, c) = IF 100 * s > 60 * u THEN 1 ELSE IF 100 * s < 0 - 60 * u THEN -1 ELSE 0
       /\ B!Bias(t, c) = IF 200 * r > 20 * u THEN 1 ELSE IF 200 * r < 0 - 20 * u THEN -1 ELSE 0
  <2> DEFINE m == 2 * B!Band(b) * u
             n == 2 * B!Band(t) * u
             g == 100 * B!Gated(b, c)
             h == 100 * B!Gated(t, c)
  <2>1. /\ B!Bias(b, c) = IF g > m THEN 1 ELSE IF g < -m THEN -1 ELSE 0
        /\ B!Bias(t, c) = IF h > n THEN 1 ELSE IF h < -n THEN -1 ELSE 0
    BY DEF B!Bias
  <2> HIDE DEF u, s, r
  <2>2. r \in Int
    <3> HIDE DEF near, far
    <3> QED BY <1>7, <1>8
  <2>3. m = 60 * u /\ n = 20 * u /\ g = 100 * s /\ h = 200 * r
    BY <1>6, <1>8, <1>9, <1>10, <2>2
  <2>4. m \in Int /\ n \in Int
    <3> HIDE DEF m, n
    <3> QED BY <1>6, <2>3
  <2> HIDE DEF m, n, g, h
  <2>5. -m = 0 - m /\ -n = 0 - n
    BY <2>4, Minus
  <2> QED BY <2>1, <2>3, <2>5
<1> HIDE DEF near, far, s, r, u, w
<1>12. CASE 100 * s > 60 * u
  <2>1. 200 * r > 20 * u
    BY <1>6, <1>7, <1>8, <1>12
  <2> QED BY <1>11, <1>12, <2>1 DEF t
<1>13. CASE 100 * s < 0 - 60 * u
  <2>1. 200 * r < 0 - 20 * u /\ ~(100 * s > 60 * u) /\ ~(200 * r > 20 * u)
    BY <1>6, <1>7, <1>8, <1>13
  <2> QED BY <1>11, <1>13, <2>1 DEF t
<1> QED BY <1>11, <1>12, <1>13 DEF t

\* AblationLosesNoSide.
LEMMA BiasOfAnAblation ==
  ASSUME NEW b \in BiasBars, NEW c \in BiasConfigs,
         B!Bias(b, [c EXCEPT !.normalize = FALSE]) # 0
  PROVE  B!Bias(b, [c EXCEPT !.normalize = TRUE]) = B!Bias(b, [c EXCEPT !.normalize = FALSE])
<1> DEFINE k == [c EXCEPT !.normalize = FALSE]
           l == [c EXCEPT !.normalize = TRUE]
           g == 100 * B!Gated(b, c)
           v == B!Effective(l).unit
<1>1. DOMAIN c = {"weights", "normalize", "diMargin", "pdBand", "pdAware", "discountIsBullish"}
  BY BiasValues
<1>2. /\ k.weights = c.weights /\ k.diMargin = c.diMargin /\ k.pdBand = c.pdBand
      /\ k.pdAware = c.pdAware /\ k.discountIsBullish = c.discountIsBullish /\ k.normalize = FALSE
  BY <1>1
<1>3. /\ l.weights = c.weights /\ l.diMargin = c.diMargin /\ l.pdBand = c.pdBand
      /\ l.pdAware = c.pdAware /\ l.discountIsBullish = c.discountIsBullish /\ l.normalize = TRUE
  BY <1>1
<1> HIDE DEF k, l
<1>4. B!Gated(b, k) = B!Gated(b, c) /\ B!Gated(b, l) = B!Gated(b, c)
  <2>1. B!Votes(b, k) = B!Votes(b, c) /\ B!Votes(b, l) = B!Votes(b, c)
    BY <1>2, <1>3 DEF B!Votes, B!directional_vote, B!premium_discount_vote
  <2>2. /\ B!Effective(k).weights = B!Effective(c).weights
        /\ B!Effective(l).weights = B!Effective(c).weights
    BY <1>2, <1>3 DEF B!Effective
  <2>3. B!Score(b, k) = B!Score(b, c) /\ B!Score(b, l) = B!Score(b, c)
    BY <2>1, <2>2 DEF B!Score
  <2> QED BY <2>3 DEF B!Gated
<1>5. B!Effective(k).unit = 100
  BY <1>2 DEF B!Effective
<1>6. v \in 1..100
  BY <1>3, WeightValues, BiasValues DEF B!Effective
<1>7. g \in Int
  <2> DEFINE p1 == Part(B!structure_vote(b), c.weights.structure)
             p2 == Part(B!swing_vote(b), c.weights.swing)
             p3 == Part(B!supertrend_vote(b), c.weights.supertrend)
             p4 == Part(B!directional_vote(b, c), c.weights.directional)
             p5 == Part(B!premium_discount_vote(b, c), c.weights.premium_discount)
  <2>1. p1 \in Int /\ p2 \in Int /\ p3 \in Int /\ p4 \in Int /\ p5 \in Int
    BY VotesAreSides, WeightValues, PartOfAWeight
  <2>2. B!Score(b, c) = p1 + p2 + p3 + p4 + p5
    BY ScoreOfParts
  <2> HIDE DEF p1, p2, p3, p4, p5
  <2>3. B!Score(b, c) \in Int
    BY <2>1, <2>2
  <2> QED BY <2>3 DEF B!Gated
<1> DEFINE m == 2 * B!Band(b) * 100
           n == 2 * B!Band(b) * v
<1>8. /\ B!Bias(b, k) = IF g > m THEN 1 ELSE IF g < -m THEN -1 ELSE 0
      /\ B!Bias(b, l) = IF g > n THEN 1 ELSE IF g < -n THEN -1 ELSE 0
  <2> HIDE DEF v
  <2> QED BY <1>4, <1>5 DEF B!Bias, v
<1>9. m \in Int /\ n \in Int /\ 0 <= n /\ n <= m /\ -m = 0 - m /\ -n = 0 - n
  <2>1. B!Band(b) = 10 \/ B!Band(b) = 30
    BY DEF B!Band
  <2> HIDE DEF v
  <2>2. m \in Int /\ n \in Int /\ 0 <= n /\ n <= m
    BY <1>6, <2>1
  <2> HIDE DEF m, n
  <2> QED BY <2>2, Minus
<1> HIDE DEF g, m, n
<1> QED BY <1>7, <1>8, <1>9 DEF k, l

\* StructureIsNotOutvoted.
LEMMA BiasOfAStructure ==
  ASSUME NEW b \in BiasBars, NEW c \in BiasConfigs, c.weights = B!Weights,
         B!structure_vote(b) = B!swing_vote(b)
  PROVE  B!Bias(b, c) * B!structure_vote(b) >= 0
<1> DEFINE v == B!structure_vote(b)
           p3 == Part(B!supertrend_vote(b), 15)
           p4 == Part(B!directional_vote(b, c), 15)
           p5 == Part(B!premium_discount_vote(b, c), 15)
           s == B!Score(b, c)
           m == 2 * B!Band(b) * B!Effective(c).unit
           g == 100 * B!Gated(b, c)
<1>1. v \in {-1, 0, 1}
  BY VotesAreSides
<1>2. s = Part(v, 35) + Part(v, 20) + p3 + p4 + p5
  BY ScoreOfParts DEF B!Weights
<1>3. /\ p3 \in Int /\ p3 <= 15 /\ p3 >= -15 /\ p4 \in Int /\ p4 <= 15 /\ p4 >= -15
      /\ p5 \in Int /\ p5 <= 15 /\ p5 >= -15
  <2>1. \A x \in {-1, 0, 1} : Part(x, 15) \in Int /\ Part(x, 15) <= 15 /\ Part(x, 15) >= 0 - 15
    BY PartOfAWeight
  <2>2. /\ p3 \in Int /\ p3 <= 15 /\ p3 >= 0 - 15 /\ p4 \in Int /\ p4 <= 15 /\ p4 >= 0 - 15
        /\ p5 \in Int /\ p5 <= 15 /\ p5 >= 0 - 15
    BY <2>1, VotesAreSides
  <2> HIDE DEF p3, p4, p5
  <2> QED BY <2>2
<1>4. Part(0, 35) = 0 /\ Part(0, 20) = 0 /\ Part(1, 35) = 35 /\ Part(1, 20) = 20
      /\ Part(-1, 35) = 0 - 35 /\ Part(-1, 20) = 0 - 20
  BY PartOfAWeight
<1> HIDE DEF v, p3, p4, p5
<1>5. s \in Int /\ (v = 1 => s > 0) /\ (v = -1 => s < 0)
  BY <1>1, <1>2, <1>3, <1>4
<1> HIDE DEF s
<1>6. g \in Int /\ (v = 1 => g > 0) /\ (v = -1 => g < 0)
  BY <1>1, <1>5 DEF B!Gated, s
<1>7. m \in Nat /\ -m = 0 - m
  <2>1. B!Effective(c).unit \in Nat /\ B!Band(b) \in Nat
    BY WeightValues DEF B!Band
  <2>2. m \in Nat
    BY <2>1
  <2> HIDE DEF m
  <2> QED BY <2>2, Minus
<1>8. B!Bias(b, c) = IF g > m THEN 1 ELSE IF g < -m THEN -1 ELSE 0
  BY DEF B!Bias
<1> HIDE DEF g, m
<1>9. /\ v = 1 => B!Bias(b, c) \in {0, 1}
      /\ v = -1 => B!Bias(b, c) \in {0, -1}
      /\ B!Bias(b, c) \in {-1, 0, 1}
  BY <1>6, <1>7, <1>8
<1>10. B!Bias(b, c) * v >= 0
  BY <1>1, <1>9
<1> QED BY <1>10 DEF v

------------------------------------------------------------------------------
\* The engine scores one bar.
BiasInv ==
  which = "bias" =>
    /\ bar \in BiasBars /\ config \in BiasConfigs
    /\ \/ result = B!NoResult
       \/ result = [bias |-> B!Bias(bar, config), score |-> B!Score(bar, config),
                    regime |-> IF B!Ranging(bar) THEN "ranging" ELSE "trending"]

LEMMA BiasAlways == Spec => []BiasInv
<1>1. Init => BiasInv
  BY DEF Init, B!Init, BiasInv
<1>2. BiasInv /\ [Next]_vars => BiasInv'
  BY DEF BiasInv, Next, vars, bias, AskAgent, Decide, InGraph, InNode, InFeed, Step, Leave, Prepare,
         TimeOut, Tick, B!ScoreBar
<1> QED BY <1>1, <1>2, PTL DEF Spec

------------------------------------------------------------------------------
\* Two votes of one rule

LEMMA SmallCardinalities == Cardinality({}) = 0 /\ Cardinality({1, 2}) = 2
<1>1. Cardinality({}) = 0 /\ IsFiniteSet({})
  BY FS_EmptySet
<1>2. Cardinality({1}) = 1 /\ IsFiniteSet({1})
  BY FS_Singleton
<1>3. {1, 2} = {1} \cup {2}
  OBVIOUS
<1>4. 2 \notin {1}
  OBVIOUS
<1> DEFINE S == {1}
<1>5. Cardinality(S \cup {2}) = Cardinality(S) + 1
  <2> HIDE DEF S
  <2> QED BY <1>2, <1>4, FS_AddElement DEF S
<1> QED BY <1>1, <1>2, <1>3, <1>5

\* Two votes of four weigh four halves, and the VWAP's two.
LEMMA TwoVotesWeigh ==
  ASSUME NEW s, DOMAIN s = 1..4, s[2].vote = s[1].vote,
         s[3].vote = "abstain", s[4].vote = "abstain",
         NEW d \in {"long", "short"}, NEW structural
  PROVE  G!Weight(s, FALSE, structural, d)
           = (IF s[1].vote = d THEN 4 ELSE 0) + (IF structural = d THEN 2 ELSE 0)
<1> DEFINE v == s[1].vote
           T == G!Backers(s, d)
<1>1. T = IF v = d THEN {1, 2} ELSE {}
  <2>1. T = {i \in 1..4 : s[i].vote = d}
    BY DEF G!Backers
  <2>2. 1..4 = {1, 2, 3, 4}
    OBVIOUS
  <2>3. s[3].vote # d /\ s[4].vote # d
    OBVIOUS
  <2> HIDE DEF T, v
  <2>4. s[1].vote = v /\ s[2].vote = v
    BY DEF v
  <2> QED BY <2>1, <2>2, <2>3, <2>4
<1>2. G!Cardinality(T) = IF v = d THEN 2 ELSE 0
  BY <1>1, SmallCardinalities DEF G!Cardinality, Cardinality
<1>3. G!Cardinality({i \in T : FALSE /\ s[i].agent = "x_sentiment"}) = 0
  <2>1. {i \in T : FALSE /\ s[i].agent = "x_sentiment"} = {}
    OBVIOUS
  <2> QED BY <2>1, SmallCardinalities DEF G!Cardinality, Cardinality
<1> HIDE DEF T
<1>4. G!Weight(s, FALSE, structural, d)
        = 2 * G!Cardinality(T) + 0 + (IF structural = d THEN 2 ELSE 0)
  BY <1>3 DEF G!Weight, T
<1> DEFINE n == G!Cardinality(T)
           w == G!Weight(s, FALSE, structural, d)
           more == IF structural = d THEN 2 ELSE 0
<1>5. n = (IF v = d THEN 2 ELSE 0) /\ w = 2 * n + 0 + more /\ more \in Int
  <2>1. n = (IF v = d THEN 2 ELSE 0)
    BY <1>2
  <2>2. w = 2 * n + 0 + more
    BY <1>4
  <2>3. more \in Int
    OBVIOUS
  <2> QED BY <2>1, <2>2, <2>3
<1> HIDE DEF n, w, more, v
<1>6. w = (IF v = d THEN 4 ELSE 0) + more
  BY <1>5
<1> QED BY <1>6 DEF w, more, v

LEMMA SameWeight ==
  \A s, structural, d :
    /\ C!Weight(s, FALSE, structural, d) = G!Weight(s, FALSE, structural, d)
    /\ R!Weight(s, FALSE, structural, d) = G!Weight(s, FALSE, structural, d)
<1>1. \A S : C!Cardinality(S) = G!Cardinality(S) /\ R!Cardinality(S) = G!Cardinality(S)
  BY DEF C!Cardinality, G!Cardinality, R!Cardinality
<1>2. \A s, d : C!Backers(s, d) = G!Backers(s, d) /\ R!Backers(s, d) = G!Backers(s, d)
  BY DEF C!Backers, G!Backers, R!Backers
<1> QED BY <1>1, <1>2 DEF C!Weight, G!Weight, R!Weight

------------------------------------------------------------------------------
\* The rules

\* What is assumed of the constants.
LEMMA RuleValues ==
  /\ None \notin Int /\ None \notin [entry : Int, stop : Int, targets : Seq(Int)]
  /\ \A f \in RuleSnapshots :
       /\ f.close \in Nat \ {0}
       /\ {f.vwap, f.ema9, f.ema20, f.orbHigh, f.orbLow} \subseteq (Nat \ {0}) \cup {None}
       /\ f.atr # None => f.atr \in 1..(f.close - 1)
       /\ {f.rvol, f.rsi} \subseteq Int \cup {None}
       /\ f.sup \cup f.res \subseteq Int /\ IsFiniteSet(f.sup) /\ IsFiniteSet(f.res)
<1>1. \A S : R!IsFiniteSet(S) <=> IsFiniteSet(S)
  BY DEF R!IsFiniteSet, IsFiniteSet
<1>2. /\ None \notin Int /\ None \notin [entry : Int, stop : Int, targets : Seq(Int)]
      /\ \A f \in RuleSnapshots :
           /\ f.close \in Nat \ {0}
           /\ {f.vwap, f.ema9, f.ema20, f.orbHigh, f.orbLow} \subseteq (Nat \ {0}) \cup {None}
           /\ f.atr # None => f.atr \in 1..(f.close - 1)
           /\ {f.rvol, f.rsi} \subseteq Int \cup {None}
           /\ f.sup \cup f.res \subseteq Int /\ R!IsFiniteSet(f.sup) /\ R!IsFiniteSet(f.res)
  BY DecisionAssumption DEF R!RuleAssumption
<1> QED BY <1>1, <1>2

\* Two votes of a rule weigh four, and the VWAP's two.
LEMMA RuleWeights ==
  ASSUME NEW p, NEW f, NEW d \in {"long", "short"}, NEW structural
  PROVE  R!Weight(R!Signals(p, f), FALSE, structural, d)
           = (IF R!Vote(p, f) = d THEN 4 ELSE 0) + (IF structural = d THEN 2 ELSE 0)
<1> DEFINE s == R!Signals(p, f)
           v == R!Vote(p, f)
<1>1. /\ DOMAIN s = 1..4 /\ s[1].vote = v /\ s[2].vote = v
      /\ s[3].vote = "abstain" /\ s[4].vote = "abstain"
  BY DEF R!Signals
<1> HIDE DEF s, v
<1>2. G!Weight(s, FALSE, structural, d)
        = (IF s[1].vote = d THEN 4 ELSE 0) + (IF structural = d THEN 2 ELSE 0)
  BY <1>1, TwoVotesWeigh
<1>3. G!Weight(s, FALSE, structural, d)
        = (IF v = d THEN 4 ELSE 0) + (IF structural = d THEN 2 ELSE 0)
  BY <1>1, <1>2
<1> QED BY <1>3, SameWeight DEF s, v

\* On trend days the rules vote with the VWAP.
LEMMA RuleVotes ==
  ASSUME NEW p \in {"deterministic", "pullback"}, NEW f \in RuleSnapshots,
         R!classify_regime(f) = "trend_up"
  PROVE  R!Vote(p, f) \in {"long", "flat"} /\ (R!Vote(p, f) = "long" => R!structural_vote(f) = "long")
<1>1. R!Vote(p, f) \in {"long", "flat"} /\ (R!Vote(p, f) = "long" => R!Above(f, f.vwap))
  <2>1. R!deterministic(f) \in {"long", "flat"} /\ (R!deterministic(f) = "long" => R!Above(f, f.vwap))
    BY DEF R!deterministic
  <2>2. R!pullback(f) \in {"long", "flat"} /\ (R!pullback(f) = "long" => R!Above(f, f.vwap))
    <3>1. CASE f.late
      BY <3>1 DEF R!pullback
    <3>2. CASE ~f.late
      BY <3>2 DEF R!pullback
    <3> QED BY <3>1, <3>2
  <2> QED BY <2>1, <2>2 DEF R!Vote
<1>2. f.close # None
  BY RuleValues
<1> QED BY <1>1, <1>2 DEF R!Above, R!structural_vote

\* The orchestrator's direction is the rule's.
LEMMA RuleDecides ==
  ASSUME NEW p \in {"deterministic", "pullback"}, NEW f \in RuleSnapshots,
         R!Vote(p, f) \in {"long", "short"}
  PROVE  /\ R!Bias(R!Signals(p, f), f, FALSE, 2) = R!Vote(p, f)
         /\ R!Score(R!Signals(p, f), f, FALSE) \in 0..5
<1> DEFINE s == R!Signals(p, f)
           v == R!Vote(p, f)
           side == R!structural_vote(f)
           long == R!Weight(s, FALSE, side, "long")
           short == R!Weight(s, FALSE, side, "short")
<1>1. /\ long = (IF v = "long" THEN 4 ELSE 0) + (IF side = "long" THEN 2 ELSE 0)
      /\ short = (IF v = "short" THEN 4 ELSE 0) + (IF side = "short" THEN 2 ELSE 0)
  BY RuleWeights
<1>2. R!Bias(s, f, FALSE, 2) = R!Enforced(R!Winner(long, short, 2), R!classify_regime(f), side)
  BY DEF R!Bias
<1>3. R!Score(s, f, FALSE) = R!Rounded(R!Larger(long, short))
  BY DEF R!Score
<1>4. R!classify_regime(f) = "trend_up" => v = "long" /\ side = "long"
  BY RuleVotes
<1>5. v \in {"long", "short"}
  OBVIOUS
<1> HIDE DEF s, v, side, long, short
<1>6. long \in {0, 2, 4, 6} /\ short \in {0, 2, 4, 6}
  BY <1>1
<1>7. R!Winner(long, short, 2) = v
  <2>1. R!Floor(2, long + short) = 4
    BY <1>6 DEF R!Floor, R!Smaller, R!Larger, R!MinDirectional
  <2>2. /\ v = "long" => long >= 4 /\ long > short
        /\ v = "short" => short >= 4 /\ short > long
    BY <1>1
  <2> QED BY <1>5, <1>6, <2>1, <2>2 DEF R!Winner
<1>8. R!Enforced(v, R!classify_regime(f), side) = v
  BY <1>4, <1>5 DEF R!Enforced, R!Opposite
<1>9. R!Rounded(R!Larger(long, short)) \in 0..5
  BY <1>6 DEF R!Rounded, R!Larger
<1> QED BY <1>2, <1>3, <1>7, <1>8, <1>9 DEF s, v

LEMMA SameNearest == \A P, sign, other : R!Nearest(P, sign, other) = G!Nearest(P, sign, other)
BY DEF R!Nearest, G!Nearest, R!First, G!First

\* Levels can be derived when there is an average range, and KeyLevels accepts them.
LEMMA RuleLevels ==
  ASSUME NEW f \in RuleSnapshots, NEW d \in {"long", "short"}
  PROVE  /\ f.atr = None => R!derive_levels(f, d) = None
         /\ f.atr # None =>
              /\ R!derive_levels(f, d) # None /\ R!Accepted(R!derive_levels(f, d))
              /\ R!derive_levels(f, d).stop = R!Stop(f, d)
<1>1. /\ f.close \in Nat \ {0} /\ f.close # None /\ f.vwap \in (Nat \ {0}) \cup {None}
      /\ f.atr # None => f.atr \in 1..(f.close - 1)
  BY RuleValues
<1>2. ASSUME f.atr # None
      PROVE  /\ R!derive_levels(f, d) # None /\ R!Accepted(R!derive_levels(f, d))
             /\ R!derive_levels(f, d).stop = R!Stop(f, d)
  <2> DEFINE stop == R!Stop(f, d)
             P == IF d = "long" THEN {t \in f.res : t > f.close} ELSE {t \in f.sup : t < f.close}
             double == f.close + 2 * (f.close - stop)
             targets == R!Targets(f, d)
  <2>1. stop \in Int /\ stop > 0 /\ stop # f.close
    BY <1>1, <1>2 DEF R!Stop
  <2>2. R!derive_levels(f, d) = [entry |-> f.close, stop |-> stop, targets |-> targets]
    BY <1>1, <1>2 DEF R!derive_levels, R!Levels
  <2>3. targets \in Seq(Int)
    <3> DEFINE sign == IF d = "long" THEN 1 ELSE -1
    <3>1. targets = G!Nearest(P, sign, double)
      BY SameNearest DEF R!Targets
    <3>2. IsFiniteSet(P) /\ P \subseteq Int
      <4>1. IsFiniteSet(f.res) /\ IsFiniteSet(f.sup) /\ f.res \subseteq Int /\ f.sup \subseteq Int
        BY RuleValues
      <4>2. P \in SUBSET f.res \/ P \in SUBSET f.sup
        OBVIOUS
      <4> HIDE DEF P
      <4>3. IsFiniteSet(P)
        BY <4>1, <4>2, FS_Subset
      <4> QED BY <4>1, <4>2, <4>3
    <3> HIDE DEF stop, P
    <3>3. double \in Int /\ sign \in {-1, 1}
      BY <1>1, <2>1
    <3> HIDE DEF double, sign, targets
    <3>4. targets \in Seq(P \cup {double}) /\ P \cup {double} \subseteq Int
      BY <3>1, <3>2, <3>3, NearestOnTheWay
    <3> QED BY <3>4
  <2> HIDE DEF stop, targets
  <2>4. R!derive_levels(f, d) \in [entry : Int, stop : Int, targets : Seq(Int)]
    BY <1>1, <2>1, <2>2, <2>3
  <2>5. R!derive_levels(f, d) # None
    BY <2>4, RuleValues
  <2>6. R!derive_levels(f, d).entry = f.close /\ R!derive_levels(f, d).stop = stop
    BY <2>2
  <2> QED BY <1>1, <2>1, <2>5, <2>6 DEF R!Accepted, stop
<1> QED BY <1>2 DEF R!derive_levels

\* What the orchestrator makes of a rule that has a direction.
LEMMA RulePlan ==
  ASSUME NEW p \in {"deterministic", "pullback"}, NEW f \in RuleSnapshots,
         R!Vote(p, f) \in {"long", "short"}
  PROVE  LET q == R!orchestrator_node(R!Signals(p, f), f, FALSE, 2)
         IN  /\ q.bias = IF f.atr = None THEN "flat" ELSE R!Vote(p, f)
             /\ f.atr # None => q.levels.stop = R!Stop(f, R!Vote(p, f))
<1> DEFINE s == R!Signals(p, f)
           v == R!Vote(p, f)
           k == R!derive_levels(f, v)
           c == R!Score(s, f, FALSE)
           q == R!orchestrator_node(s, f, FALSE, 2)
<1>1. R!Bias(s, f, FALSE, 2) = v /\ c \in 0..5
  BY RuleDecides
<1>2. v \in {"long", "short"}
  OBVIOUS
<1>3. R!PlanLevels(s, f, v) = k
  <2>1. DOMAIN s = 1..4 /\ \A i \in 1..4 : s[i].levels = None
    BY DEF R!Signals
  <2> HIDE DEF s, v
  <2>2. {i \in R!Backers(s, v) : s[i].levels # None} = {}
    BY <2>1 DEF R!Backers
  <2> QED BY <2>2 DEF R!PlanLevels
<1>4. /\ f.atr = None => k = None
      /\ f.atr # None => k # None /\ R!Accepted(k) /\ k.stop = R!Stop(f, v)
  BY <1>2, RuleLevels
<1> HIDE DEF s, v, k, c
<1>5. ~(c > R!MaxScore) /\ (k # None => R!Accepted(k))
  <2>1. ~(c > 5)
    BY <1>1
  <2> QED BY <1>1, <1>4, <2>1 DEF R!MaxScore
<1>6. q = [bias |-> IF k = None THEN "flat" ELSE v, levels |-> k, score |-> c, alert |-> FALSE]
  BY <1>1, <1>2, <1>3, <1>5 DEF R!orchestrator_node, c
<1>7. q.bias = (IF k = None THEN "flat" ELSE v) /\ q.levels = k
  <2> HIDE DEF q
  <2> QED BY <1>6
<1> QED BY <1>4, <1>7 DEF s, v, q

\* PullbackIsNearSupport.
LEMMA PullbackNearSupport ==
  ASSUME NEW f \in RuleSnapshots, R!pullback(f) = "long", R!classify_regime(f) = "trend_up"
  PROVE  /\ f.close > f.orbHigh /\ f.atr # None
         /\ \/ f.close - R!Stop(f, "long") <= f.atr
            \/ \E x \in {f.ema9, f.orbHigh} \ {None} :
                 x > R!Stop(f, "long") /\ f.close - x \in 0..f.atr
<1> DEFINE P == {x \in {f.vwap, f.ema9, f.orbHigh} \ {None} : x <= f.close}
           m == R!Support(f)
<1>1. ~f.late
  BY DEF R!pullback
<1>2. /\ R!OrZero(f.atr) > 0 /\ R!Above(f, f.vwap) /\ f.close - m <= f.atr
  BY <1>1 DEF R!pullback
<1>3. /\ f.close \in Nat \ {0} /\ None \notin Int
      /\ {f.vwap, f.ema9, f.orbHigh} \subseteq (Nat \ {0}) \cup {None}
      /\ f.atr # None => f.atr \in 1..(f.close - 1)
  BY RuleValues
<1>4. f.atr # None /\ f.vwap # None /\ f.vwap < f.close
  BY <1>2, <1>3 DEF R!OrZero, R!Above
<1>5. f.close > f.orbHigh
  BY DEF R!classify_regime
<1>6. R!Stop(f, "long") = f.vwap
  BY <1>4 DEF R!Stop
<1>7. m \in P /\ \A x \in P : m >= x
  <2>1. P \subseteq Int /\ f.vwap \in P
    BY <1>3, <1>4
  <2>2. IsFiniteSet(P)
    <3>1. P \in SUBSET ({f.vwap} \cup {f.ema9} \cup {f.orbHigh})
      OBVIOUS
    <3>2. IsFiniteSet({f.vwap} \cup {f.ema9} \cup {f.orbHigh})
      BY FS_Singleton, FS_Union
    <3> HIDE DEF P
    <3> QED BY <3>1, <3>2, FS_Subset
  <2>3. m = CHOOSE x \in P : \A y \in P : x >= y
    BY DEF R!Support, R!Max
  <2> HIDE DEF P, m
  <2>4. PICK x \in P : \A q \in P : (-1) * x <= (-1) * q
    BY <2>1, <2>2, FirstExists
  <2>5. \A y \in Int : (-1) * y = 0 - y
    OBVIOUS
  <2>6. \A q \in P : x >= q
    BY <2>1, <2>4, <2>5
  <2> QED BY <2>3, <2>4, <2>6
<1> HIDE DEF m
<1>8. m \in {f.vwap, f.ema9, f.orbHigh} \ {None} /\ m <= f.close /\ m >= f.vwap
  BY <1>3, <1>4, <1>7
<1> QED BY <1>2, <1>3, <1>4, <1>5, <1>6, <1>8

------------------------------------------------------------------------------
\* The provider is asked about one snapshot.
RuleInv ==
  which = "rules" =>
    /\ rules \in {"deterministic", "pullback"} /\ features \in RuleSnapshots
    /\ \/ decision = R!Undecided
       \/ decision = [vote |-> R!Vote(rules, features),
                      plan |-> R!orchestrator_node(R!Signals(rules, features), features, FALSE, 2)]

LEMMA RuleAlways == Spec => []RuleInv
<1>1. Init => RuleInv
  BY DEF Init, R!Init, RuleInv
<1>2. RuleInv /\ [Next]_vars => RuleInv'
  BY DEF RuleInv, Next, vars, rule, AskAgent, Decide, InGraph, InNode, InFeed, Step, Leave, Prepare,
         TimeOut, Tick, R!Ask
<1> QED BY <1>1, <1>2, PTL DEF Spec

LEMMA RulesKeep ==
  ASSUME RuleInv, which = "rules"
  PROVE  R!RulesAreNotOverruled /\ R!PullbackIsNearSupport
<1>1. rules \in {"deterministic", "pullback"} /\ features \in RuleSnapshots
  BY DEF RuleInv
<1> DEFINE v == R!Vote(rules, features)
           q == R!orchestrator_node(R!Signals(rules, features), features, FALSE, 2)
<1>2. decision = R!Undecided \/ (decision.vote = v /\ decision.plan = q)
  <2>1. decision = R!Undecided \/ decision = [vote |-> v, plan |-> q]
    BY DEF RuleInv
  <2> HIDE DEF v, q
  <2> QED BY <2>1
<1>3. ASSUME decision.vote \in {"long", "short"}
      PROVE  /\ decision.vote = v /\ decision.plan = q
             /\ q.bias = (IF features.atr = None THEN "flat" ELSE v)
             /\ features.atr # None => q.levels.stop = R!Stop(features, v)
  <2>1. decision.vote = v /\ decision.plan = q
    <3>1. R!Undecided.vote = "none"
      BY DEF R!Undecided
    <3> HIDE DEF v, q
    <3> QED BY <1>2, <1>3, <3>1
  <2>2. v \in {"long", "short"}
    BY <1>3, <2>1
  <2>3. /\ q.bias = (IF features.atr = None THEN "flat" ELSE v)
        /\ features.atr # None => q.levels.stop = R!Stop(features, v)
    BY <1>1, <2>2, RulePlan
  <2> QED BY <2>1, <2>3
<1>4. R!RulesAreNotOverruled
  BY <1>3 DEF R!RulesAreNotOverruled, R!Directions
<1>5. R!PullbackIsNearSupport
  <2> SUFFICES ASSUME rules = "pullback", decision.vote = "long",
                      R!classify_regime(features) = "trend_up"
               PROVE  /\ features.close > features.orbHigh
                      /\ \/ features.close - decision.plan.levels.stop <= features.atr
                         \/ \E x \in {features.ema9, features.orbHigh} \ {None} :
                              /\ x > decision.plan.levels.stop
                              /\ features.close - x \in 0..features.atr
    BY DEF R!PullbackIsNearSupport
  <2>1. v = "long" /\ decision.plan = q
    BY <1>3
  <2>2. R!pullback(features) = "long"
    BY <2>1 DEF R!Vote
  <2>3. features.atr # None
    BY <1>1, <2>2, PullbackNearSupport
  <2>4. decision.plan.levels.stop = R!Stop(features, "long")
    BY <1>3, <2>1, <2>3
  <2> QED BY <1>1, <2>2, <2>4, PullbackNearSupport
<1> QED BY <1>4, <1>5

------------------------------------------------------------------------------
\* The sweep provider

\* What is assumed of the constants.
LEMMA ProviderValues ==
  /\ None \notin Int /\ None \notin [entry : Int, stop : Int, targets : Seq(Int)]
  /\ MaxBars \in Nat /\ MaxBars >= 3
  /\ \A c \in CrtCandles : C!IsCandle(c)
  /\ \A h \in CrtHistories : /\ Len(h) \in 1..MaxBars /\ DOMAIN h = 1..Len(h)
                             /\ \A i \in DOMAIN h : C!IsCandle(h[i])
  /\ \A a \in CrtAtrs : a \in Nat /\ a >= 10 /\ \A c \in CrtCandles : c.lo > a \div 10
  /\ CrtVwaps \subseteq (Nat \ {0}) \cup {None}
BY DecisionAssumption DEF C!ProviderAssumption

\* What is known of the bars of the running candle, the range before it and the average range.
CrtInv ==
  which = "crt" =>
    /\ atr \in CrtAtrs
    /\ Len(cur) \in 1..MaxBars /\ DOMAIN cur = 1..Len(cur)
    /\ \A i \in 1..Len(cur) : C!IsCandle(cur[i])
    /\ range # None => /\ cur \in Seq(CrtCandles)
                       /\ range.lo \in Nat /\ range.hi \in Nat /\ range.lo < range.hi

LEMMA RangeOfBars ==
  ASSUME CrtInv, which = "crt", NEW r,
         r = [hi |-> C!Max({cur[i].hi : i \in DOMAIN cur}), lo |-> C!Min({cur[i].lo : i \in DOMAIN cur})]
  PROVE  r.lo \in Nat /\ r.hi \in Nat /\ r.lo < r.hi
<1> DEFINE n == Len(cur)
           f == [i \in 1..n |-> cur[i].hi]
           g == [i \in 1..n |-> cur[i].lo]
           H == {cur[i].hi : i \in 1..n}
           L == {cur[i].lo : i \in 1..n}
<1>1. n \in Nat /\ n >= 1 /\ DOMAIN cur = 1..n /\ \A i \in 1..n : C!IsCandle(cur[i])
  BY ProviderValues DEF CrtInv
<1>2. r.hi = C!Max(H) /\ r.lo = C!Min(L)
  BY <1>1
<1>3. IsFiniteSet(H) /\ IsFiniteSet(L)
  <2>1. IsFiniteSet({f[i] : i \in 1..n}) /\ IsFiniteSet({g[i] : i \in 1..n})
    BY <1>1, ValuesAreFinite
  <2>2. H = {f[i] : i \in 1..n} /\ L = {g[i] : i \in 1..n}
    OBVIOUS
  <2> QED BY <2>1, <2>2
<1>4. H \subseteq Nat /\ L \subseteq Nat /\ cur[1].hi \in H /\ cur[1].lo \in L /\ cur[1].lo < cur[1].hi
  BY <1>1 DEF C!IsCandle
<1> HIDE DEF H, L
<1>5. H \subseteq Int /\ L \subseteq Int /\ H # {} /\ L # {}
  BY <1>4
<1>6. /\ C!Max(H) \in H /\ \A x \in H : C!Max(H) >= x
      /\ C!Min(L) \in L /\ \A x \in L : C!Min(L) <= x
  BY <1>3, <1>5, ExtremesExist
<1>7. C!Max(H) >= cur[1].hi /\ C!Min(L) <= cur[1].lo /\ C!Max(H) \in Nat /\ C!Min(L) \in Nat
      /\ cur[1].hi \in Nat /\ cur[1].lo \in Nat
  BY <1>4, <1>6
<1> QED BY <1>2, <1>4, <1>7

LEMMA CrtAlways == Spec => []CrtInv
<1>1. Init => CrtInv
  BY ProviderValues DEF Init, C!Init, CrtInv
<1>2. CrtInv /\ [Next]_vars => CrtInv'
  <2> SUFFICES ASSUME CrtInv, [Next]_vars PROVE CrtInv'
    OBVIOUS
  <2>1. UNCHANGED <<which, crt>> \/ (which = "crt" /\ which' = which /\ (C!Bar \/ C!Roll))
    BY DEF Next, vars, crt, AskAgent, Decide, InGraph, InNode, InFeed, Step, Leave, Prepare,
           TimeOut, Tick, C!Next
  <2>2. CASE UNCHANGED <<which, crt>>
    BY <2>2 DEF CrtInv, crt
  <2>3. CASE which = "crt" /\ which' = which /\ C!Bar
    <3>1. PICK c \in CrtCandles : cur' = Append(cur, c)
      BY <2>3 DEF C!Bar
    <3>2. /\ range # None /\ Len(cur) < MaxBars /\ atr' \in CrtAtrs /\ range' = range
          /\ cur \in Seq(CrtCandles) /\ range.lo \in Nat /\ range.hi \in Nat /\ range.lo < range.hi
          /\ Len(cur) \in 1..MaxBars
      BY <2>3 DEF C!Bar, CrtInv
    <3>3. /\ cur' \in Seq(CrtCandles) /\ Len(cur') = Len(cur) + 1
      BY <3>1, <3>2
    <3>4. DOMAIN cur' = 1..Len(cur') /\ \A i \in 1..Len(cur') : cur'[i] \in CrtCandles
      BY <3>3
    <3>5. Len(cur') \in 1..MaxBars
      BY <3>2, <3>3, ProviderValues
    <3> QED BY <2>3, <3>2, <3>3, <3>4, <3>5, ProviderValues DEF CrtInv
  <2>4. CASE which = "crt" /\ which' = which /\ C!Roll
    <3>1. PICK c \in CrtCandles : cur' = <<c>>
      BY <2>4 DEF C!Roll
    <3>2. range'.lo \in Nat /\ range'.hi \in Nat /\ range'.lo < range'.hi
      BY <2>4, RangeOfBars DEF C!Roll
    <3>3. cur' \in Seq(CrtCandles) /\ Len(cur') = 1 /\ DOMAIN cur' = 1..1 /\ cur'[1] = c
      BY <3>1
    <3>4. atr' \in CrtAtrs
      BY <2>4 DEF C!Roll
    <3> QED BY <2>4, <3>2, <3>3, <3>4, ProviderValues DEF CrtInv
  <2> QED BY <2>1, <2>2, <2>3, <2>4
<1> QED BY <1>1, <1>2, PTL DEF Spec

------------------------------------------------------------------------------
\* The search for a setup

\* The bars of the running candle, when there is a range.
LEMMA CrtBars ==
  ASSUME CrtInv, which = "crt", range # None
  PROVE  /\ Len(cur) \in Nat /\ Len(cur) >= 1 /\ DOMAIN cur = 1..Len(cur)
         /\ range.lo \in Nat /\ range.hi \in Nat
         /\ atr \in Nat /\ atr >= 10 /\ atr \div 10 \in Nat /\ atr \div 10 >= 1
         /\ \A i \in 1..Len(cur) :
              /\ cur[i].op \in Nat /\ cur[i].hi \in Nat /\ cur[i].lo \in Nat /\ cur[i].cl \in Nat
              /\ cur[i].lo < cur[i].hi /\ cur[i].lo <= cur[i].op /\ cur[i].lo > atr \div 10
<1>1. /\ Len(cur) \in 1..MaxBars /\ DOMAIN cur = 1..Len(cur) /\ atr \in CrtAtrs
      /\ cur \in Seq(CrtCandles) /\ range.lo \in Nat /\ range.hi \in Nat
  BY DEF CrtInv
<1>2. \A i \in 1..Len(cur) : cur[i] \in CrtCandles
  BY <1>1
<1>3. atr \in Nat /\ atr >= 10 /\ \A c \in CrtCandles : c.lo > atr \div 10
  BY <1>1, ProviderValues
<1>4. atr \div 10 \in Nat /\ atr \div 10 >= 1
  BY <1>3
<1>5. \A c \in CrtCandles :
        /\ c.op \in Nat /\ c.hi \in Nat /\ c.lo \in Nat /\ c.cl \in Nat
        /\ c.lo < c.hi /\ c.lo <= c.op
  BY ProviderValues DEF C!IsCandle
<1> QED BY <1>1, <1>2, <1>3, <1>4, <1>5, ProviderValues

\* The extreme of a side is the worst of the bars.
LEMMA ExtremeIsWorst ==
  ASSUME CrtInv, which = "crt", range # None, NEW d \in {"long", "short"}
  PROVE  LET si == C!Extreme(d, range, cur)
         IN  /\ si \in 1..Len(cur)
             /\ \A j \in 1..Len(cur) : C!Gain(d, C!Worst(d, cur[si]), C!Worst(d, cur[j])) >= 0
<1> DEFINE n == Len(cur)
           E == {i \in DOMAIN cur : \A j \in DOMAIN cur :
                                      C!Gain(d, C!Worst(d, cur[i]), C!Worst(d, cur[j])) >= 0}
           f == [i \in 1..n |-> C!Worst(d, cur[i])]
           P == {f[i] : i \in 1..n}
           sign == IF d = "long" THEN 1 ELSE -1
<1>1. n \in Nat /\ n >= 1 /\ DOMAIN cur = 1..n
  BY CrtBars
<1>2. IsFiniteSet(P)
  BY <1>1, ValuesAreFinite
<1>3. \A i \in 1..n : f[i] \in Int /\ f[i] = C!Worst(d, cur[i])
  BY CrtBars DEF C!Worst
<1>4. f[1] \in P
  BY <1>1
<1>5. P \subseteq Int
  <2> HIDE DEF f
  <2> QED BY <1>3
<1>6. sign \in {-1, 1}
  OBVIOUS
<1> HIDE DEF sign, f
<1>7. G!First(P, sign) \in P /\ \A q \in P : sign * G!First(P, sign) <= sign * q
  <2> HIDE DEF P
  <2> QED BY <1>2, <1>4, <1>5, <1>6, FirstExists
<1>8. PICK i \in 1..n : G!First(P, sign) = f[i]
  BY <1>7
<1>9. \A j \in 1..n : sign * f[i] <= sign * f[j]
  BY <1>7, <1>8
<1>10. \A j \in 1..n : C!Gain(d, f[i], f[j]) >= 0
  <2> SUFFICES ASSUME NEW j \in 1..n PROVE C!Gain(d, f[i], f[j]) >= 0
    OBVIOUS
  <2>1. f[i] \in Int /\ f[j] \in Int /\ sign * f[i] <= sign * f[j]
    BY <1>3, <1>9
  <2>2. CASE d = "long"
    BY <2>1, <2>2 DEF sign, C!Gain
  <2>3. CASE d = "short"
    <3>1. sign = -1
      BY <2>3 DEF sign
    <3>2. \A y \in Int : (-1) * y = 0 - y
      OBVIOUS
    <3>3. 0 - f[i] <= 0 - f[j]
      BY <2>1, <3>1, <3>2
    <3> QED BY <2>1, <2>3, <3>3 DEF C!Gain
  <2> QED BY <2>2, <2>3
<1>11. i \in E
  BY <1>1, <1>3, <1>10
<1>12. E \in SUBSET (1..n)
  BY <1>1
<1>13. C!Min(E) \in E
  <2> HIDE DEF E
  <2>1. IsFiniteSet(E) /\ E \subseteq Int /\ E # {}
    BY <1>1, <1>11, <1>12, PartsAreFinite
  <2> QED BY <2>1, ExtremesExist
<1>14. C!Extreme(d, range, cur) = C!Min(E)
  BY DEF C!Extreme
<1> QED BY <1>1, <1>13, <1>14

\* A setup is that of the one side which was swept.
LEMMA OneSideIsSwept ==
  ASSUME C!Setups # C!NoSetup
  PROVE  /\ range # None
         /\ \E d, e \in {"long", "short"} :
              /\ d # e /\ ~C!Swept(e, range, cur)
              /\ C!Setups = C!Setup(d, range, cur, atr)
<1> DEFINE sides == {d \in C!Directions : C!Swept(d, range, cur)}
<1>1. /\ range # None /\ C!Cardinality(sides) = 1
      /\ C!Setups = C!Setup(CHOOSE d \in sides : TRUE, range, cur, atr)
  BY DEF C!Setups, C!Detect
<1>2. Cardinality(sides) = 1
  BY <1>1 DEF C!Cardinality, Cardinality
<1>3. IsFiniteSet(sides)
  <2>1. sides \in SUBSET ({"long"} \cup {"short"})
    BY DEF C!Directions
  <2>2. IsFiniteSet({"long"} \cup {"short"})
    BY FS_Singleton, FS_Union
  <2> HIDE DEF sides
  <2> QED BY <2>1, <2>2, FS_Subset
<1>4. PICK d : sides = {d}
  <2> HIDE DEF sides
  <2> QED BY <1>2, <1>3, FS_Singleton
<1>5. (CHOOSE x \in sides : TRUE) = d
  <2> HIDE DEF sides
  <2> QED BY <1>4
<1>6. d \in {"long", "short"} /\ \A e \in {"long", "short"} : e # d => ~C!Swept(e, range, cur)
  BY <1>4 DEF C!Directions
<1>7. \E e \in {"long", "short"} : e # d
  BY <1>6
<1> QED BY <1>1, <1>5, <1>6, <1>7

\* The levels of a setup: the entry of a bar, the stop beyond the extreme and on the losing
\* side of the entry, the target on the other side of the range; and the extreme has a bar
\* after it.
LEMMA LevelsOfASetup ==
  ASSUME CrtInv, which = "crt", range # None, NEW d \in {"long", "short"},
         C!Setup(d, range, cur, atr) # C!NoSetup
  PROVE  \E k \in 1..Len(cur), si \in 1..Len(cur) :
           LET stop == IF d = "long" THEN C!Worst(d, cur[si]) - atr \div 10
                                     ELSE C!Worst(d, cur[si]) + atr \div 10
           IN  /\ si = C!Extreme(d, range, cur) /\ si < Len(cur)
               /\ C!Gain(d, stop, cur[k].op) > 0
               /\ C!Setup(d, range, cur, atr) =
                    [vote |-> d, levels |-> C!Levels(cur[k].op, stop, <<C!Far(d, range)>>)]
<1> DEFINE n == Len(cur)
           si == C!Extreme(d, range, cur)
           disp == C!Displacement(d, cur, atr, si)
           fd == C!Min(disp)
           blocks == {j \in si..(fd - 1) : C!Gain(d, cur[j].op, cur[j].cl) < 0}
           k == C!Max(blocks)
           stop == IF d = "long" THEN C!Worst(d, cur[si]) - atr \div 10
                                 ELSE C!Worst(d, cur[si]) + atr \div 10
<1>1. /\ disp # {} /\ blocks # {}
      /\ ~(C!Gain(d, stop, cur[k].op) <= 0)
      /\ C!Setup(d, range, cur, atr) =
           [vote |-> d, levels |-> C!Levels(cur[k].op, stop, <<C!Far(d, range)>>)]
  BY DEF C!Setup
<1>2. si \in 1..n /\ n \in Nat
  BY ExtremeIsWorst, CrtBars
<1>3. disp \in SUBSET (1..n) /\ \A i \in disp : i > si
  <2> HIDE DEF si
  <2> QED BY <1>2 DEF C!Displacement
<1> HIDE DEF disp
<1>4. fd \in disp
  <2>1. IsFiniteSet(disp) /\ disp \subseteq Int
    BY <1>2, <1>3, PartsAreFinite
  <2> QED BY <1>1, <2>1, ExtremesExist
<1>5. fd \in 1..n /\ si < fd
  BY <1>3, <1>4
<1> HIDE DEF fd, si
<1>6. blocks \in SUBSET (1..n)
  BY <1>2, <1>5
<1> HIDE DEF blocks
<1>7. k \in blocks
  <2>1. IsFiniteSet(blocks) /\ blocks \subseteq Int
    BY <1>2, <1>6, PartsAreFinite
  <2> QED BY <1>1, <2>1, ExtremesExist
<1>8. k \in 1..n
  BY <1>6, <1>7
<1> HIDE DEF k
<1>9. stop \in Int /\ cur[k].op \in Int
  <2>1. /\ cur[si].lo \in Nat /\ cur[si].hi \in Nat /\ cur[k].op \in Nat /\ atr \div 10 \in Nat
    BY <1>2, <1>8, CrtBars
  <2> QED BY <2>1 DEF C!Worst
<1> HIDE DEF stop
<1>10. C!Gain(d, stop, cur[k].op) > 0
  BY <1>1, <1>9 DEF C!Gain
<1>11. si < n
  BY <1>2, <1>5
<1> QED BY <1>1, <1>2, <1>8, <1>10, <1>11 DEF si, stop

\* LevelsAreUntouched, and what the orchestrator is given.
LEMMA SetupOfASweep ==
  ASSUME CrtInv, which = "crt", C!Setups # C!NoSetup
  PROVE  /\ range # None
         /\ \E d \in {"long", "short"}, entry \in Nat, stop \in Nat :
              /\ C!Setups = [vote |-> d, levels |-> C!Levels(entry, stop, <<C!Far(d, range)>>)]
              /\ C!Setups = C!Setup(d, range, cur, atr)
              /\ entry > 0 /\ stop > 0 /\ entry # stop
              /\ C!Extreme(d, range, cur) \in 1..(Len(cur) - 1)
              /\ \A i \in 1..Len(cur) : /\ C!Gain(d, stop, C!Worst(d, cur[i])) > 0
                                        /\ C!Gain(d, C!Best(d, cur[i]), C!Far(d, range)) >= 0
<1>1. range # None
  BY OneSideIsSwept
<1>2. PICK d, e \in {"long", "short"} :
         d # e /\ ~C!Swept(e, range, cur) /\ C!Setups = C!Setup(d, range, cur, atr)
  BY OneSideIsSwept
<1> DEFINE beyond(si) == IF d = "long" THEN C!Worst(d, cur[si]) - atr \div 10
                                       ELSE C!Worst(d, cur[si]) + atr \div 10
<1>3. PICK k \in 1..Len(cur), si \in 1..Len(cur) :
         /\ si = C!Extreme(d, range, cur) /\ si < Len(cur)
         /\ C!Gain(d, beyond(si), cur[k].op) > 0
         /\ C!Setups = [vote |-> d, levels |-> C!Levels(cur[k].op, beyond(si), <<C!Far(d, range)>>)]
  BY <1>1, <1>2, LevelsOfASetup
<1> DEFINE entry == cur[k].op
           stop == beyond(si)
           tenth == atr \div 10
<1>4. /\ tenth \in Nat /\ tenth >= 1 /\ range.lo \in Nat /\ range.hi \in Nat
      /\ DOMAIN cur = 1..Len(cur) /\ Len(cur) \in Nat
      /\ \A i \in 1..Len(cur) :
           /\ cur[i].op \in Nat /\ cur[i].hi \in Nat /\ cur[i].lo \in Nat
           /\ cur[i].lo < cur[i].hi /\ cur[i].lo <= cur[i].op /\ cur[i].lo > tenth
  BY <1>1, CrtBars
<1>5. stop = IF d = "long" THEN cur[si].lo - tenth ELSE cur[si].hi + tenth
  BY DEF C!Worst
<1> HIDE DEF tenth, stop, entry
<1>6. entry \in Nat /\ entry > 0 /\ stop \in Nat /\ stop > 0
  BY <1>4, <1>5 DEF entry
<1>7. entry # stop
  BY <1>3, <1>6 DEF C!Gain, entry, stop
<1>8. \A j \in 1..Len(cur) : C!Gain(d, C!Worst(d, cur[si]), C!Worst(d, cur[j])) >= 0
  BY <1>1, <1>3, ExtremeIsWorst
<1>9. ASSUME NEW i \in 1..Len(cur) PROVE C!Gain(d, stop, C!Worst(d, cur[i])) > 0
  <2>1. /\ cur[i].hi \in Nat /\ cur[i].lo \in Nat /\ cur[si].hi \in Nat /\ cur[si].lo \in Nat
        /\ C!Gain(d, C!Worst(d, cur[si]), C!Worst(d, cur[i])) >= 0
    BY <1>4, <1>8
  <2>2. CASE d = "long"
    BY <1>4, <1>5, <2>1, <2>2 DEF C!Gain, C!Worst
  <2>3. CASE d # "long"
    BY <1>4, <1>5, <2>1, <2>3 DEF C!Gain, C!Worst
  <2> QED BY <2>2, <2>3
<1>10. ASSUME NEW i \in 1..Len(cur) PROVE C!Gain(d, C!Best(d, cur[i]), C!Far(d, range)) >= 0
  <2>1. ~(C!Gain(e, C!Near(e, range), C!Worst(e, cur[i])) < 0)
    BY <1>2, <1>4 DEF C!Swept
  <2>2. cur[i].hi \in Nat /\ cur[i].lo \in Nat
    BY <1>4
  <2>3. CASE d = "long"
    <3>1. e = "short"
      BY <1>2, <2>3
    <3> QED BY <1>4, <2>1, <2>2, <2>3, <3>1 DEF C!Gain, C!Near, C!Worst, C!Best, C!Far
  <2>4. CASE d = "short"
    <3>1. e = "long"
      BY <1>2, <2>4
    <3> QED BY <1>4, <2>1, <2>2, <2>4, <3>1 DEF C!Gain, C!Near, C!Worst, C!Best, C!Far
  <2> QED BY <2>3, <2>4
<1>11. C!Extreme(d, range, cur) \in 1..(Len(cur) - 1)
  BY <1>3, <1>4
<1>12. C!Setups = [vote |-> d, levels |-> C!Levels(entry, stop, <<C!Far(d, range)>>)]
  BY <1>3 DEF entry, stop
<1> QED BY <1>1, <1>2, <1>6, <1>7, <1>9, <1>10, <1>11, <1>12

LEMMA ProviderLevels ==
  ASSUME CrtInv, which = "crt"
  PROVE  C!LevelsAreUntouched /\ C!NewExtremeIsSilent /\ C!TypeOK
<1>1. C!LevelsAreUntouched
  <2> SUFFICES ASSUME C!Setups # C!NoSetup, NEW i \in DOMAIN cur
               PROVE  /\ C!Gain(C!Setups.vote, C!Setups.levels.stop, C!Worst(C!Setups.vote, cur[i])) > 0
                      /\ C!Gain(C!Setups.vote, C!Best(C!Setups.vote, cur[i]),
                                C!Setups.levels.targets[1]) >= 0
    BY DEF C!LevelsAreUntouched
  <2>1. PICK d \in {"long", "short"}, entry \in Nat, stop \in Nat :
           /\ C!Setups = [vote |-> d, levels |-> C!Levels(entry, stop, <<C!Far(d, range)>>)]
           /\ \A j \in 1..Len(cur) : /\ C!Gain(d, stop, C!Worst(d, cur[j])) > 0
                                     /\ C!Gain(d, C!Best(d, cur[j]), C!Far(d, range)) >= 0
    BY SetupOfASweep
  <2>2. i \in 1..Len(cur)
    BY DEF CrtInv
  <2>3. C!Setups.vote = d /\ C!Setups.levels.stop = stop /\ C!Setups.levels.targets[1] = C!Far(d, range)
    BY <2>1 DEF C!Levels
  <2> QED BY <2>1, <2>2, <2>3
<1>2. C!NoSetup.vote = "abstain"
  BY DEF C!NoSetup
<1>3. C!NewExtremeIsSilent
  <2> SUFFICES ASSUME NEW d \in {"long", "short"}, range # None, C!Setups.vote = d,
                      \A i \in 1..(Len(cur) - 1) :
                        C!Gain(d, C!Worst(d, cur[i]), C!Worst(d, cur[Len(cur)])) < 0
               PROVE  FALSE
    BY DEF C!NewExtremeIsSilent, C!Directions
  <2>1. C!Setups # C!NoSetup
    BY <1>2
  <2>2. C!Extreme(d, range, cur) \in 1..(Len(cur) - 1)
    <3>1. PICK x \in {"long", "short"}, entry \in Nat, stop \in Nat :
             /\ C!Setups = [vote |-> x, levels |-> C!Levels(entry, stop, <<C!Far(x, range)>>)]
             /\ C!Extreme(x, range, cur) \in 1..(Len(cur) - 1)
      BY <2>1, SetupOfASweep
    <3>2. C!Setups.vote = x
      BY <3>1
    <3> QED BY <3>1, <3>2
  <2> DEFINE si == C!Extreme(d, range, cur)
             g == C!Gain(d, C!Worst(d, cur[si]), C!Worst(d, cur[Len(cur)]))
  <2>3. Len(cur) \in 1..Len(cur)
    BY CrtBars
  <2>4. g >= 0
    BY <2>3, ExtremeIsWorst
  <2>5. g < 0
    BY <2>2
  <2>6. g \in Int
    <3>1. si \in 1..Len(cur)
      BY ExtremeIsWorst
    <3> HIDE DEF si
    <3>2. /\ cur[si].lo \in Nat /\ cur[si].hi \in Nat
          /\ cur[Len(cur)].lo \in Nat /\ cur[Len(cur)].hi \in Nat
      BY <2>3, <3>1, CrtBars
    <3> QED BY <3>2 DEF C!Gain, C!Worst
  <2> HIDE DEF g
  <2> QED BY <2>4, <2>5, <2>6
<1>4. C!TypeOK
  <2>1. Len(cur) \in 1..MaxBars /\ (range # None => range.lo < range.hi)
    BY DEF CrtInv
  <2>2. C!Setups.vote \in {"long", "short", "abstain"}
    <3>1. CASE C!Setups = C!NoSetup
      BY <1>2, <3>1
    <3>2. CASE C!Setups # C!NoSetup
      BY <3>2, SetupOfASweep
    <3> QED BY <3>1, <3>2
  <2> QED BY <2>1, <2>2 DEF C!TypeOK, C!Setups
<1> QED BY <1>1, <1>3, <1>4

\* What the tally makes of two votes for a direction and the vote of the VWAP.
LEMMA TallyOfTwo ==
  ASSUME NEW d \in {"long", "short"}, NEW side, NEW t \in {2, 3}
  PROVE  LET long  == (IF d = "long" THEN 4 ELSE 0) + (IF side = "long" THEN 2 ELSE 0)
             short == (IF d = "short" THEN 4 ELSE 0) + (IF side = "short" THEN 2 ELSE 0)
         IN  /\ C!Winner(long, short, t) = IF t = 3 /\ side = C!Opposite(d) THEN "flat" ELSE d
             /\ C!Rounded(C!Larger(long, short)) \in 0..5
<1> DEFINE long  == (IF d = "long" THEN 4 ELSE 0) + (IF side = "long" THEN 2 ELSE 0)
           short == (IF d = "short" THEN 4 ELSE 0) + (IF side = "short" THEN 2 ELSE 0)
<1>1. CASE side = d
  <2>1. \/ long = 6 /\ short = 0 /\ d = "long"
        \/ long = 0 /\ short = 6 /\ d = "short"
    BY <1>1
  <2>2. side # C!Opposite(d)
    BY <1>1 DEF C!Opposite
  <2> HIDE DEF long, short
  <2>3. C!Floor(t, long + short) \in {4, 6}
    BY <2>1 DEF C!Floor, C!Smaller, C!Larger, C!MinDirectional
  <2>4. C!Winner(long, short, t) = d
    BY <2>1, <2>3 DEF C!Winner
  <2>5. C!Rounded(C!Larger(long, short)) = 3
    BY <2>1 DEF C!Rounded, C!Larger
  <2> QED BY <2>2, <2>4, <2>5 DEF long, short
<1>2. CASE side = C!Opposite(d)
  <2>1. \/ long = 4 /\ short = 2 /\ d = "long"
        \/ long = 2 /\ short = 4 /\ d = "short"
    BY <1>2 DEF C!Opposite
  <2> HIDE DEF long, short
  <2>2. C!Floor(t, long + short) = 2 * t
    BY <2>1 DEF C!Floor, C!Smaller, C!Larger, C!MinDirectional
  <2>3. C!Winner(long, short, t) = IF t = 3 THEN "flat" ELSE d
    BY <2>1, <2>2 DEF C!Winner
  <2>4. C!Rounded(C!Larger(long, short)) = 2
    BY <2>1 DEF C!Rounded, C!Larger
  <2> QED BY <1>2, <2>3, <2>4 DEF long, short
<1>3. CASE side # d /\ side # C!Opposite(d)
  <2>1. \/ long = 4 /\ short = 0 /\ d = "long"
        \/ long = 0 /\ short = 4 /\ d = "short"
    BY <1>3 DEF C!Opposite
  <2> HIDE DEF long, short
  <2>2. C!Floor(t, long + short) = 4
    BY <2>1 DEF C!Floor, C!Smaller, C!Larger, C!MinDirectional
  <2>3. C!Winner(long, short, t) = d
    BY <2>1, <2>2 DEF C!Winner
  <2>4. C!Rounded(C!Larger(long, short)) = 2
    BY <2>1 DEF C!Rounded, C!Larger
  <2> QED BY <1>3, <2>3, <2>4 DEF long, short
<1> QED BY <1>1, <1>2, <1>3

\* What the orchestrator makes of a sweep signal: a plan at its levels, unless three votes
\* are wanted and the VWAP is against it.
LEMMA SweepPlan ==
  ASSUME CrtInv, which = "crt", C!Setups # C!NoSetup, NEW x, NEW t \in {2, 3}
  PROVE  /\ C!Setups.vote \in {"long", "short"}
         /\ IF t = 3 /\ C!structural_vote(C!Snapshot(x)) = C!Opposite(C!Setups.vote)
            THEN C!Plan(t, x).bias = "flat"
            ELSE C!Plan(t, x).bias = C!Setups.vote /\ C!Plan(t, x).levels = C!Setups.levels
<1> DEFINE s == C!get_signals(range, cur, atr)
           f == C!Snapshot(x)
           d == C!Setups.vote
           k == C!Setups.levels
           side == C!structural_vote(f)
           b == IF t = 3 /\ side = C!Opposite(d) THEN "flat" ELSE d
           c == C!Score(s, f, FALSE)
           q == C!Plan(t, x)
<1>1. d \in {"long", "short"} /\ k \in [entry : Int, stop : Int, targets : Seq(Int)] /\ C!Accepted(k)
  <2>1. PICK y \in {"long", "short"}, entry \in Nat, stop \in Nat :
           /\ C!Setups = [vote |-> y, levels |-> C!Levels(entry, stop, <<C!Far(y, range)>>)]
           /\ entry > 0 /\ stop > 0 /\ entry # stop
    BY SetupOfASweep
  <2>2. C!Far(y, range) \in Int
    BY SetupOfASweep, CrtBars DEF C!Far
  <2>3. d = y /\ k = [entry |-> entry, stop |-> stop, targets |-> <<C!Far(y, range)>>]
    BY <2>1 DEF C!Levels
  <2> HIDE DEF d, k
  <2> QED BY <2>1, <2>2, <2>3 DEF C!Accepted
<1>2. k # None
  <2> HIDE DEF k
  <2> QED BY <1>1, ProviderValues
<1>3. s = <<C!Signal("technical", d, k), C!Signal("risk_manager", d, None),
            C!Signal("macro", "abstain", None), C!Signal("sentiment", "abstain", None)>>
  BY DEF C!get_signals, C!Setups
<1> HIDE DEF s, d, k
<1>4. /\ DOMAIN s = 1..4 /\ s[1].vote = d /\ s[2].vote = d
      /\ s[3].vote = "abstain" /\ s[4].vote = "abstain"
      /\ s[1].levels = k /\ s[2].levels = None /\ s[3].levels = None /\ s[4].levels = None
  BY <1>3 DEF C!Signal
<1> DEFINE long  == (IF d = "long" THEN 4 ELSE 0) + (IF side = "long" THEN 2 ELSE 0)
           short == (IF d = "short" THEN 4 ELSE 0) + (IF side = "short" THEN 2 ELSE 0)
<1>5. C!Weight(s, FALSE, side, "long") = long /\ C!Weight(s, FALSE, side, "short") = short
  <2> HIDE DEF side
  <2>0. \A e \in {"long", "short"} :
          G!Weight(s, FALSE, side, e)
            = (IF s[1].vote = e THEN 4 ELSE 0) + (IF side = e THEN 2 ELSE 0)
    BY <1>4, TwoVotesWeigh
  <2>1. \A e \in {"long", "short"} :
          G!Weight(s, FALSE, side, e) = (IF d = e THEN 4 ELSE 0) + (IF side = e THEN 2 ELSE 0)
    BY <1>4, <2>0
  <2>2. /\ G!Weight(s, FALSE, side, "long") = long
        /\ G!Weight(s, FALSE, side, "short") = short
    BY <2>1
  <2> QED BY <2>2, SameWeight
<1>6. C!classify_regime(f) = "neutral"
  BY DEF C!classify_regime, C!Snapshot
<1>7. C!Winner(long, short, t) = b /\ C!Rounded(C!Larger(long, short)) \in 0..5
  <2> HIDE DEF side
  <2> QED BY <1>1, TallyOfTwo
<1>8. C!Bias(s, f, FALSE, t) = b /\ c \in 0..5
  <2>1. C!Bias(s, f, FALSE, t) = C!Enforced(C!Winner(long, short, t), C!classify_regime(f), side)
    BY <1>5 DEF C!Bias
  <2>2. c = C!Rounded(C!Larger(long, short))
    BY <1>5 DEF C!Score
  <2> HIDE DEF long, short, b, c, side
  <2> QED BY <1>6, <1>7, <2>1, <2>2 DEF C!Enforced
<1>9. q = C!orchestrator_node(s, f, FALSE, t)
  BY DEF C!Plan, s
<1> HIDE DEF c, f, q, side
<1>10. c <= 5 /\ ~(c > C!MaxScore)
  BY <1>8 DEF C!MaxScore
<1>11. CASE t = 3 /\ side = C!Opposite(d)
  <2>1. q = [bias |-> "flat", levels |-> None, score |-> c, alert |-> FALSE]
    BY <1>8, <1>9, <1>10, <1>11 DEF C!orchestrator_node, c
  <2>2. q.bias = "flat"
    BY <2>1
  <2> QED BY <1>1, <1>11, <2>2 DEF q, side, f, d
<1>12. CASE ~(t = 3 /\ side = C!Opposite(d))
  <2>1. C!PlanLevels(s, f, d) = k
    <3> DEFINE S == {i \in C!Backers(s, d) : s[i].levels # None}
    <3>1. S = {1}
      <4>1. S = {i \in 1..4 : s[i].vote = d /\ s[i].levels # None}
        BY <1>4 DEF C!Backers
      <4>2. 1..4 = {1, 2, 3, 4}
        OBVIOUS
      <4> HIDE DEF S
      <4> QED BY <1>2, <1>4, <4>1, <4>2
    <3>2. (CHOOSE i \in S : \A j \in S : i <= j) = 1
      <4>1. \A i \in S : (\A j \in S : i <= j) <=> i = 1
        BY <3>1
      <4>2. 1 \in S
        BY <3>1
      <4> HIDE DEF S
      <4> QED BY <4>1, <4>2
    <3>3. C!PlanLevels(s, f, d) = s[CHOOSE i \in S : \A j \in S : i <= j].levels
      BY <3>1 DEF C!PlanLevels
    <3> QED BY <1>4, <3>2, <3>3
  <2>2. b = d /\ d # "flat"
    BY <1>1, <1>12
  <2>3. q = [bias |-> d, levels |-> k, score |-> c, alert |-> FALSE]
    BY <1>1, <1>2, <1>8, <1>9, <1>10, <2>1, <2>2 DEF C!orchestrator_node, c
  <2>4. q.bias = d /\ q.levels = k
    BY <2>3
  <2> QED BY <1>1, <1>12, <2>4 DEF q, side, f, d, k
<1> QED BY <1>11, <1>12

LEMMA ProviderPlans ==
  ASSUME CrtInv, which = "crt"
  PROVE  C!SignalBecomesPlan /\ C!VwapDecidesAtThree
<1>1. C!SignalBecomesPlan
  <2> SUFFICES ASSUME C!Setups # C!NoSetup, NEW x \in CrtVwaps
               PROVE  C!Plan(2, x).bias = C!Setups.vote /\ C!Plan(2, x).levels = C!Setups.levels
    BY DEF C!SignalBecomesPlan
  <2> QED BY SweepPlan
<1>2. C!VwapDecidesAtThree
  <2> SUFFICES ASSUME C!Setups # C!NoSetup, NEW x \in CrtVwaps
               PROVE  C!Plan(3, x).bias = "flat"
                        <=> C!structural_vote(C!Snapshot(x)) = C!Opposite(C!Setups.vote)
    BY DEF C!VwapDecidesAtThree
  <2>1. C!Setups.vote # "flat"
    BY SweepPlan
  <2> QED BY <2>1, SweepPlan
<1> QED BY <1>1, <1>2

------------------------------------------------------------------------------
\* The loop of tweets

LEMMA TweetValues ==
  /\ Handles \in Seq(TW!HandleSet) /\ Len(Handles) > 0 /\ Author \in [Tweets -> TW!HandleSet]
  /\ PageSize \in Nat \ {0} /\ MaxAttempts \in Nat \ {0}
BY DecisionAssumption DEF TW!IngestionAssumption

\* One call returns a sequence of tweets.
LEMMA PageType ==
  ASSUME TW!TypeOK, NEW h \in TW!HandleSet
  PROVE  TW!Page(h) \in Seq(Tweets)
<1> DEFINE last == IF Len(timeline[h]) < PageSize THEN Len(timeline[h]) ELSE PageSize
<1>1. timeline[h] \in Seq(Tweets)
  BY DEF TW!TypeOK
<1>2. Len(timeline[h]) \in Nat
  BY <1>1, LenProperties
<1>3. last \in Nat /\ last <= Len(timeline[h])
  BY <1>2, TweetValues
<1>4. \A i \in 1 .. last : timeline[h][i] \in Tweets
  BY <1>1, <1>2, <1>3, ElementOfSeq
<1>5. SubSeq(timeline[h], 1, last) \in Seq(Tweets)
  <2>1. 1 \in Int /\ last \in Int
    BY <1>3
  <2> HIDE DEF last
  <2> QED BY <1>4, <2>1, SubSeqProperties
<1> QED BY <1>5 DEF TW!Page

\* A new position is well typed when a handle is left, and when it is tried again.
LEMMA NextHandleType ==
  ASSUME TW!TypeOK, TW!NextHandle
  PROVE  /\ poll' \in {"down", "sleep", "fetch", "store"}
         /\ turn' \in 1 .. Len(Handles) /\ try' \in 1 .. MaxAttempts
         /\ tweets' = <<>> /\ row' = 1
<1>1. Len(Handles) \in Nat \ {0}
  BY TweetValues, LenProperties
<1> QED BY <1>1, TweetValues DEF TW!TypeOK, TW!NextHandle

LEMMA RaisedType ==
  ASSUME TW!TypeOK, TW!Raised
  PROVE  /\ poll' \in {"down", "sleep", "fetch", "store"}
         /\ turn' \in 1 .. Len(Handles) /\ try' \in 1 .. MaxAttempts
         /\ tweets' = <<>> /\ row' = 1
<1>1. CASE try = MaxAttempts /\ TW!NextHandle
  BY <1>1, NextHandleType
<1>2. CASE try < MaxAttempts /\ ~(try = MaxAttempts /\ TW!NextHandle)
  BY <1>2, TweetValues DEF TW!TypeOK, TW!Raised
<1> QED BY <1>1, <1>2 DEF TW!Raised

\* An empty page leaves nothing behind the first row.
LEMMA EmptyPage ==
  ASSUME tweets' = <<>>, row' = 1
  PROVE  /\ tweets' \in Seq(Tweets) /\ row' \in 1 .. Len(tweets') + 1
         /\ TW!NoRowLost'
<1>1. tweets' \in Seq(Tweets) /\ Len(tweets') = 0
  BY EmptySeq
<1> QED BY <1>1 DEF TW!NoRowLost

\* The row that is next is a tweet.
LEMMA RowType ==
  ASSUME TW!TypeOK, TW!AtRow
  PROVE  /\ TW!Tweet \in Tweets /\ Len(tweets) \in Nat
         /\ row + 1 \in 1 .. Len(tweets) + 1
<1>1. tweets \in Seq(Tweets) /\ Len(tweets) \in Nat
  BY LenProperties DEF TW!TypeOK
<1>2. row \in 1 .. Len(tweets)
  BY <1>1 DEF TW!TypeOK, TW!AtRow
<1>3. tweets[row] \in Tweets
  BY <1>1, <1>2, ElementOfSeq
<1> QED BY <1>1, <1>2, <1>3 DEF TW!Tweet

FeedInv == TW!TypeOK /\ TW!SeenIsStored /\ TW!NoRowLost

LEMMA FeedInit == TW!Init => FeedInv
<1> SUFFICES ASSUME TW!Init PROVE FeedInv
  OBVIOUS
<1>1. <<>> \in Seq(Tweets) /\ Len(<<>>) = 0
  BY EmptySeq
<1>2. 1 \in 1 .. Len(Handles) /\ 1 \in 1 .. MaxAttempts
  BY TweetValues, LenProperties
<1>3. TW!TypeOK
  <2>1. tweets \in Seq(Tweets) /\ row \in 1 .. Len(tweets) + 1
    BY <1>1 DEF TW!Init
  <2>2. timeline \in [TW!HandleSet -> Seq(Tweets)]
    BY <1>1 DEF TW!Init
  <2>3. healthy \in BOOLEAN /\ scraper \in BOOLEAN /\ client \in {"stub", "strict"}
    BY DEF TW!Init
  <2> QED BY <1>2, <2>1, <2>2, <2>3 DEF TW!Init, TW!TypeOK
<1>4. TW!SeenIsStored /\ TW!NoRowLost
  BY DEF TW!Init, TW!SeenIsStored, TW!NoRowLost
<1> QED BY <1>3, <1>4 DEF FeedInv

LEMMA FeedStep == FeedInv /\ (TW!Next \/ UNCHANGED feed) => FeedInv'
<1> SUFFICES ASSUME FeedInv, TW!Next \/ UNCHANGED feed PROVE FeedInv'
  OBVIOUS
<1> USE DEF FeedInv
<1>1. ASSUME UNCHANGED <<client, timeline, table, healthy, seen>>, scraper' \in BOOLEAN,
             TW!Raised \/ TW!NextHandle
      PROVE  FeedInv'
  BY <1>1, RaisedType, NextHandleType, EmptyPage DEF TW!TypeOK, TW!SeenIsStored
<1>2. CASE TW!Connect
  BY <1>2 DEF TW!Connect, TW!position, TW!TypeOK, TW!SeenIsStored, TW!NoRowLost
<1>3. CASE TW!ConnectFails
  BY <1>1, <1>3 DEF TW!ConnectFails, TW!TypeOK
<1>4. CASE TW!Fetch
  <2>1. TW!Handle \in TW!HandleSet
    BY DEF TW!Handle, TW!HandleSet, TW!TypeOK
  <2>2. tweets' \in Seq(Tweets) /\ Len(tweets') \in Nat
    BY <1>4, <2>1, PageType, LenProperties DEF TW!Fetch
  <2> QED BY <1>4, <2>2 DEF TW!Fetch, TW!TypeOK, TW!SeenIsStored, TW!NoRowLost
<1>5. CASE TW!FetchFails
  BY <1>1, <1>5 DEF TW!FetchFails, TW!TypeOK
<1>6. CASE TW!SkipRow
  BY <1>6, RowType DEF TW!SkipRow, TW!AtRow, TW!Tweet, TW!TypeOK, TW!SeenIsStored, TW!NoRowLost
<1>7. CASE TW!StoreRow
  <2>1. TW!AtRow /\ TW!Tweet \in Tweets /\ row + 1 \in 1 .. Len(tweets) + 1
    BY <1>7, RowType DEF TW!StoreRow, TW!Sent, TW!Given
  <2>2. TW!TypeOK'
    BY <1>7, <2>1 DEF TW!StoreRow, TW!TypeOK
  <2>3. TW!SeenIsStored'
    BY <1>7 DEF TW!StoreRow, TW!SeenIsStored
  <2>4. TW!NoRowLost'
    BY <1>7, <2>1 DEF TW!StoreRow, TW!Tweet, TW!TypeOK, TW!NoRowLost
  <2> QED BY <2>2, <2>3, <2>4
<1>8. CASE TW!InsertFails
  <2>1. TW!Tweet \in Tweets /\ TW!Raised
    BY <1>8, RowType DEF TW!InsertFails, TW!Sent, TW!Given
  <2>2. TW!TypeOK'
    BY <1>8, <2>1, RaisedType, EmptyPage DEF TW!InsertFails, TW!TypeOK
  <2>3. TW!SeenIsStored' /\ TW!NoRowLost'
    BY <1>8, <2>1, RaisedType, EmptyPage DEF TW!InsertFails, TW!SeenIsStored
  <2> QED BY <2>2, <2>3
<1>9. CASE TW!RowRaises
  BY <1>1, <1>9 DEF TW!RowRaises, TW!TypeOK
<1>10. CASE TW!PageDone
  BY <1>1, <1>10 DEF TW!PageDone, TW!TypeOK
<1>11. CASE TW!Wake
  BY <1>11 DEF TW!Wake, TW!TypeOK, TW!SeenIsStored, TW!NoRowLost
<1>12. CASE TW!Start
  BY <1>12 DEF TW!Start, TW!TypeOK, TW!SeenIsStored, TW!NoRowLost
<1>13. CASE TW!Crash
  <2>1. TW!TypeOK'
    <3>1. 1 \in 1 .. Len(Handles) /\ 1 \in 1 .. MaxAttempts
      BY TweetValues, LenProperties
    <3> QED BY <1>13, <3>1, EmptyPage DEF TW!Crash, TW!TypeOK
  <2>2. TW!SeenIsStored' /\ TW!NoRowLost'
    BY <1>13, EmptyPage DEF TW!Crash, TW!SeenIsStored
  <2> QED BY <2>1, <2>2
<1>14. ASSUME NEW t \in Tweets, TW!Publish(t)
       PROVE  FeedInv'
  <2>1. Author[t] \in TW!HandleSet /\ <<t>> \in Seq(Tweets)
    BY TweetValues
  <2>2. <<t>> \o timeline[Author[t]] \in Seq(Tweets)
    BY <2>1, ConcatProperties DEF TW!TypeOK
  <2>3. timeline' \in [TW!HandleSet -> Seq(Tweets)]
    BY <1>14, <2>1, <2>2 DEF TW!Publish, TW!TypeOK
  <2> QED BY <1>14, <2>3 DEF TW!Publish, TW!position, TW!TypeOK, TW!SeenIsStored, TW!NoRowLost
<1>15. CASE UNCHANGED feed
  BY <1>15 DEF feed, TW!TypeOK, TW!SeenIsStored, TW!NoRowLost
<1>16. CASE TW!InsertRefused
  <2>1. TW!Raised /\ healthy' \in BOOLEAN
    BY <1>16 DEF TW!InsertRefused, TW!TypeOK
  <2>2. TW!TypeOK'
    BY <1>16, <2>1, RaisedType, EmptyPage DEF TW!InsertRefused, TW!TypeOK
  <2>3. TW!SeenIsStored' /\ TW!NoRowLost'
    BY <1>16, <2>1, RaisedType, EmptyPage DEF TW!InsertRefused, TW!SeenIsStored
  <2> QED BY <2>2, <2>3
<1> QED BY <1>2, <1>3, <1>4, <1>5, <1>6, <1>7, <1>8, <1>9, <1>10, <1>11, <1>12,
           <1>13, <1>14, <1>15, <1>16 DEF TW!Next, TW!Loop

\* One step of MCDecision is one of the loop, or leaves it alone.
LEMMA FeedAlways == Spec => []FeedInv
<1>1. Init => FeedInv
  BY FeedInit DEF Init
<1>2. [Next]_vars => TW!Next \/ UNCHANGED feed
  BY DEF Next, vars, AskAgent, Decide, InGraph, InNode, InFeed, Leave, Prepare, TimeOut, Tick,
         Step, TW!Next
<1>3. FeedInv /\ [Next]_vars => FeedInv'
  BY <1>2, FeedStep
<1> QED BY <1>1, <1>3, PTL DEF Spec

------------------------------------------------------------------------------
\* Types

\* The plan's bias is one of three, and the channel holds signals of the agents.
LEMMA GraphTypes == GraphInv => G!TypeOK
<1> SUFFICES ASSUME GraphInv PROVE G!TypeOK
  OBVIOUS
<1> DEFINE ofAgent(a) == {G!parse_signal(a, v) : v \in G!Votes}
<1>1. \A a, r : G!parse_signal(a, r) \in ofAgent(a)
  <2> TAKE a, r
  <2> DEFINE v == IF r \in G!Votes THEN r ELSE "abstain"
  <2>1. v \in G!Votes
    BY DEF G!Votes
  <2>2. G!parse_signal(a, r) = G!parse_signal(a, v)
    BY <2>1 DEF G!parse_signal
  <2> QED BY <2>1, <2>2
<1>2. \A a \in G!Agents : writes[a] \in {G!NoSignal} \cup ofAgent(a)
  BY <1>1 DEF GraphInv
<1>3. Heard \in Seq(UNION {ofAgent(a) : a \in G!Agents})
  <2>1. \A i \in DOMAIN EnabledAgents : Heard[i] \in UNION {ofAgent(a) : a \in G!Agents}
    BY <1>1, AgentsByName DEF Heard
  <2>2. DOMAIN Heard = 1..Len(EnabledAgents) /\ Len(EnabledAgents) \in Nat
    BY GraphValues DEF Heard
  <2>3. Heard = [i \in 1..Len(EnabledAgents) |-> Heard[i]]
    BY <2>2 DEF Heard
  <2> DEFINE U == UNION {ofAgent(a) : a \in G!Agents}
             n == Len(EnabledAgents)
  <2> HIDE DEF Heard, U, n
  <2>4. Heard \in [1..n -> U]
    BY <2>1, <2>2, <2>3 DEF U, n
  <2>5. n \in Nat /\ Heard \in Seq(U)
    BY <2>2, <2>4 DEF n
  <2> QED BY <2>5 DEF U
<1>4. signals \in Seq(UNION {ofAgent(a) : a \in G!Agents})
  <2>1. signals \in {<<>>, Heard}
    BY DEF GraphInv
  <2> DEFINE U == UNION {ofAgent(a) : a \in G!Agents}
  <2>2. Heard \in Seq(U)
    BY <1>3
  <2> HIDE DEF Heard, U
  <2>3. <<>> \in Seq(U)
    OBVIOUS
  <2>4. signals \in Seq(U)
    BY <2>1, <2>2, <2>3
  <2> QED BY <2>4 DEF U
<1>5. G!Decided => plan.bias \in G!Directions \cup {"flat"}
  BY PlanBias
<1> QED BY <1>2, <1>4, <1>5 DEF GraphInv, G!TypeOK

\* The node's clock only runs forward, and its signal is one a model can give.
LEMMA NodeTypes == NodeInv /\ which = "node" => X!TypeOK
<1> SUFFICES ASSUME NodeInv, which = "node" PROVE X!TypeOK
  OBVIOUS
<1>1. calls \in 0..2
  BY DEF NodeInv, CallsInv
<1>2. metrics = X!Absent \/ metrics = X!compute_metrics(window, bins)
  BY DEF NodeInv
<1> QED BY <1>1, <1>2 DEF NodeInv, CallsInv, X!TypeOK

\* A score lies within the weights, in a trend without the location's.
LEMMA BiasTypes == BiasInv /\ which = "bias" => B!TypeOK
<1> SUFFICES ASSUME BiasInv, which = "bias" PROVE B!TypeOK
  OBVIOUS
<1>1. bar \in BiasBars /\ config \in BiasConfigs
  BY DEF BiasInv
<1> DEFINE w == config.weights
           all == B!Total(w)
           most == IF result.regime = "trending" /\ config.pdAware
                   THEN all - w.premium_discount ELSE all
           p1 == Part(B!structure_vote(bar), w.structure)
           p2 == Part(B!swing_vote(bar), w.swing)
           p3 == Part(B!supertrend_vote(bar), w.supertrend)
           p4 == Part(B!directional_vote(bar, config), w.directional)
           p5 == Part(B!premium_discount_vote(bar, config), w.premium_discount)
           w1 == w.structure
           w2 == w.swing
           w3 == w.supertrend
           w4 == w.directional
           w5 == w.premium_discount
<1>2. w1 \in Nat /\ w2 \in Nat /\ w3 \in Nat /\ w4 \in Nat /\ w5 \in Nat
  BY <1>1, WeightValues
<1>3. all = w1 + w2 + w3 + w4 + w5
  BY DEF B!Total
<1>4. /\ p1 \in Int /\ p1 <= w1 /\ p1 >= 0 - w1
      /\ p2 \in Int /\ p2 <= w2 /\ p2 >= 0 - w2
      /\ p3 \in Int /\ p3 <= w3 /\ p3 >= 0 - w3
      /\ p4 \in Int /\ p4 <= w4 /\ p4 >= 0 - w4
      /\ p5 \in Int /\ p5 <= w5 /\ p5 >= 0 - w5
  BY <1>1, <1>2, VotesAreSides, PartOfAWeight
<1>5. ~B!Ranging(bar) /\ config.pdAware => p5 = 0
  <2> SUFFICES ASSUME ~B!Ranging(bar), config.pdAware PROVE p5 = 0
    OBVIOUS
  <2>1. B!premium_discount_vote(bar, config) = 0
    BY DEF B!premium_discount_vote
  <2> QED BY <1>2, <2>1, PartOfAWeight
<1>6. B!Score(bar, config) = p1 + p2 + p3 + p4 + p5
  BY <1>1, ScoreOfParts
<1>7. B!Bias(bar, config) \in -1..1
  BY DEF B!Bias
<1>8. /\ result.bias \in -1..1 /\ result.regime \in {"none", "ranging", "trending"}
      /\ result.score = 0 \/ result.score = B!Score(bar, config)
      /\ result.regime = "trending" => ~B!Ranging(bar)
  BY <1>7 DEF BiasInv, B!NoResult
<1>9. result.score \in -most..most
  <2>1. most \in Nat /\ (most = all \/ (most = all - w5 /\ (p5 = 0 \/ result.score = 0)))
    <3> HIDE DEF p5, w1, w2, w3, w4
    <3> QED BY <1>2, <1>3, <1>5, <1>8
  <2> HIDE DEF p1, p2, p3, p4, p5, w1, w2, w3, w4, w5, all, most
  <2>2. result.score \in Int /\ result.score <= most /\ result.score >= 0 - most
    BY <1>2, <1>3, <1>4, <1>6, <1>8, <2>1
  <2> QED BY <2>1, <2>2, Minus
<1>10. B!Effective(config).weights = w
  BY DEF B!Effective
<1> HIDE DEF most
<1>11. B!TypeOK <=> /\ result.bias \in -1..1 /\ result.regime \in {"none", "ranging", "trending"}
                    /\ result.score \in -most..most
  BY <1>10 DEF B!TypeOK, most
<1> QED BY <1>8, <1>9, <1>11

\* A rule calls long, short or flat.
LEMMA RuleTypes == RuleInv /\ which = "rules" => R!TypeOK
<1>1. R!Vote(rules, features) \in R!Votes
  <2>1. R!ReversalVote(features) \in {"long", "short", "flat"}
    BY DEF R!ReversalVote
  <2>2. R!deterministic(features) \in {"long", "short", "flat"}
    BY <2>1 DEF R!deterministic
  <2>3. R!pullback(features) \in {"long", "short", "flat"}
    <3>1. CASE features.late
      BY <3>1 DEF R!pullback
    <3>2. CASE ~features.late
      BY <2>1, <3>2 DEF R!pullback
    <3> QED BY <3>1, <3>2
  <2> QED BY <2>2, <2>3 DEF R!Vote, R!Votes, R!Directions
<1> SUFFICES ASSUME RuleInv, which = "rules" PROVE R!TypeOK
  OBVIOUS
<1>2. decision.vote \in {"none", R!Vote(rules, features)}
  <2> DEFINE p == R!orchestrator_node(R!Signals(rules, features), features, FALSE, 2)
             v == R!Vote(rules, features)
  <2>1. decision = R!Undecided \/ decision = [vote |-> v, plan |-> p]
    BY DEF RuleInv
  <2> HIDE DEF p, v
  <2>2. decision.vote \in {"none", v}
    BY <2>1 DEF R!Undecided
  <2> QED BY <2>2 DEF v
<1> QED BY <1>1, <1>2 DEF R!TypeOK

------------------------------------------------------------------------------
\* The six of them

\* MCDecision's TypeOK: the types of the graph, of the sentiment node, of the bias, of
\* the two providers and of the loop of tweets.
THEOREM TypeCorrect == Spec => []TypeOK
<1>1. GraphInv /\ NodeInv /\ BiasInv /\ CrtInv /\ RuleInv /\ FeedInv => TypeOK
  BY GraphTypes, NodeTypes, BiasTypes, ProviderLevels, RuleTypes DEF TypeOK, FeedInv
<1> QED BY <1>1, GraphAlways, NodeAlways, BiasAlways, CrtAlways, RuleAlways, FeedAlways, PTL

\* MCDecision's PlanIsBacked: two sources that said so, one vote of every agent, the VWAP
\* on trend days, and levels on their sides of the entry (orchestrator_node).
THEOREM PlansAreBacked == Spec => []PlanIsBacked
<1>1. GraphInv => PlanIsBacked
  BY GraphTwoSources, GraphOneVote, GraphTrendDay, GraphLevels DEF PlanIsBacked
<1> QED BY <1>1, GraphAlways, PTL

\* MCDecision's SentimentKeepsItsLimits: one tweet of each cluster is kept, the baseline is
\* an average whichever library computes it, an alert was heard within the limit of its call
\* and because of a spike, and the node is left after at most two such calls, however they
\* fail (fuzzy_deduplicate, compute_volume_spike_ratio, _run_async_with_timeout).
THEOREM SentimentAlwaysKeepsItsLimits == Spec => []SentimentKeepsItsLimits
<1>1. NodeInv => SentimentKeepsItsLimits
  BY KeepsOneOfEach, BaselineAverages, SentimentValues
     DEF NodeInv, CallsInv, SentimentKeepsItsLimits
<1> QED BY <1>1, NodeAlways, PTL

\* MCDecision's BiasIsBalanced: no side of its own, no direction in a range that a trend has
\* not, none lost with renormalised weights, and no vote against structure and swings.
THEOREM BiasIsAlwaysBalanced == Spec => []BiasIsBalanced
<1>1. BiasInv => BiasIsBalanced
  <2> SUFFICES ASSUME BiasInv, which = "bias"
               PROVE  /\ B!UpIsDown /\ B!RangesAreNeverBolder
                      /\ B!AblationLosesNoSide /\ B!StructureIsNotOutvoted
    BY DEF BiasIsBalanced
  <2>1. bar \in BiasBars /\ config \in BiasConfigs
    BY DEF BiasInv
  <2>2. B!UpIsDown
    BY <2>1, BiasUpIsDown DEF B!UpIsDown
  <2>3. B!RangesAreNeverBolder
    <3> SUFFICES ASSUME result.regime = "ranging", result.bias # 0
                 PROVE  B!Bias(B!InATrend(bar), config) = result.bias
      BY DEF B!RangesAreNeverBolder
    <3>1. result.bias = B!Bias(bar, config) /\ B!Ranging(bar)
      BY DEF BiasInv, B!NoResult
    <3> QED BY <2>1, <3>1, BiasInARange
  <2>4. B!AblationLosesNoSide
    BY <2>1, BiasOfAnAblation DEF B!AblationLosesNoSide
  <2>5. B!StructureIsNotOutvoted
    BY <2>1, BiasOfAStructure DEF B!StructureIsNotOutvoted
  <2> QED BY <2>2, <2>3, <2>4, <2>5
<1> QED BY <1>1, BiasAlways, PTL


\* MCDecision's ProvidersKeepTheirRules: a sweep signal comes after the extreme with levels
\* no price has reached, the replay makes a plan of it at its levels and the live threshold
\* asks the VWAP, no vote of a rule is overruled, and a pullback is bought near a support
\* (providers_crt.py, providers.py).
THEOREM ProvidersAlwaysKeepTheirRules == Spec => []ProvidersKeepTheirRules
<1>1. CrtInv /\ RuleInv => ProvidersKeepTheirRules
  BY ProviderLevels, ProviderPlans, RulesKeep DEF ProvidersKeepTheirRules
<1> QED BY <1>1, CrtAlways, RuleAlways, PTL

\* MCDecision's NothingIsLost: what the loop has passed over is in the database, at once for
\* the identifiers it skips and for the page it is working through (_ingest_handle,
\* _persist): a lost answer, a refused parameter, a failed transaction, a crash or a restart
\* never lets either run ahead of the table.
THEOREM NothingIsEverLost == Spec => []NothingIsLost
<1>1. FeedInv => NothingIsLost
  BY DEF FeedInv, NothingIsLost, TW!NothingIsLost
<1> QED BY <1>1, FeedAlways, PTL
==============================================================================
