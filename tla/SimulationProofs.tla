--------------------------- MODULE SimulationProofs ---------------------------
(* Theorems about Simulation, for every network of agents, batch of tasks  *)
(* and context size.                                                       *)
EXTENDS Simulation, SumTheorems, SequenceTheorems

IsSequence(s) == \E S : s \in Seq(S)

(* The accumulators are records of numbers and sequences, and compression  *)
(* never adds to what is sent.                                             *)
StatsOK ==
  /\ stats = [completed |-> stats.completed, failed |-> stats.failed,
              latencies |-> stats.latencies, qualities |-> stats.qualities,
              total_cost |-> stats.total_cost, sent |-> stats.sent,
              full |-> stats.full, recovery |-> stats.recovery]
  /\ stats.completed \in Int /\ stats.failed \in Int
  /\ stats.latencies \in Seq(Int) /\ IsSequence(stats.qualities)
  /\ stats.sent \in Int /\ stats.full \in Int /\ stats.sent <= stats.full
  /\ scenario \notin UsesScd => stats.sent = stats.full

HistoryOK ==
  /\ history = [ran |-> history.ran, lost |-> history.lost, taken |-> history.taken]
  /\ history.taken \in Int
  /\ pc \in {"task", "done", "single", "draft", "direct", "refine", "recover"}

Once(f, n, t) == [f EXCEPT ![n][t] = @ + 1]

(* Trust lags behind the executions by one draft, while it is refined.     *)
TrustFollows ==
  history.ran = IF pc = "refine" THEN Once(trust_scores, Drafter, Task)
                ELSE trust_scores

(* A task under way is with an agent that can do it; while it recovers,    *)
(* every capable agent has failed on it or is still to be tried.           *)
UnderWay ==
  /\ scenario \in Scenarios /\ size \in Nat /\ backups \subseteq Agents
  /\ pc \notin {"task", "done"} => selected \in CapableAgents(Task)
  /\ pc = "recover" =>
       /\ scenario \in Recovers
       /\ CapableAgents(Task) \subseteq history.lost \cup backups

Reported == pc = "done" => report = Summary(stats.latencies)

(* The inductive invariant.                                                *)
Counts == StatsOK /\ HistoryOK /\ TasksAccounted /\ TrustFollows

IInv == Counts /\ UnderWay /\ Reported

-----------------------------------------------------------------------------
(* Appending makes a sequence longer by one, whatever is appended.         *)
LEMMA AppendOne ==
  ASSUME NEW s, IsSequence(s), NEW x
  PROVE  IsSequence(Append(s, x)) /\ Len(Append(s, x)) = Len(s) + 1
  <1>1. PICK S : s \in Seq(S)
    BY DEF IsSequence
  <1>2. s \in Seq(S \cup {x}) /\ x \in S \cup {x}
    BY <1>1
  <1>3. Append(s, x) \in Seq(S \cup {x}) /\ Len(Append(s, x)) = Len(s) + 1
    BY <1>2
  <1>4. QED
    BY <1>3 DEF IsSequence

LEMMA AgentFacts ==
  /\ Agents \subseteq Nat
  /\ \A n \in Agents : Latency(n) \in Int /\ Capability(n).cost \in Nat
  <1>1. Agents = 1..Len(Network) /\ Len(Network) \in Nat
    BY SimulationAssumption DEF Agents
  <1>2. ASSUME NEW n \in Agents
        PROVE  Latency(n) \in Int /\ Capability(n).cost \in Nat
    <2>1. AgentOf(n).kind \in DOMAIN Archetype
      <3> DEFINE Agent == [kind : DOMAIN Archetype, types : SUBSET TaskType]
      <3>1. Network \in Seq(Agent) /\ n \in 1..Len(Network)
        BY <1>1, <1>2, SimulationAssumption
      <3>2. Network[n] \in Agent
        <4> HIDE DEF Agent
        <4>1. QED
          BY <3>1
      <3>3. QED
        BY <3>2 DEF AgentOf
    <2>2. QED
      BY <2>1 DEF Latency, Capability, Archetype
  <1>3. QED
    BY <1>1, <1>2

LEMMA FirstIn ==
  ASSUME NEW ns, ns \subseteq Agents, ns # {}
  PROVE  First(ns) \in ns
  <1>1. \E n \in ns : \A m \in ns : n <= m
    BY AgentFacts, Least
  <1>2. QED
    BY <1>1 DEF First

LEMMA CheapestIn ==
  ASSUME NEW ns, ns \subseteq Agents, ns # {}
  PROVE  Cheapest(ns) \in ns
  <1> DEFINE costs == {Capability(n).cost : n \in ns}
             best == {n \in ns : \A m \in ns : Capability(n).cost <= Capability(m).cost}
  <1>1. costs \subseteq Nat /\ costs # {}
    BY AgentFacts
  <1>2. PICK c \in costs : \A d \in costs : c <= d
    BY <1>1, Least
  <1>3. best # {}
    BY <1>2
  <1>4. First(best) \in best
    BY <1>3, FirstIn
  <1>5. Cheapest(ns) = First(best)
    BY DEF Cheapest
  <1>6. QED
    BY <1>4, <1>5

LEMMA SelectionsIn ==
  ASSUME NEW ns, ns \subseteq Agents, ns # {}, NEW t, scenario \in Scenarios,
         NEW n \in Selections(ns, t)
  PROVE  n \in ns
  <1>1. First(ns) \in ns /\ Cheapest(ns) \in ns
    BY FirstIn, CheapestIn
  <1>2. At(ns, rr_counters[t] % Cardinality(ns)) \subseteq ns /\ Candidates(ns, t) \subseteq ns
    BY DEF At, Candidates
  <1>3. scenario \in {"Sequential", "RoundRobin", "AtpNoRouting", "AtpNoTrust"} \cup UsesRouting
    BY DEF Scenarios, UsesRouting
  <1>4. CASE scenario = "Sequential"
    <2>1. Selections(ns, t) = {First(ns)}
      BY <1>4 DEF Selections, UsesRouting
    <2>2. QED
      BY <1>1, <2>1
  <1>5. CASE scenario = "RoundRobin"
    BY <1>2, <1>5 DEF Selections
  <1>6. CASE scenario \in UsesRouting
    <2>1. Selections(ns, t) = Candidates(ns, t)
      BY <1>6 DEF Selections, UsesRouting
    <2>2. QED
      BY <1>2, <2>1
  <1>7. CASE scenario = "AtpNoRouting"
    BY <1>7 DEF Selections, UsesRouting
  <1>8. CASE scenario = "AtpNoTrust"
    BY <1>1, <1>8 DEF Selections, UsesRouting
  <1>9. QED
    BY <1>3, <1>4, <1>5, <1>6, <1>7, <1>8

(* Compression never adds, and what is sent takes a time.                  *)
LEMMA ContextFacts ==
  ASSUME size \in Nat
  PROVE  /\ ContextSize \in Nat /\ ContextSize <= size
         /\ scenario \notin UsesScd => ContextSize = size
         /\ TransferLatency \in Int
  <1>1. Compressed(size) \in Nat /\ Compressed(size) <= size
    BY DEF Compressed
  <1>2. /\ ContextSize \in Nat /\ ContextSize <= size
        /\ scenario \notin UsesScd => ContextSize = size
    BY <1>1 DEF ContextSize
  <1>3. QED
    BY <1>2 DEF TransferLatency

(* What an execution does to the history.                                  *)
LEMMA ExecutedOnce ==
  ASSUME HistoryOK, NEW n, NEW ok \in BOOLEAN, Executed(n, ok)
  PROVE  /\ history' = [ran |-> history'.ran, lost |-> history'.lost, taken |-> history'.taken]
         /\ history'.taken = history.taken
         /\ history'.ran = IF ok THEN Once(history.ran, n, Task) ELSE history.ran
         /\ history'.lost = IF ok THEN history.lost ELSE history.lost \cup {n}
  BY DEF HistoryOK, Executed, Once

(* What is recorded for one contribution and for two.                      *)
LEMMA RecordedOnce ==
  ASSUME NEW n, NEW m
  PROVE  /\ Recorded(<<n>>) = Once(trust_scores, n, Task)
         /\ Recorded(<<n, m>>) = Once(Once(trust_scores, n, Task), m, Task)
  <1>1. Len(<<n>>) = 1 /\ Len(<<n, m>>) = 2 /\ <<n>>[1] = n
        /\ <<n, m>>[1] = n /\ <<n, m>>[2] = m
    OBVIOUS
  <1>2. QED
    BY <1>1 DEF Recorded, Once

(* A task that is under way is completed, with one latency and one quality. *)
LEMMA CompletedOne ==
  ASSUME IInv, HistoryOK', history'.taken = history.taken, scenario' = scenario,
         pc \notin {"task", "done"}, pc' = "task",
         NEW latency \in Int, NEW from, NEW cost, NEW recovery,
         stats' = [stats EXCEPT !.completed = @ + 1, !.latencies = Append(@, latency),
                                !.qualities = Append(@, from), !.total_cost = cost,
                                !.recovery = recovery]
  PROVE  StatsOK' /\ TasksAccounted'
  <1>1. /\ StatsOK /\ TasksAccounted
    BY DEF IInv, Counts
  <1>2. /\ Append(stats.latencies, latency) \in Seq(Int)
        /\ Len(Append(stats.latencies, latency)) = Len(stats.latencies) + 1
        /\ IsSequence(Append(stats.qualities, from))
        /\ Len(Append(stats.qualities, from)) = Len(stats.qualities) + 1
    BY <1>1, AppendOne DEF StatsOK
  <1>3. stats' = [completed |-> stats.completed + 1, failed |-> stats.failed,
                  latencies |-> Append(stats.latencies, latency),
                  qualities |-> Append(stats.qualities, from),
                  total_cost |-> cost, sent |-> stats.sent, full |-> stats.full,
                  recovery |-> recovery]
    BY <1>1 DEF StatsOK
  <1>4. /\ stats'.completed = stats.completed + 1 /\ stats'.failed = stats.failed
        /\ stats'.latencies = Append(stats.latencies, latency)
        /\ stats'.qualities = Append(stats.qualities, from)
        /\ stats'.sent = stats.sent /\ stats'.full = stats.full
        /\ stats' = [completed |-> stats'.completed, failed |-> stats'.failed,
                     latencies |-> stats'.latencies, qualities |-> stats'.qualities,
                     total_cost |-> stats'.total_cost, sent |-> stats'.sent,
                     full |-> stats'.full, recovery |-> stats'.recovery]
    BY <1>3
  <1>5. StatsOK'
    BY <1>1, <1>2, <1>4 DEF StatsOK
  <1>6. TasksAccounted'
    BY <1>1, <1>2, <1>4, SMTT(30) DEF StatsOK, TasksAccounted, HistoryOK, IInv, Counts
  <1>7. QED
    BY <1>5, <1>6

(* A task that is under way fails.                                         *)
LEMMA FailedOne ==
  ASSUME IInv, HistoryOK', scenario' = scenario,
         pc' = "task",
         \/ history'.taken = history.taken /\ pc \notin {"task", "done"}
         \/ history'.taken = history.taken + 1 /\ pc = "task",
         NEW recovery,
         stats' = [stats EXCEPT !.failed = @ + 1, !.recovery = recovery]
  PROVE  StatsOK' /\ TasksAccounted'
  <1>1. /\ StatsOK /\ TasksAccounted /\ HistoryOK
    BY DEF IInv, Counts
  <1>2. stats' = [completed |-> stats.completed, failed |-> stats.failed + 1,
                  latencies |-> stats.latencies, qualities |-> stats.qualities,
                  total_cost |-> stats.total_cost, sent |-> stats.sent, full |-> stats.full,
                  recovery |-> recovery]
    BY <1>1 DEF StatsOK
  <1>3. /\ stats'.completed = stats.completed /\ stats'.failed = stats.failed + 1
        /\ stats'.latencies = stats.latencies /\ stats'.qualities = stats.qualities
        /\ stats'.sent = stats.sent /\ stats'.full = stats.full
        /\ stats' = [completed |-> stats'.completed, failed |-> stats'.failed,
                     latencies |-> stats'.latencies, qualities |-> stats'.qualities,
                     total_cost |-> stats'.total_cost, sent |-> stats'.sent,
                     full |-> stats'.full, recovery |-> stats'.recovery]
    BY <1>2
  <1>4. StatsOK'
    BY <1>1, <1>3 DEF StatsOK
  <1>5. TasksAccounted'
    <2>1. stats.completed + stats.failed + 1 = history'.taken
      BY <1>1 DEF TasksAccounted, HistoryOK, StatsOK
    <2>2. stats'.completed + stats'.failed = history'.taken
      BY <1>1, <1>3, <2>1 DEF StatsOK
    <2>3. QED
      BY <1>1, <1>3, <1>4, <2>2 DEF StatsOK, TasksAccounted, HistoryOK
  <1>6. QED
    BY <1>4, <1>5

(* The counts stay, and the task stays under way or stays not.             *)
LEMMA NothingCounted ==
  ASSUME IInv, HistoryOK', scenario' = scenario, stats' = stats, history'.taken = history.taken,
         pc \in {"task", "done"} <=> pc' \in {"task", "done"}
  PROVE  StatsOK' /\ TasksAccounted'
  BY DEF IInv, Counts, StatsOK, TasksAccounted

-----------------------------------------------------------------------------
(* An empty report is sound.                                               *)
LEMMA InvInit == Init => IInv
  <1> SUFFICES ASSUME Init PROVE IInv
    OBVIOUS
  <1>1. IsSequence(<<>>) /\ Len(<<>>) = 0
    BY DEF IsSequence
  <1>2. StatsOK /\ HistoryOK
    BY <1>1 DEF Init, NoStats, NoHistory, StatsOK, HistoryOK
  <1>3. TasksAccounted
    BY <1>1 DEF Init, NoStats, NoHistory, TasksAccounted
  <1>4. TrustFollows
    BY DEF Init, NoHistory, TrustFollows
  <1>5. UnderWay /\ Reported
    BY SimulationAssumption DEF Init, UnderWay, Reported
  <1>6. QED
    BY <1>2, <1>3, <1>4, <1>5 DEF IInv, Counts

(* The batch is run to its end under one scenario.                         *)
LEMMA BatchStays == [Next]_vars => scenario' = scenario /\ size' = size
  BY DEF Next, vars, batch, NoneCapable, Select, ExecuteSelected, ExecuteDraft,
         ExecuteRefine, ExecuteBackup, GiveUp, Report, Done

(* Every step of run_scenario keeps the counts.                            *)
LEMMA CountsStep == IInv /\ [Next]_vars => Counts'
  <1> SUFFICES ASSUME IInv, [Next]_vars PROVE Counts'
    OBVIOUS
  <1>0. /\ StatsOK /\ HistoryOK /\ TasksAccounted /\ TrustFollows
        /\ scenario' = scenario /\ size \in Nat /\ TransferLatency \in Int
    BY BatchStays, ContextFacts DEF IInv, Counts, UnderWay
  <1>a. /\ pc \notin {"task", "done"} =>
             selected \in CapableAgents(Task) /\ selected \in Agents /\ Drafter \in Agents
        /\ backups # {} => First(backups) \in Agents
    <2>1. CapableAgents(Task) \subseteq Agents
      BY DEF CapableAgents
    <2>2. QED
      BY <2>1, FirstIn, CheapestIn DEF IInv, UnderWay, Drafter
  <1>1. CASE NoneCapable
    <2>1. HistoryOK' /\ history'.taken = history.taken + 1 /\ history'.ran = history.ran
      <3>1. history' = [history EXCEPT !.taken = @ + 1, !.lost = {}]
            /\ pc' \in {"task", "single", "draft"}
        BY <1>1 DEF NoneCapable, NextTask
      <3>2. history' = [ran |-> history.ran, lost |-> {}, taken |-> history.taken + 1]
        BY <1>0, <3>1 DEF HistoryOK
      <3>3. /\ history'.ran = history.ran /\ history'.taken = history.taken + 1
            /\ history' = [ran |-> history'.ran, lost |-> history'.lost,
                           taken |-> history'.taken]
        BY <3>2
      <3>4. QED
        BY <1>0, <3>1, <3>3 DEF HistoryOK
    <2>2. stats' = [stats EXCEPT !.failed = @ + 1, !.recovery = stats.recovery]
      BY <1>0, <1>1 DEF NoneCapable, StatsOK
    <2>3. pc = "task" /\ pc' = "task" /\ trust_scores' = trust_scores
      BY <1>1 DEF NoneCapable, NextTask
    <2>4. StatsOK' /\ TasksAccounted'
      BY <2>1, <2>2, <2>3, <1>0, FailedOne
    <2>5. TrustFollows'
      BY <1>0, <2>1, <2>3 DEF TrustFollows
    <2>6. QED
      BY <2>1, <2>4, <2>5 DEF Counts
  <1>2. ASSUME NEW n \in Agents, Select(n) PROVE Counts'
    <2>1. HistoryOK' /\ history'.taken = history.taken + 1 /\ history'.ran = history.ran
      <3>1. history' = [history EXCEPT !.taken = @ + 1, !.lost = {}]
            /\ pc' \in {"task", "single", "draft"}
        BY <1>2 DEF Select
      <3>2. history' = [ran |-> history.ran, lost |-> {}, taken |-> history.taken + 1]
        BY <1>0, <3>1 DEF HistoryOK
      <3>3. /\ history'.ran = history.ran /\ history'.taken = history.taken + 1
            /\ history' = [ran |-> history'.ran, lost |-> history'.lost,
                           taken |-> history'.taken]
        BY <3>2
      <3>4. QED
        BY <1>0, <3>1, <3>3 DEF HistoryOK
    <2>2. /\ pc = "task" /\ pc' \in {"draft", "single"} /\ trust_scores' = trust_scores
          /\ stats' = [stats EXCEPT !.sent = @ + ContextSize, !.full = @ + size]
      BY <1>2 DEF Select
    <2>3. StatsOK' /\ stats'.completed = stats.completed /\ stats'.failed = stats.failed
          /\ stats'.latencies = stats.latencies /\ stats'.qualities = stats.qualities
      <3>1. stats' = [completed |-> stats.completed, failed |-> stats.failed,
                      latencies |-> stats.latencies, qualities |-> stats.qualities,
                      total_cost |-> stats.total_cost, sent |-> stats.sent + ContextSize,
                      full |-> stats.full + size, recovery |-> stats.recovery]
        BY <1>0, <2>2 DEF StatsOK
      <3>2. /\ stats' = [completed |-> stats'.completed, failed |-> stats'.failed,
                         latencies |-> stats'.latencies, qualities |-> stats'.qualities,
                         total_cost |-> stats'.total_cost, sent |-> stats'.sent,
                         full |-> stats'.full, recovery |-> stats'.recovery]
            /\ stats'.completed = stats.completed /\ stats'.failed = stats.failed
            /\ stats'.latencies = stats.latencies /\ stats'.qualities = stats.qualities
            /\ stats'.sent = stats.sent + ContextSize /\ stats'.full = stats.full + size
        BY <3>1
      <3>3. /\ ContextSize \in Nat /\ ContextSize <= size
            /\ scenario \notin UsesScd => ContextSize = size
        BY <1>0, ContextFacts
      <3>4. /\ stats'.sent \in Int /\ stats'.full \in Int /\ stats'.sent <= stats'.full
            /\ scenario \notin UsesScd => stats'.sent = stats'.full
        BY <1>0, <3>2, <3>3 DEF StatsOK
      <3>5. QED
        BY <1>0, <3>2, <3>4 DEF StatsOK
    <2>4. TasksAccounted'
      BY <1>0, <2>1, <2>2, <2>3 DEF TasksAccounted, HistoryOK, StatsOK
    <2>5. TrustFollows'
      BY <1>0, <2>1, <2>2 DEF TrustFollows
    <2>6. QED
      BY <2>1, <2>3, <2>4, <2>5 DEF Counts
  <1>3. ASSUME NEW ok \in BOOLEAN, ExecuteSelected(ok) PROVE Counts'
    <2>1. /\ pc \in {"single", "direct"}
          /\ history' = [ran |-> history'.ran, lost |-> history'.lost, taken |-> history'.taken]
          /\ history'.taken = history.taken
          /\ history'.ran = IF ok THEN Once(history.ran, selected, Task) ELSE history.ran
      BY <1>0, <1>3, ExecutedOnce DEF ExecuteSelected
    <2>2. CASE ok
      <3>1. Complete(Latency(selected), <<selected>>)
        BY <1>3, <2>2 DEF ExecuteSelected
      <3>2. /\ HistoryOK' /\ pc' = "task"
        BY <1>0, <2>1, <3>1 DEF HistoryOK, Complete, NextTask
      <3>3. stats' = [stats EXCEPT !.completed = @ + 1,
                        !.latencies = Append(@, Latency(selected) + TransferLatency),
                        !.qualities = Append(@, <<selected>>),
                        !.total_cost = stats.total_cost + Cost(<<selected>>),
                        !.recovery = stats.recovery]
        BY <1>0, <3>1 DEF Complete, StatsOK
      <3>4. StatsOK' /\ TasksAccounted'
        <4>1. Latency(selected) + TransferLatency \in Int
          BY <1>0, <1>a, <2>1, AgentFacts
        <4>2. QED
          BY <1>0, <2>1, <3>2, <3>3, <4>1, CompletedOne
      <3>5. TrustFollows'
        BY <1>0, <2>1, <2>2, <3>1, <3>2, RecordedOnce DEF TrustFollows, Complete
      <3>6. QED
        BY <3>2, <3>4, <3>5 DEF Counts
    <2>3. CASE ~ok
      <3>1. HandleFaultRecovery(selected)
        BY <1>3, <2>3 DEF ExecuteSelected
      <3>2. CASE scenario \in Recovers
        <4>1. pc' = "recover" /\ UNCHANGED <<stats, trust_scores>>
          BY <3>1, <3>2 DEF HandleFaultRecovery
        <4>2. HistoryOK'
          BY <1>0, <2>1, <4>1 DEF HistoryOK
        <4>3. StatsOK' /\ TasksAccounted'
          BY <2>1, <4>1, <4>2, <1>0, NothingCounted
        <4>4. TrustFollows'
          BY <1>0, <2>1, <2>3, <4>1 DEF TrustFollows
        <4>5. QED
          BY <4>2, <4>3, <4>4 DEF Counts
      <3>3. CASE scenario \notin Recovers
        <4>1. /\ pc' = "task" /\ UNCHANGED trust_scores
              /\ stats' = [stats EXCEPT !.failed = @ + 1,
                                        !.recovery = stats.recovery \cup {"infinite"}]
          BY <1>0, <3>1, <3>3
             DEF HandleFaultRecovery, FailWithoutRecovery, NextTask, StatsOK
        <4>2. HistoryOK'
          BY <1>0, <2>1, <4>1 DEF HistoryOK
        <4>3. StatsOK' /\ TasksAccounted'
          BY <2>1, <4>1, <4>2, <1>0, FailedOne
        <4>4. TrustFollows'
          BY <1>0, <2>1, <2>3, <4>1 DEF TrustFollows
        <4>5. QED
          BY <4>2, <4>3, <4>4 DEF Counts
      <3>4. QED
        BY <3>2, <3>3
    <2>4. QED
      BY <2>2, <2>3
  <1>4. ASSUME NEW ok \in BOOLEAN, ExecuteDraft(ok) PROVE Counts'
    <2>1. /\ history' = [ran |-> history'.ran, lost |-> history'.lost, taken |-> history'.taken]
          /\ history'.taken = history.taken
          /\ history'.ran = IF ok THEN Once(history.ran, Drafter, Task) ELSE history.ran
      BY <1>0, <1>4, ExecutedOnce DEF ExecuteDraft
    <2>2. /\ pc = "draft" /\ pc' = IF ok THEN "refine" ELSE "direct"
          /\ UNCHANGED <<tasks, stats, trust_scores>>
      BY <1>4 DEF ExecuteDraft
    <2>3. HistoryOK'
      BY <1>0, <2>1, <2>2 DEF HistoryOK
    <2>4. StatsOK' /\ TasksAccounted'
      BY <2>1, <2>2, <2>3, <1>0, NothingCounted
    <2>5. Drafter' = Drafter /\ Task' = Task
      BY <2>2 DEF Drafter, Task
    <2>6. TrustFollows'
      BY <1>0, <2>1, <2>2, <2>5 DEF TrustFollows
    <2>7. QED
      BY <2>3, <2>4, <2>6 DEF Counts
  <1>5. ASSUME NEW ok \in BOOLEAN, ExecuteRefine(ok) PROVE Counts'
    <2>1. /\ pc = "refine"
          /\ history' = [ran |-> history'.ran, lost |-> history'.lost, taken |-> history'.taken]
          /\ history'.taken = history.taken
          /\ history'.ran = IF ok THEN Once(history.ran, selected, Task) ELSE history.ran
      BY <1>0, <1>5, ExecutedOnce DEF ExecuteRefine
    <2>2. ASSUME NEW latency \in Int, NEW from, Complete(latency, from)
          PROVE  HistoryOK' /\ StatsOK' /\ TasksAccounted' /\ pc' = "task"
                 /\ trust_scores' = Recorded(from)
      <3>1. HistoryOK' /\ pc' = "task"
        BY <1>0, <2>1, <2>2 DEF HistoryOK, Complete, NextTask
      <3>2. stats' = [stats EXCEPT !.completed = @ + 1,
                        !.latencies = Append(@, latency + TransferLatency),
                        !.qualities = Append(@, from),
                        !.total_cost = stats.total_cost + Cost(from),
                        !.recovery = stats.recovery]
        BY <1>0, <2>2 DEF Complete, StatsOK
      <3>3. StatsOK' /\ TasksAccounted'
        <4>1. latency + TransferLatency \in Int
          BY <1>0, <2>2
        <4>2. QED
          BY <1>0, <2>1, <3>1, <3>2, <4>1, CompletedOne
      <3>4. QED
        BY <2>2, <3>1, <3>3 DEF Complete
    <2>3. CASE ok
      <3>1. Complete(Latency(Drafter) + Latency(selected), <<Drafter, selected>>)
        BY <1>5, <2>3 DEF ExecuteRefine
      <3>2. HistoryOK' /\ StatsOK' /\ TasksAccounted' /\ pc' = "task"
            /\ trust_scores' = Recorded(<<Drafter, selected>>)
        <4>1. Latency(Drafter) + Latency(selected) \in Int
          BY <1>a, <2>1, AgentFacts
        <4>2. QED
          BY <2>2, <3>1, <4>1
      <3>3. TrustFollows'
        BY <1>0, <2>1, <2>3, <3>2, RecordedOnce DEF TrustFollows
      <3>4. QED
        BY <3>2, <3>3 DEF Counts
    <2>4. CASE ~ok
      <3>1. Complete(Latency(Drafter), <<Drafter>>)
        BY <1>5, <2>4 DEF ExecuteRefine
      <3>2. HistoryOK' /\ StatsOK' /\ TasksAccounted' /\ pc' = "task"
            /\ trust_scores' = Recorded(<<Drafter>>)
        BY <1>a, <2>1, <2>2, <3>1, AgentFacts
      <3>3. TrustFollows'
        BY <1>0, <2>1, <2>4, <3>2, RecordedOnce DEF TrustFollows
      <3>4. QED
        BY <3>2, <3>3 DEF Counts
    <2>5. QED
      BY <2>3, <2>4
  <1>6. ASSUME NEW ok \in BOOLEAN, ExecuteBackup(ok) PROVE Counts'
    <2> DEFINE n == First(backups)
    <2>1. /\ pc = "recover"
          /\ history' = [ran |-> history'.ran, lost |-> history'.lost, taken |-> history'.taken]
          /\ history'.taken = history.taken
          /\ history'.ran = IF ok THEN Once(history.ran, n, Task) ELSE history.ran
      BY <1>0, <1>6, ExecutedOnce DEF ExecuteBackup
    <2>2. CASE ok
      <3>1. /\ pc' = "task" /\ trust_scores' = Recorded(<<n>>)
            /\ stats' = [stats EXCEPT !.completed = @ + 1,
                  !.latencies = Append(@, FailureLatency + Latency(n)
                                          + RecoveryLatency + TransferLatency),
                  !.qualities = Append(@, <<n>>),
                  !.total_cost = stats.total_cost + Cost(<<n>>),
                  !.recovery = stats.recovery \cup {"finite"}]
        BY <1>0, <1>6, <2>2 DEF ExecuteBackup, NextTask, StatsOK
      <3> HIDE DEF n
      <3>2. HistoryOK'
        BY <1>0, <2>1, <3>1 DEF HistoryOK
      <3>3. StatsOK' /\ TasksAccounted'
        <4>1. FailureLatency + Latency(n) + RecoveryLatency + TransferLatency \in Int
          <5>1. n \in Agents
            BY <1>6, <1>a DEF ExecuteBackup, n
          <5>2. QED
            BY <1>0, <5>1, AgentFacts DEF FailureLatency, RecoveryLatency
        <4>2. QED
          BY <1>0, <2>1, <3>1, <3>2, <4>1, CompletedOne
      <3>4. TrustFollows'
        BY <1>0, <2>1, <2>2, <3>1, RecordedOnce DEF TrustFollows
      <3>5. QED
        BY <3>2, <3>3, <3>4 DEF Counts
    <2>3. CASE ~ok
      <3>1. /\ UNCHANGED <<pc, trust_scores>>
            /\ stats' = [stats EXCEPT !.recovery = @ \cup {"finite"}]
        BY <1>6, <2>3 DEF ExecuteBackup
      <3>2. StatsOK' /\ stats'.completed = stats.completed /\ stats'.failed = stats.failed
            /\ stats'.latencies = stats.latencies /\ stats'.qualities = stats.qualities
        BY <1>0, <3>1 DEF StatsOK
      <3>3. HistoryOK'
        BY <1>0, <2>1, <3>1 DEF HistoryOK
      <3>4. TasksAccounted'
        BY <1>0, <2>1, <3>1, <3>2 DEF TasksAccounted
      <3>5. TrustFollows'
        BY <1>0, <2>1, <2>3, <3>1 DEF TrustFollows
      <3>6. QED
        BY <3>2, <3>3, <3>4, <3>5 DEF Counts
    <2>4. QED
      BY <2>2, <2>3
  <1>7. CASE GiveUp
    <2>1. /\ pc = "recover" /\ pc' = "task" /\ UNCHANGED <<trust_scores, history>>
          /\ stats' = [stats EXCEPT !.failed = @ + 1, !.recovery = stats.recovery]
      BY <1>0, <1>7 DEF GiveUp, NextTask, StatsOK
    <2>2. HistoryOK'
      BY <1>0, <2>1 DEF HistoryOK
    <2>3. StatsOK' /\ TasksAccounted'
      BY <2>1, <2>2, <1>0, FailedOne
    <2>4. TrustFollows'
      BY <1>0, <2>1 DEF TrustFollows
    <2>5. QED
      BY <2>2, <2>3, <2>4 DEF Counts
  <1>8. CASE Report
    <2>1. /\ pc = "task" /\ pc' = "done" /\ UNCHANGED <<stats, trust_scores, history>>
      BY <1>8 DEF Report
    <2>2. HistoryOK'
      BY <1>0, <2>1 DEF HistoryOK
    <2>3. StatsOK' /\ TasksAccounted'
      BY <2>1, <2>2, <1>0, NothingCounted
    <2>4. TrustFollows'
      BY <1>0, <2>1 DEF TrustFollows
    <2>5. QED
      BY <2>2, <2>3, <2>4 DEF Counts
  <1>9. CASE UNCHANGED vars
    <2>1. HistoryOK' /\ StatsOK' /\ TasksAccounted'
      BY <1>0, <1>9 DEF vars, HistoryOK, StatsOK, TasksAccounted
    <2>2. Drafter' = Drafter /\ Task' = Task
      BY <1>9 DEF vars, Drafter, Task
    <2>3. TrustFollows'
      BY <1>0, <1>9, <2>2 DEF vars, TrustFollows
    <2>4. QED
      BY <2>1, <2>3 DEF Counts
  <1>10. QED
    BY <1>1, <1>2, <1>3, <1>4, <1>5, <1>6, <1>7, <1>8, <1>9 DEF Next, Done

(* A task stays with agents that can do it until it is completed or all of *)
(* them have failed.                                                       *)
LEMMA UnderWayStep == IInv /\ [Next]_vars => UnderWay' /\ Reported'
  <1> SUFFICES ASSUME IInv, [Next]_vars PROVE UnderWay' /\ Reported'
    OBVIOUS
  <1>0. /\ scenario \in Scenarios /\ scenario' = scenario /\ size' = size /\ size \in Nat
        /\ backups \subseteq Agents /\ HistoryOK
        /\ pc \notin {"task", "done"} => selected \in CapableAgents(Task)
        /\ pc = "recover" => /\ scenario \in Recovers
                             /\ CapableAgents(Task) \subseteq history.lost \cup backups
    BY BatchStays DEF IInv, Counts, UnderWay
  <1>a. ASSUME NextTask PROVE UnderWay' /\ Reported'
    BY <1>0, <1>a DEF NextTask, UnderWay, Reported
  <1>1. CASE NoneCapable
    BY <1>1, <1>a DEF NoneCapable
  <1>2. ASSUME NEW n \in Agents, Select(n) PROVE UnderWay' /\ Reported'
    <2>1. /\ selected' = n /\ pc' \in {"draft", "single"} /\ UNCHANGED <<tasks, backups>>
          /\ n \in Selections(CapableAgents(Task), Task) /\ CapableAgents(Task) # {}
      BY <1>2 DEF Select
    <2>2. CapableAgents(Task) \subseteq Agents
      BY DEF CapableAgents
    <2>3. n \in CapableAgents(Task)
      BY <1>0, <2>1, <2>2, SelectionsIn
    <2>4. Task' = Task /\ CapableAgents(Task)' = CapableAgents(Task)
      BY <2>1 DEF Task, CapableAgents
    <2>5. QED
      BY <1>0, <2>1, <2>3, <2>4 DEF UnderWay, Reported
  <1>3. ASSUME NEW ok \in BOOLEAN, ExecuteSelected(ok) PROVE UnderWay' /\ Reported'
    <2>1. CASE NextTask
      BY <1>a, <2>1
    <2>2. CASE ~ok /\ scenario \in Recovers
      <3>1. /\ pc \in {"single", "direct"} /\ pc' = "recover" /\ UNCHANGED <<tasks, selected>>
            /\ backups' = CapableAgents(Task) \ {selected}
            /\ Executed(selected, ok)
        BY <1>3, <2>2 DEF ExecuteSelected, HandleFaultRecovery, Others
      <3>2. history'.lost = history.lost \cup {selected}
        BY <1>0, <2>2, <3>1, ExecutedOnce
      <3>3. Task' = Task /\ CapableAgents(Task)' = CapableAgents(Task)
              /\ CapableAgents(Task) \subseteq Agents
        BY <3>1 DEF Task, CapableAgents
      <3>4. QED
        BY <1>0, <2>2, <3>1, <3>2, <3>3 DEF UnderWay, Reported
    <2>3. QED
      BY <1>3, <2>1, <2>2 DEF ExecuteSelected, HandleFaultRecovery, FailWithoutRecovery, Complete
  <1>4. ASSUME NEW ok \in BOOLEAN, ExecuteDraft(ok) PROVE UnderWay' /\ Reported'
    <2>1. /\ pc = "draft" /\ pc' \in {"refine", "direct"} /\ UNCHANGED <<tasks, selected, backups>>
      BY <1>4 DEF ExecuteDraft
    <2>2. Task' = Task /\ CapableAgents(Task)' = CapableAgents(Task)
      BY <2>1 DEF Task, CapableAgents
    <2>3. QED
      BY <1>0, <2>1, <2>2 DEF UnderWay, Reported
  <1>5. ASSUME NEW ok \in BOOLEAN, ExecuteRefine(ok) PROVE UnderWay' /\ Reported'
    BY <1>5, <1>a DEF ExecuteRefine, Complete
  <1>6. ASSUME NEW ok \in BOOLEAN, ExecuteBackup(ok) PROVE UnderWay' /\ Reported'
    <2>1. CASE ok
      BY <1>6, <1>a, <2>1 DEF ExecuteBackup
    <2>2. CASE ~ok
      <3> DEFINE n == First(backups)
      <3>1. /\ pc = "recover" /\ backups' = backups \ {n} /\ UNCHANGED <<tasks, pc, selected>>
            /\ Executed(n, ok)
        BY <1>6, <2>2 DEF ExecuteBackup
      <3>2. history'.lost = history.lost \cup {n}
        BY <1>0, <2>2, <3>1, ExecutedOnce
      <3>3. Task' = Task /\ CapableAgents(Task)' = CapableAgents(Task)
        BY <3>1 DEF Task, CapableAgents
      <3> HIDE DEF n
      <3>4. QED
        BY <1>0, <3>1, <3>2, <3>3 DEF UnderWay, Reported
    <2>3. QED
      BY <2>1, <2>2
  <1>7. CASE GiveUp
    BY <1>7, <1>a DEF GiveUp
  <1>8. CASE Report
    <2>1. /\ pc' = "done" /\ report' = Summary(stats.latencies) /\ UNCHANGED <<stats, backups>>
      BY <1>8 DEF Report
    <2>2. QED
      BY <1>0, <2>1 DEF UnderWay, Reported
  <1>9. CASE UNCHANGED vars
    <2>1. Task' = Task /\ CapableAgents(Task)' = CapableAgents(Task)
      BY <1>9 DEF vars, Task, CapableAgents
    <2>2. QED
      BY <1>9, <2>1 DEF vars, IInv, UnderWay, Reported
  <1>10. QED
    BY <1>1, <1>2, <1>3, <1>4, <1>5, <1>6, <1>7, <1>8, <1>9 DEF Next, Done

LEMMA InvStep == IInv /\ [Next]_vars => IInv'
  BY CountsStep, UnderWayStep DEF IInv

(* The invariant holds throughout run_scenario.                            *)
THEOREM Invariance == Spec => []IInv
  BY InvInit, InvStep, PTL DEF Spec

(* run_scenario loses no task and counts none twice, and every completed   *)
(* task has one latency and one quality.                                   *)
THEOREM AllTasksAccounted == Spec => []TasksAccounted
  <1>1. IInv => TasksAccounted
    BY DEF IInv, Counts
  <1>2. QED
    BY <1>1, Invariance, PTL

(* Between tasks the recorded trust is exactly the successful executions.  *)
THEOREM TrustIsExactlyEarned == Spec => []TrustIsEarned
  <1>1. IInv => TrustIsEarned
    BY DEF IInv, Counts, TrustFollows, TrustIsEarned
  <1>2. QED
    BY <1>1, Invariance, PTL

(* A strategy with fault recovery gives a task up only when every agent    *)
(* that could do it has failed on it (handle_fault_recovery).              *)
THEOREM GivesUpOnlyExhausted == Spec => FailsOnlyExhausted
  <1> DEFINE Exhausted ==
        stats'.failed > stats.failed /\ scenario \in Recovers =>
          \A n \in Agents : Task \in AgentOf(n).types => n \in history'.lost
  <1>1. ASSUME IInv, [Next]_vars PROVE [Exhausted]_vars
    <2>0. /\ StatsOK /\ HistoryOK
          /\ pc = "recover" => CapableAgents(Task) \subseteq history.lost \cup backups
      BY <1>1 DEF IInv, Counts, UnderWay
    <2>1. CASE stats'.failed = stats.failed
      BY <2>0, <2>1 DEF StatsOK
    <2>2. CASE NoneCapable
      BY <2>2 DEF NoneCapable, CapableAgents
    <2>3. CASE GiveUp
      <3>1. pc = "recover" /\ backups = {} /\ history' = history
        BY <2>3 DEF GiveUp
      <3>2. QED
        BY <2>0, <3>1 DEF CapableAgents
    <2>4. CASE scenario \notin Recovers
      BY <2>4
    <2>5. CASE UNCHANGED vars
      BY <2>5
    <2>6. ASSUME NEW latency, NEW from, Complete(latency, from)
          PROVE  stats'.failed = stats.failed
      BY <2>0, <2>6 DEF Complete, StatsOK
    <2>7. ASSUME NEW n, Select(n)
          PROVE  stats'.failed = stats.failed
      BY <2>0, <2>7 DEF Select, StatsOK
    <2>8. ASSUME NEW ok \in BOOLEAN, ExecuteBackup(ok)
          PROVE  stats'.failed = stats.failed
      <3>1. CASE ok
        BY <2>0, <2>8, <3>1 DEF ExecuteBackup, StatsOK
      <3>2. CASE ~ok
        BY <2>0, <2>8, <3>2 DEF ExecuteBackup, StatsOK
      <3>3. QED
        BY <3>1, <3>2
    <2>9. ASSUME NEW ok \in BOOLEAN, ExecuteSelected(ok), scenario \in Recovers
          PROVE  stats'.failed = stats.failed
      BY <2>6, <2>9 DEF ExecuteSelected, HandleFaultRecovery
    <2>10. ASSUME NEW ok \in BOOLEAN, ExecuteDraft(ok) \/ ExecuteRefine(ok)
           PROVE  stats'.failed = stats.failed
      BY <2>6, <2>10 DEF ExecuteDraft, ExecuteRefine
    <2>11. CASE Report
      BY <2>1, <2>11 DEF Report
    <2> HIDE DEF Exhausted
    <2>12. QED
      BY <1>1, <2>1, <2>2, <2>3, <2>4, <2>5, <2>7, <2>8, <2>9, <2>10, <2>11 DEF Next, Done
  <1>2. QED
    BY <1>1, Invariance, PTL DEF Spec, FailsOnlyExhausted

-----------------------------------------------------------------------------
(* Sorting and percentiles.                                                *)

InOrder(s, p, n) == \A i, j \in 1..n : i < j => s[p[i]] <= s[p[j]]

(* One more number is inserted where the first greater one stands.         *)
LEMMA InsertOne ==
  ASSUME NEW n \in Nat, NEW s \in [1..(n + 1) -> Int], NEW p \in Bijection(1..n, 1..n),
         InOrder(s, p, n)
  PROVE  \E q \in Bijection(1..(n + 1), 1..(n + 1)) : InOrder(s, q, n + 1)
  <1> DEFINE T == {k \in 1..(n + 1) : k = n + 1 \/ s[p[k]] > s[n + 1]}
  <1>1. T \subseteq Nat /\ T # {}
    <2>1. n + 1 \in T
      OBVIOUS
    <2>2. QED
      BY <2>1
  <1>2. PICK k \in T : \A m \in T : k <= m
    BY <1>1, Least
  <1> DEFINE q == [i \in 1..(n + 1) |->
                     IF i < k THEN p[i] ELSE IF i = k THEN n + 1 ELSE p[i - 1]]
  <1>3. /\ k \in 1..(n + 1) /\ k \in Nat
        /\ k # n + 1 => s[p[k]] > s[n + 1]
        /\ \A i \in 1..n : i < k => s[p[i]] <= s[n + 1]
    <2>1. k \in 1..(n + 1) /\ k \in Nat /\ (k # n + 1 => s[p[k]] > s[n + 1])
      OBVIOUS
    <2>2. ASSUME NEW i \in 1..n, i < k PROVE s[p[i]] <= s[n + 1]
      <3>1. i \notin T
        BY <1>2, <2>1, <2>2
      <3>2. p[i] \in 1..n
        BY DEF Bijection, Injection
      <3>3. s[p[i]] \in Int /\ s[n + 1] \in Int
        BY <3>2
      <3>4. QED
        BY <3>1, <3>3
    <2>3. QED
      BY <2>1, <2>2
  <1> HIDE DEF T
  <1>4. /\ p \in [1..n -> 1..n]
        /\ \A i, j \in 1..n : p[i] = p[j] => i = j
        /\ \A w \in 1..n : \E i \in 1..n : p[i] = w
    BY DEF Bijection, Injection, IsInjective, Surjection
  <1>5. /\ \A i \in 1..(n + 1) : i < k => i \in 1..n /\ q[i] = p[i]
        /\ q[k] = n + 1
        /\ \A i \in 1..(n + 1) : i > k => i - 1 \in 1..n /\ k <= i - 1 /\ q[i] = p[i - 1]
    BY <1>3
  <1>6. DOMAIN q = 1..(n + 1) /\ q = [i \in 1..(n + 1) |-> q[i]]
    OBVIOUS
  <1> HIDE DEF q
  <1>7. \A i \in 1..(n + 1) : i = k \/ i < k \/ i > k
    BY <1>3
  <1>8. q \in [1..(n + 1) -> 1..(n + 1)]
    <2>1. ASSUME NEW i \in 1..(n + 1) PROVE q[i] \in 1..(n + 1)
      <3>1. CASE i < k
        <4>1. q[i] \in 1..n
          <5>1. i \in 1..n /\ q[i] = p[i]
            BY <1>5, <3>1, Zenon
          <5>2. QED
            BY <1>4, <5>1
        <4>2. \A j : j \in 1..n => j \in 1..(n + 1)
          OBVIOUS
        <4>3. QED
          BY <4>1, <4>2, Zenon
      <3>2. CASE i > k
        <4>1. i - 1 \in 1..n /\ q[i] = p[i - 1]
          BY <1>5, <3>2
        <4>2. p[i - 1] \in 1..n
          BY <1>4, <4>1
        <4>3. QED
          BY <4>1, <4>2
      <3>3. QED
        BY <1>5, <1>7, <3>1, <3>2
    <2>2. QED
      BY <1>6, <2>1
  <1>9. ASSUME NEW i \in 1..(n + 1), NEW j \in 1..(n + 1), q[i] = q[j], i < j PROVE FALSE
    <2>1. CASE i < k
      <3>1. i \in 1..n /\ q[i] = p[i] /\ p[i] \in 1..n
        BY <1>4, <1>5, <2>1
      <3>2. j # k
        <4>1. q[j] \in 1..n /\ n + 1 \notin 1..n
          BY <1>9, <3>1
        <4>2. QED
          BY <1>5, <4>1
      <3>3. PICK b \in 1..n : q[j] = p[b] /\ i < b
        <4>1. CASE j < k
          BY <1>5, <1>9, <4>1
        <4>2. CASE j > k
          <5>1. j - 1 \in 1..n /\ q[j] = p[j - 1] /\ i < j - 1
            BY <1>3, <1>5, <2>1, <4>2
          <5>2. QED
            BY <5>1
        <4>3. QED
          BY <1>7, <3>2, <4>1, <4>2
      <3>4. p[i] = p[b]
        BY <1>9, <3>1, <3>3
      <3>5. QED
        BY <1>4, <3>1, <3>3, <3>4
    <2>2. CASE i >= k
      <3>1. j - 1 \in 1..n /\ q[j] = p[j - 1] /\ p[j - 1] \in 1..n
        <4>1. j > k
          BY <1>3, <1>9, <2>2
        <4>2. j - 1 \in 1..n /\ q[j] = p[j - 1]
          BY <1>5, <4>1
        <4>3. QED
          BY <1>4, <4>2
      <3>2. i # k
        <4>1. q[i] \in 1..n /\ n + 1 \notin 1..n
          BY <1>9, <3>1
        <4>2. QED
          BY <1>5, <4>1
      <3>3. i - 1 \in 1..n /\ q[i] = p[i - 1]
        BY <1>3, <1>5, <2>2, <3>2
      <3>4. i - 1 = j - 1
        <4>1. p[i - 1] = p[j - 1]
          BY <1>9, <3>1, <3>3
        <4>2. QED
          BY <1>4, <3>1, <3>3, <4>1
      <3>5. QED
        BY <1>9, <3>4
    <2>3. QED
      BY <1>3, <2>1, <2>2
  <1>10. ASSUME NEW w \in 1..(n + 1) PROVE \E i \in 1..(n + 1) : q[i] = w
    <2>1. CASE w = n + 1
      BY <1>3, <1>5, <2>1
    <2>2. CASE w \in 1..n
      <3>1. PICK i \in 1..n : p[i] = w
        BY <1>4, <2>2
      <3>2. CASE i < k
        BY <1>5, <3>1, <3>2
      <3>3. CASE i >= k
        <4>1. i + 1 \in 1..(n + 1) /\ i + 1 > k /\ (i + 1) - 1 = i
          BY <1>3, <3>3
        <4>2. q[i + 1] = w
          BY <1>5, <3>1, <4>1
        <4>3. QED
          BY <4>1, <4>2
      <3>4. QED
        BY <1>3, <3>2, <3>3
    <2>3. QED
      BY <2>1, <2>2
  <1>11. q \in Bijection(1..(n + 1), 1..(n + 1))
    <2>1. \A i, j \in 1..(n + 1) : q[i] = q[j] => i = j
      <3>1. SUFFICES ASSUME NEW i \in 1..(n + 1), NEW j \in 1..(n + 1), q[i] = q[j]
                     PROVE  ~(i < j) /\ ~(j < i)
        OBVIOUS
      <3>2. QED
        BY <1>9, <3>1
    <2>2. QED
      BY <1>8, <1>10, <2>1 DEF Bijection, Injection, IsInjective, Surjection
  <1>12. ASSUME NEW i \in 1..(n + 1), NEW j \in 1..(n + 1), i < j
         PROVE  s[q[i]] <= s[q[j]]
    <2>0. \A a \in 1..n : s[p[a]] \in Int /\ s[n + 1] \in Int
      BY <1>4
    <2>1. CASE j < k
      <3>1. i < k /\ i \in 1..n /\ j \in 1..n /\ q[i] = p[i] /\ q[j] = p[j]
        BY <1>3, <1>5, <1>12, <2>1
      <3>2. QED
        BY <1>12, <3>1 DEF InOrder
    <2>2. CASE j = k
      <3>1. i < k /\ i \in 1..n /\ q[i] = p[i] /\ q[j] = n + 1
        BY <1>3, <1>5, <1>12, <2>2
      <3>2. QED
        BY <1>3, <3>1
    <2>3. CASE j > k /\ i < k
      <3>1. i \in 1..n /\ q[i] = p[i] /\ j - 1 \in 1..n /\ q[j] = p[j - 1] /\ i < j - 1
        BY <1>3, <1>5, <2>3
      <3>2. QED
        BY <3>1 DEF InOrder
    <2>4. CASE j > k /\ i = k
      <3>1. k \in 1..n /\ q[i] = n + 1 /\ j - 1 \in 1..n /\ q[j] = p[j - 1] /\ k <= j - 1
        BY <1>3, <1>5, <2>4
      <3>2. s[n + 1] <= s[p[k]]
        BY <1>3, <2>0, <3>1
      <3>3. s[p[k]] <= s[p[j - 1]]
        <4>1. CASE k = j - 1
          BY <2>0, <3>1, <4>1
        <4>2. CASE k < j - 1
          BY <3>1, <4>2 DEF InOrder
        <4>3. QED
          BY <1>3, <3>1, <4>1, <4>2
      <3>4. s[n + 1] \in Int /\ s[p[k]] \in Int /\ s[p[j - 1]] \in Int
        BY <2>0, <3>1
      <3>5. QED
        BY <3>1, <3>2, <3>3, <3>4
    <2>5. CASE i > k
      <3>1. /\ i - 1 \in 1..n /\ q[i] = p[i - 1] /\ j - 1 \in 1..n /\ q[j] = p[j - 1]
            /\ i - 1 < j - 1
        BY <1>3, <1>5, <1>12, <2>5
      <3>2. QED
        BY <3>1 DEF InOrder
    <2>6. QED
      BY <1>3, <1>7, <1>12, <2>1, <2>2, <2>3, <2>4, <2>5
  <1>13. InOrder(s, q, n + 1)
    BY <1>12 DEF InOrder
  <1>14. QED
    BY <1>11, <1>13

(* Every list of numbers can be put in order.                              *)
LEMMA SortExists ==
  \A n \in Nat : \A s \in [1..n -> Int] :
    \E p \in Bijection(1..n, 1..n) : InOrder(s, p, n)
  <1> DEFINE Sortable(n) == \A s \in [1..n -> Int] :
               \E p \in Bijection(1..n, 1..n) : InOrder(s, p, n)
             S == {n \in Nat : Sortable(n)}
  <1>1. Sortable(0)
    <2>1. SUFFICES ASSUME NEW s \in [1..0 -> Int]
                   PROVE  \E p \in Bijection(1..0, 1..0) : InOrder(s, p, 0)
      OBVIOUS
    <2>2. 1..0 = {}
      OBVIOUS
    <2>3. [i \in 1..0 |-> i] \in Bijection(1..0, 1..0)
      BY <2>2 DEF Bijection, Injection, IsInjective, Surjection
    <2>4. InOrder(s, [i \in 1..0 |-> i], 0)
      BY <2>2 DEF InOrder
    <2>5. QED
      BY <2>3, <2>4
  <1>2. ASSUME NEW n \in Nat, Sortable(n) PROVE Sortable(n + 1)
    <2>1. SUFFICES ASSUME NEW s \in [1..(n + 1) -> Int]
                   PROVE  \E q \in Bijection(1..(n + 1), 1..(n + 1)) : InOrder(s, q, n + 1)
      OBVIOUS
    <2> DEFINE u == [i \in 1..n |-> s[i]]
    <2>2. u \in [1..n -> Int]
      OBVIOUS
    <2>3. PICK p \in Bijection(1..n, 1..n) : InOrder(u, p, n)
      BY <1>2, <2>2
    <2>4. \A i \in 1..n : p[i] \in 1..n /\ u[p[i]] = s[p[i]]
      BY DEF Bijection, Injection
    <2>5. InOrder(s, p, n)
      BY <2>3, <2>4 DEF InOrder
    <2>6. QED
      BY <2>5, InsertOne
  <1> HIDE DEF Sortable
  <1>3. 0 \in S /\ \A n \in Nat : n \in S => n + 1 \in S
    BY <1>1, <1>2
  <1>4. Nat \subseteq S
    <2> HIDE DEF S
    <2>1. QED
      BY <1>3, SetInduction
  <1>5. \A n \in Nat : Sortable(n)
    BY <1>4
  <1>6. QED
    BY <1>5 DEF Sortable

(* ... and Sorted does so.                                                 *)
LEMMA SortedFacts ==
  ASSUME NEW s \in Seq(Int)
  PROVE  \E p \in Bijection(1..Len(s), 1..Len(s)) :
           /\ Sorted(s) = [i \in 1..Len(s) |-> s[p[i]]]
           /\ InOrder(s, p, Len(s))
  <1> DEFINE n == Len(s)
             R == {[i \in 1..n |-> s[p[i]]] : p \in Bijection(1..n, 1..n)}
             Ordered(t) == \A i, j \in 1..n : i < j => t[i] <= t[j]
  <1>1. n \in Nat /\ DOMAIN s = 1..n /\ s \in [1..n -> Int]
    OBVIOUS
  <1>2. Sorted(s) = CHOOSE t \in R : Ordered(t)
    BY <1>1 DEF Sorted
  <1> HIDE DEF n
  <1>3. \E t \in R : Ordered(t)
    <2>1. PICK p \in Bijection(1..n, 1..n) : InOrder(s, p, n)
      BY <1>1, SortExists
    <2> DEFINE t == [i \in 1..n |-> s[p[i]]]
    <2>2. t \in R /\ Ordered(t)
      BY <2>1 DEF InOrder
    <2>3. QED
      BY <2>2
  <1>4. Sorted(s) \in R /\ Ordered(Sorted(s))
    <2> HIDE DEF R, Ordered
    <2>1. QED
      BY <1>2, <1>3
  <1>5. PICK p \in Bijection(1..n, 1..n) : Sorted(s) = [i \in 1..n |-> s[p[i]]]
    BY <1>4
  <1>6. InOrder(s, p, n)
    BY <1>4, <1>5 DEF InOrder
  <1>7. QED
    BY <1>5, <1>6 DEF n

Percents == {50, 95, 99}

AtMost(s, n, v) == Cardinality({i \in 1..n : s[i] <= v})
Below(s, n, v) == Cardinality({i \in 1..n : s[i] < v})

(* The rank of a percentile is a place of the list; it is the last one not *)
(* above its share by a whole place.                                       *)
LEMMA RankFacts ==
  ASSUME NEW n \in Nat, n > 0, NEW pct \in Percents
  PROVE  /\ Rank(n, pct) \in 1..n
         /\ 100 * Rank(n, pct) >= pct * n
         /\ 100 * (Rank(n, pct) - 1) <= pct * n
  <1> DEFINE q == (n * pct) \div 100
  <1>1. q \in Nat /\ 100 * q <= n * pct /\ n * pct < 100 * q + 100
    BY DEF Percents
  <1>2. Rank(n, pct) = IF q + 1 > n THEN n ELSE q + 1
    BY DEF Rank
  <1> HIDE DEF q
  <1>3. QED
    BY <1>1, <1>2 DEF Percents

(* In an ordered list at least r numbers are at most the r-th, and fewer   *)
(* than r are below it.                                                    *)
Arranged(s, p, n) ==
  /\ n \in Nat /\ s \in [1..n -> Int] /\ p \in Bijection(1..n, 1..n)
  /\ InOrder(s, p, n)

Placed(s, n, r, v) ==
  /\ \E i \in 1..n : s[i] = v
  /\ AtMost(s, n, v) \in Nat /\ r <= AtMost(s, n, v)
  /\ Below(s, n, v) \in Nat /\ Below(s, n, v) <= r - 1

LEMMA PlaceInOrder ==
  ASSUME NEW n, NEW s, NEW p, Arranged(s, p, n), NEW r \in 1..n
  PROVE  Placed(s, n, r, s[p[r]])
  <1> SUFFICES ASSUME NEW v, v = s[p[r]] PROVE Placed(s, n, r, v)
    OBVIOUS
  <1>0. /\ n \in Nat /\ s \in [1..n -> Int] /\ p \in Bijection(1..n, 1..n)
        /\ InOrder(s, p, n)
    BY DEF Arranged
  <1> USE <1>0
  <1> DEFINE L == {i \in 1..n : s[i] <= v}
             B == {i \in 1..n : s[i] < v}
  <1>1. /\ p \in [1..n -> 1..n]
        /\ \A i, j \in 1..n : p[i] = p[j] => i = j
        /\ \A w \in 1..n : \E i \in 1..n : p[i] = w
    BY DEF Bijection, Injection, IsInjective, Surjection
  <1>2. p[r] \in 1..n /\ s[p[r]] = v /\ v \in Int /\ r \in Nat /\ r > 0 /\ r <= n
    BY <1>1
  <1>3. IsFiniteSet(L) /\ IsFiniteSet(B)
    <2>1. IsFiniteSet(1..n)
      BY FS_Interval
    <2>2. L \in SUBSET (1..n) /\ B \in SUBSET (1..n)
      OBVIOUS
    <2> HIDE DEF L, B
    <2>3. QED
      BY <2>1, <2>2, FS_Subset
  <1>4. r <= Cardinality(L)
    <2> DEFINE f == [i \in 1..r |-> p[i]]
    <2>1. 1..r \subseteq 1..n
      BY <1>2
    <2>2. ASSUME NEW i \in 1..r PROVE p[i] \in L
      <3>1. i \in 1..n /\ p[i] \in 1..n
        BY <1>1, <2>1
      <3>2. CASE i = r
        BY <1>2, <3>1, <3>2
      <3>3. CASE i < r
        BY <1>2, <3>1, <3>3 DEF InOrder
      <3>4. QED
        BY <1>2, <3>2, <3>3
    <2>3. f \in [1..r -> L]
      BY <2>2
    <2>4. ASSUME NEW i \in 1..r, NEW j \in 1..r, f[i] = f[j] PROVE i = j
      <3>1. i \in 1..n /\ j \in 1..n /\ p[i] = p[j]
        BY <2>1, <2>4
      <3>2. QED
        BY <1>1, <3>1
    <2> HIDE DEF f, L
    <2>5. f \in Injection(1..r, L)
      BY <2>3, <2>4 DEF Injection, IsInjective
    <2>6. Cardinality(1..r) <= Cardinality(L)
      BY <1>3, <2>5, FS_Injection
    <2>7. Cardinality(1..r) = r
      BY <1>2, FS_Interval
    <2>8. QED
      BY <2>6, <2>7
  <1>5. Cardinality(B) <= r - 1
    <2> DEFINE g == [k \in B |-> CHOOSE i \in 1..n : p[i] = k]
    <2>1. ASSUME NEW k \in B PROVE g[k] \in 1..n /\ p[g[k]] = k
      BY <1>1
    <2>2. DOMAIN g = B /\ g = [k \in B |-> g[k]]
      OBVIOUS
    <2> HIDE DEF g
    <2>3. ASSUME NEW k \in B PROVE g[k] \in 1..(r - 1)
      <3>1. PICK i \in 1..n : i = g[k] /\ p[i] = k
        BY <2>1
      <3>2. s[p[i]] < v
        BY <3>1
      <3>3. s[p[i]] \in Int
        BY <1>1
      <3>4. ~(r < i)
        <4>1. ASSUME r < i PROVE FALSE
          <5>1. s[p[r]] <= s[p[i]]
            BY <4>1 DEF InOrder
          <5>2. QED
            BY <1>2, <3>2, <3>3, <5>1
        <4>2. QED
          BY <4>1
      <3>5. i # r
        BY <1>2, <3>2
      <3>6. QED
        BY <1>2, <3>1, <3>4, <3>5
    <2>4. g \in [B -> 1..(r - 1)]
      <3> HIDE DEF B
      <3>1. QED
        BY <2>2, <2>3
    <2>5. \A k, m \in B : g[k] = g[m] => k = m
      BY <2>1
    <2> HIDE DEF B
    <2>6. g \in Injection(B, 1..(r - 1))
      BY <2>2, <2>4, <2>5 DEF Injection, IsInjective
    <2>7. IsFiniteSet(1..(r - 1)) /\ Cardinality(1..(r - 1)) = r - 1
      <3>1. r - 1 \in Int /\ 1 \in Int
        BY <1>2
      <3>2. /\ IsFiniteSet(1..(r - 1))
            /\ Cardinality(1..(r - 1)) = IF 1 > r - 1 THEN 0 ELSE (r - 1) - 1 + 1
        BY <3>1, FS_Interval
      <3>3. QED
        BY <1>2, <3>2
    <2>8. QED
      BY <2>6, <2>7, FS_Injection
  <1>6. Cardinality(L) \in Nat /\ Cardinality(B) \in Nat
    BY <1>3, FS_CardinalityType
  <1>7. AtMost(s, n, v) = Cardinality(L) /\ Below(s, n, v) = Cardinality(B)
    BY DEF AtMost, Below
  <1>8. QED
    BY <1>2, <1>4, <1>5, <1>6, <1>7 DEF Placed

(* A percentile of the sorted latencies is one of them; its share of them  *)
(* is at or below it, and no more than its share is below.                 *)
LEMMA PercentileSound ==
  ASSUME NEW s \in Seq(Int), NEW n \in Nat, n = Len(s), n > 0,
         NEW pct \in Percents, NEW v, v = Percentile(Sorted(s), pct)
  PROVE  /\ \E i \in 1..n : s[i] = v
         /\ 100 * AtMost(s, n, v) >= pct * n /\ 100 * Below(s, n, v) <= pct * n
  <1>1. s \in [1..n -> Int]
    OBVIOUS
  <1>2. PICK r \in 1..n : r = Rank(n, pct) /\ 100 * r >= pct * n /\ 100 * (r - 1) <= pct * n
    <2>1. /\ Rank(n, pct) \in 1..n
          /\ 100 * Rank(n, pct) >= pct * n
          /\ 100 * (Rank(n, pct) - 1) <= pct * n
      BY RankFacts
    <2>2. QED
      BY <2>1, Zenon
  <1>3. PICK p \in Bijection(1..n, 1..n) :
               Sorted(s) = [i \in 1..n |-> s[p[i]]] /\ InOrder(s, p, n)
    BY SortedFacts
  <1>4. v = s[p[r]]
    <2>1. \A i \in 1..n : s[p[i]] \in Int
      BY <1>1 DEF Bijection, Injection
    <2>2. Sorted(s) \in [1..n -> Int]
      BY <1>3, <2>1
    <2>3. Sorted(s) \in Seq(Int) /\ Len(Sorted(s)) = n
      BY <2>2
    <2>4. Sorted(s) # <<>>
      BY <2>3
    <2>5. v = Sorted(s)[r]
      BY <1>2, <2>3, <2>4 DEF Percentile
    <2>6. QED
      BY <1>3, <2>5
  <1>5. /\ \E i \in 1..n : s[i] = v
        /\ AtMost(s, n, v) \in Nat /\ r <= AtMost(s, n, v)
        /\ Below(s, n, v) \in Nat /\ Below(s, n, v) <= r - 1
    <2>1. Arranged(s, p, n)
      BY <1>1, <1>3 DEF Arranged
    <2>2. Placed(s, n, r, v)
      BY <1>4, <2>1, PlaceInOrder
    <2>3. QED
      BY <2>2 DEF Placed
  <1>6. 100 * AtMost(s, n, v) >= pct * n /\ 100 * Below(s, n, v) <= pct * n
    <2> DEFINE share == pct * n
    <2>1. share \in Int /\ r \in Int
      BY DEF Percents
    <2>2. 100 * r >= share /\ 100 * (r - 1) <= share
      BY <1>2, Zenon
    <2> HIDE DEF share
    <2>3. 100 * AtMost(s, n, v) >= share /\ 100 * Below(s, n, v) <= share
      BY <1>5, <2>1, <2>2
    <2>4. QED
      BY <2>3, Zenon DEF share
  <1>7. QED
    BY <1>5, <1>6

(* The report of a batch is a sound summary of it (MetricsSound): the      *)
(* percentiles mean what their names say for every number of tasks, and    *)
(* the share of context sent never exceeds the whole.                      *)
THEOREM ReportsAreSound == Spec => []MetricsSound
  <1> DEFINE s == stats.latencies
             Sound(v, pct) ==
               /\ \E i \in 1..Len(s) : s[i] = v
               /\ 100 * AtMost(s, Len(s), v) >= pct * Len(s)
               /\ 100 * Below(s, Len(s), v) <= pct * Len(s)
  <1>1. IInv => MetricsSound
    <2>1. SUFFICES ASSUME IInv PROVE MetricsSound
      OBVIOUS
    <2>2. /\ s \in Seq(Int) /\ stats.sent <= stats.full
          /\ scenario \notin UsesScd => stats.sent = stats.full
          /\ pc = "done" => report = Summary(s)
      BY <2>1 DEF IInv, Counts, StatsOK, Reported
    <2>3. ASSUME pc = "done", Len(s) > 0
          PROVE  Sound(report.p50, 50) /\ Sound(report.p95, 95) /\ Sound(report.p99, 99)
      <3>1. /\ report.p50 = Percentile(Sorted(s), 50)
            /\ report.p95 = Percentile(Sorted(s), 95)
            /\ report.p99 = Percentile(Sorted(s), 99)
        BY <2>2, <2>3 DEF Summary
      <3>2. s \in Seq(Int) /\ Len(s) \in Nat /\ Len(s) > 0
        BY <2>2, <2>3
      <3> HIDE DEF s
      <3>3. \A pct \in Percents : Sound(Percentile(Sorted(s), pct), pct)
        BY <3>2, PercentileSound
      <3> HIDE DEF Sound
      <3>4. QED
        BY <3>1, <3>3 DEF Percents
    <2>4. QED
      BY <2>2, <2>3 DEF MetricsSound, AtMost, Below
  <1>2. QED
    BY <1>1, Invariance, PTL

=============================================================================
