----------------------------- MODULE Simulation -----------------------------
(***************************************************************************)
(* The benchmark harness (crates/atp-sim): run_scenario sends a batch of   *)
(* generated tasks through simulated agents under one of seven strategies  *)
(* and reports metrics.                                                    *)
(*                                                                         *)
(* A task is processed in the steps of the code's control flow, one per    *)
(* simulated execution; each execution may fail.  What an execution's      *)
(* sampled quality is worth only feeds select_best_agent's score, whose    *)
(* weights the model leaves open: a quality is represented by the agents   *)
(* it was sampled from.  Latencies are each agent's mean.                  *)
(***************************************************************************)
EXTENDS Integers, Sequences, FiniteSets, Functions

CONSTANTS
  Network,       \* SimulatedNetwork.agents: a sequence of records, see AgentOf
  TaskType,      \* task categories
  Complex,       \* those is_complex_task() holds of
  ContextSizes,  \* full_context_size of a batch
  MaxTasks       \* bound on the length of a batch

Scenarios == {"Sequential", "RoundRobin", "FullAtp", "AtpNoContext",
              "AtpNoRouting", "AtpNoTrust", "AtpNoFault"}

(* The strategies that compress context, route, refine drafts and recover. *)
UsesScd == {"FullAtp", "AtpNoRouting", "AtpNoTrust", "AtpNoFault"}
UsesRouting == {"FullAtp", "AtpNoContext", "AtpNoFault"}
Recovers == {"FullAtp", "AtpNoContext", "AtpNoRouting", "AtpNoTrust"}

(* AgentArchetypes: mean quality in percent, mean latency in ms, cost in   *)
(* cents.  Every archetype fails with some probability and succeeds with   *)
(* some.                                                                   *)
Archetype ==
  [budget     |-> [quality |-> 65, latency |-> 500,  cost |-> 1],
   standard   |-> [quality |-> 82, latency |-> 2000, cost |-> 5],
   premium    |-> [quality |-> 95, latency |-> 5000, cost |-> 15],
   specialist |-> [quality |-> 93, latency |-> 1500, cost |-> 8],
   unreliable |-> [quality |-> 80, latency |-> 1000, cost |-> 3]]

ASSUME SimulationAssumption ==
  /\ Network # <<>>
  /\ Network \in Seq([kind : DOMAIN Archetype, types : SUBSET TaskType])
  /\ Complex \subseteq TaskType
  /\ ContextSizes \subseteq Nat /\ MaxTasks \in Nat

(* An agent of the network: its archetype and the task types it serves.    *)
AgentOf(n) == Network[n]
Agents == DOMAIN Network
Capability(n) == Archetype[AgentOf(n).kind]

VARIABLES
  scenario,      \* the strategy under test
  tasks,         \* the batch: task types still to be processed
  size,          \* full_context_size of its tasks
  pc,            \* where run_scenario stands
  selected,      \* the agent selected for the current task
  backups,       \* agents handle_fault_recovery has still to try
  stats,         \* the accumulators, see NoStats
  rr_counters,   \* round robin position per task type
  trust_scores,  \* recorded qualities per agent and task type: how many
  history,       \* executions so far, see NoHistory
  report         \* the BenchMetrics returned

vars == <<scenario, tasks, size, pc, selected, backups, stats, rr_counters,
          trust_scores, history, report>>
batch == <<scenario, size>>

(* latencies and qualities (the agents each was sampled from) in the order *)
(* they were pushed; recovery times are finite or not.                     *)
NoStats ==
  [completed |-> 0, failed |-> 0, latencies |-> <<>>, qualities |-> <<>>,
   total_cost |-> 0, sent |-> 0, full |-> 0, recovery |-> {}]

(* Which executions the metrics should account for: who succeeded at what, *)
(* who failed at the current task, and the number of tasks taken from the  *)
(* batch.                                                                  *)
NoHistory ==
  [ran |-> [n \in Agents |-> [t \in TaskType |-> 0]],
   lost |-> {},
   taken |-> 0]

NoReport == [p50 |-> 0, p95 |-> 0, p99 |-> 0]

-----------------------------------------------------------------------------
(* Costs, sizes and latencies.                                             *)

(* In 1/2800 cent: 55 percent of the cost shrinks 28 times with context.   *)
EffectiveCost(cost) ==
  cost * (IF scenario \in UsesScd THEN 2800 - 55 * 27 ELSE 2800)

(* ceil(full / 28).                                                        *)
Compressed(full) == (full + 27) \div 28

ContextSize == IF scenario \in UsesScd THEN Compressed(size) ELSE size

TransferLatency ==
  IF ContextSize > 10000 THEN (ContextSize * 50) \div 10000 ELSE 10

RecoveryLatency == 500
FailureLatency == 100

-----------------------------------------------------------------------------
(* Selection.                                                              *)

(* Lists of agents keep the order of the network: a list is the set of its *)
(* agents, who are numbers.                                                *)
CapableAgents(t) == {n \in Agents : t \in AgentOf(n).types}

First(ns) == CHOOSE n \in ns : \A m \in ns : n <= m

(* The agent at a place of the list, counted from 0.                       *)
At(ns, place) == {n \in ns : Cardinality({m \in ns : m < n}) = place}

(* min_by keeps the first of equals.                                       *)
Cheapest(ns) ==
  LET cost(n) == Capability(n).cost
  IN First({n \in ns : \A m \in ns : cost(n) <= cost(m)})

QualityFloor(t) == IF t \in Complex THEN 85 ELSE 82

(* select_best_agent: the best score among those above the floor, or among *)
(* all when none is; the score, which blends trust in, is left open.       *)
Candidates(ns, t) ==
  LET qualifying == {n \in ns : Capability(n).quality >= QualityFloor(t)}
  IN IF qualifying = {} THEN ns ELSE qualifying

NextCounters(t) == [rr_counters EXCEPT ![t] = @ + 1]

Selections(ns, t) ==
  CASE scenario = "Sequential"   -> {First(ns)}
    [] scenario = "RoundRobin"   -> At(ns, rr_counters[t] % Cardinality(ns))
    [] scenario \in UsesRouting  -> Candidates(ns, t)
    [] scenario = "AtpNoRouting" -> ns
    [] scenario = "AtpNoTrust"   -> {Cheapest(ns)}

UsesDraftRefine(t, n) ==
  /\ scenario \in UsesRouting /\ t \in Complex
  /\ Capability(n).quality >= 85

-----------------------------------------------------------------------------
(* Bookkeeping.                                                            *)

Task == Head(tasks)

Cost(from) ==
  IF Len(from) = 1 THEN EffectiveCost(Capability(from[1]).cost)
  ELSE EffectiveCost(Capability(from[1]).cost)
       + EffectiveCost(Capability(from[2]).cost)

(* Slip: the draft's quality is not recorded.                              *)
RecordsLastOnly(from) ==
  [trust_scores EXCEPT ![from[Len(from)]][Task] = @ + 1]

(* The agents that contributed are trusted for what they delivered.        *)
Recorded(from) ==
  IF Len(from) = 1
  THEN [trust_scores EXCEPT ![from[1]][Task] = @ + 1]
  ELSE [[trust_scores EXCEPT ![from[1]][Task] = @ + 1]
          EXCEPT ![from[2]][Task] = @ + 1]

(* On to the next task of the batch.                                       *)
NextTask ==
  /\ tasks' = Tail(tasks)
  /\ pc' = "task"
  /\ selected' = 0
  /\ backups' = {}

(* The task is completed in `latency` by executions of `from`.             *)
Complete(latency, from) ==
  /\ NextTask
  /\ stats' = [stats EXCEPT
       !.completed = @ + 1,
       !.latencies = Append(@, latency + TransferLatency),
       !.qualities = Append(@, from),
       !.total_cost = @ + Cost(from)]
  /\ trust_scores' = Recorded(from)

(* Slip: without fault tolerance the task is forgotten.                    *)
ForgetTask ==
  /\ NextTask
  /\ stats' = [stats EXCEPT !.recovery = @ \cup {"infinite"}]
  /\ UNCHANGED trust_scores

FailWithoutRecovery ==
  /\ NextTask
  /\ stats' = [stats EXCEPT !.failed = @ + 1,
                            !.recovery = @ \cup {"infinite"}]
  /\ UNCHANGED trust_scores

(* Slip: recovery tries the agents listed after the failed one only.       *)
LaterOnly(n) == {m \in CapableAgents(Task) : m > n}

Others(n) == CapableAgents(Task) \ {n}

(* handle_fault_recovery(n): its loop runs step by step.                   *)
HandleFaultRecovery(n) ==
  IF scenario \in Recovers
  THEN /\ pc' = "recover"
       /\ backups' = Others(n)
       /\ UNCHANGED <<tasks, selected, stats, trust_scores>>
  ELSE FailWithoutRecovery

(* SimulatedAgent::execute_task: success or failure of agent n.            *)
Executed(n, ok) ==
  history' = IF ok THEN [history EXCEPT !.ran[n][Task] = @ + 1]
                   ELSE [history EXCEPT !.lost = @ \cup {n}]

-----------------------------------------------------------------------------
(* run_scenario.                                                           *)

(* TaskGenerator::generate: a batch of any task types, one context size.   *)
Batches == UNION {[1..n -> TaskType] : n \in 0..MaxTasks}

Init ==
  /\ scenario \in Scenarios /\ tasks \in Batches /\ size \in ContextSizes
  /\ pc = "task" /\ selected = 0 /\ backups = {}
  /\ stats = NoStats
  /\ rr_counters = [t \in TaskType |-> 0]
  /\ trust_scores = [n \in Agents |-> [t \in TaskType |-> 0]]
  /\ history = NoHistory
  /\ report = NoReport

NoneCapable ==
  /\ pc = "task" /\ tasks # <<>> /\ CapableAgents(Task) = {}
  /\ NextTask
  /\ stats' = [stats EXCEPT !.failed = @ + 1]
  /\ history' = [history EXCEPT !.taken = @ + 1, !.lost = {}]
  /\ UNCHANGED <<batch, rr_counters, trust_scores, report>>

Select(n) ==
  /\ pc = "task" /\ tasks # <<>> /\ CapableAgents(Task) # {}
  /\ n \in Selections(CapableAgents(Task), Task)
  /\ selected' = n
  /\ rr_counters' = IF scenario = "RoundRobin" THEN NextCounters(Task)
                    ELSE rr_counters
  /\ stats' = [stats EXCEPT !.sent = @ + ContextSize, !.full = @ + size]
  /\ history' = [history EXCEPT !.taken = @ + 1, !.lost = {}]
  /\ pc' = IF UsesDraftRefine(Task, n) THEN "draft" ELSE "single"
  /\ UNCHANGED <<batch, tasks, backups, trust_scores, report>>

Drafter == Cheapest(CapableAgents(Task))

Latency(n) == Capability(n).latency

(* The selected agent alone, either from the start or after the draft      *)
(* failed.                                                                 *)
ExecuteSelected(ok) ==
  /\ pc \in {"single", "direct"}
  /\ Executed(selected, ok)
  /\ IF ok THEN Complete(Latency(selected), <<selected>>)
           ELSE HandleFaultRecovery(selected)
  /\ UNCHANGED <<batch, rr_counters, report>>

ExecuteDraft(ok) ==
  /\ pc = "draft"
  /\ Executed(Drafter, ok)
  /\ pc' = IF ok THEN "refine" ELSE "direct"
  /\ UNCHANGED <<batch, tasks, selected, backups, stats, rr_counters,
                 trust_scores, report>>

(* A failed refinement leaves the draft as the result.                     *)
ExecuteRefine(ok) ==
  /\ pc = "refine"
  /\ Executed(selected, ok)
  /\ IF ok THEN Complete(Latency(Drafter) + Latency(selected),
                         <<Drafter, selected>>)
           ELSE Complete(Latency(Drafter), <<Drafter>>)
  /\ UNCHANGED <<batch, rr_counters, report>>

(* One turn of handle_fault_recovery's loop.                               *)
ExecuteBackup(ok) ==
  LET n == First(backups)
  IN /\ pc = "recover" /\ backups # {}
     /\ Executed(n, ok)
     /\ IF ok
        THEN /\ NextTask
             /\ stats' = [stats EXCEPT
                  !.completed = @ + 1,
                  !.latencies = Append(@, FailureLatency + Latency(n)
                                          + RecoveryLatency + TransferLatency),
                  !.qualities = Append(@, <<n>>),
                  !.total_cost = @ + Cost(<<n>>),
                  !.recovery = @ \cup {"finite"}]
             /\ trust_scores' = Recorded(<<n>>)
        ELSE /\ backups' = backups \ {n}
             /\ stats' = [stats EXCEPT !.recovery = @ \cup {"finite"}]
             /\ UNCHANGED <<tasks, pc, selected, trust_scores>>
     /\ UNCHANGED <<batch, rr_counters, report>>

(* ... which ends without success: not retried.                            *)
GiveUp ==
  /\ pc = "recover" /\ backups = {}
  /\ NextTask
  /\ stats' = [stats EXCEPT !.failed = @ + 1]
  /\ UNCHANGED <<batch, rr_counters, trust_scores, history, report>>

(* percentile(): the index, counted from 1.                                *)
Rank(n, pct) ==
  LET r == (n * pct) \div 100 + 1 IN IF r > n THEN n ELSE r

Percentile(sorted, pct) ==
  IF sorted = <<>> THEN 0 ELSE sorted[Rank(Len(sorted), pct)]

(* Slip: the latencies are reported in the order they came.                *)
Unsorted(s) == s

(* latencies.sort_by: the latencies rearranged in order.                    *)
Sorted(s) ==
  CHOOSE t \in {[i \in DOMAIN s |-> s[p[i]]] : p \in Bijection(DOMAIN s, DOMAIN s)} :
    \A i, j \in DOMAIN s : i < j => t[i] <= t[j]

Summary(latencies) ==
  [p50 |-> Percentile(Sorted(latencies), 50),
   p95 |-> Percentile(Sorted(latencies), 95),
   p99 |-> Percentile(Sorted(latencies), 99)]

(* The batch is done: sort the latencies and report.                       *)
Report ==
  /\ pc = "task" /\ tasks = <<>>
  /\ report' = Summary(stats.latencies)
  /\ pc' = "done"
  /\ UNCHANGED <<batch, tasks, selected, backups, stats, rr_counters,
                 trust_scores, history>>

Done == pc = "done" /\ UNCHANGED vars

Next ==
  \/ NoneCapable
  \/ \E n \in Agents : Select(n)
  \/ \E ok \in BOOLEAN :
       \/ ExecuteSelected(ok) \/ ExecuteDraft(ok)
       \/ ExecuteRefine(ok) \/ ExecuteBackup(ok)
  \/ GiveUp \/ Report \/ Done

Spec == Init /\ [][Next]_vars

-----------------------------------------------------------------------------
(* No task is lost or counted twice, whichever of the six ways through the *)
(* loop it takes: what was taken from the batch is completed, failed or    *)
(* under way, and every completed task has one latency and one quality.    *)
TasksAccounted ==
  /\ stats.completed + stats.failed
       = history.taken - (IF pc \in {"task", "done"} THEN 0 ELSE 1)
  /\ Len(stats.latencies) = stats.completed
  /\ Len(stats.qualities) = stats.completed

(* Between tasks every successful execution, the draft's included, has     *)
(* been recorded as trust exactly once, and no failed one has.             *)
TrustIsEarned ==
  pc \in {"task", "done"} => trust_scores = history.ran

(* A strategy with fault recovery reports a task as failed only after      *)
(* every capable agent has failed on it (handle_fault_recovery).           *)
FailsOnlyExhausted ==
  [][stats'.failed > stats.failed /\ scenario \in Recovers =>
       \A n \in Agents : Task \in AgentOf(n).types => n \in history'.lost]_vars

(* What run_scenario reports is a sound summary.  context_efficiency is a  *)
(* share: compression never sends more than the full context, and leaving  *)
(* it out sends exactly that.  A percentile is an observed latency with at *)
(* least its share of the latencies at or below it and no more than that   *)
(* share below it.                                                         *)
MetricsSound ==
  LET n == Len(stats.latencies)
      AtMost(v) == Cardinality({i \in 1..n : stats.latencies[i] <= v})
      Below(v) == Cardinality({i \in 1..n : stats.latencies[i] < v})
      Sound(v, pct) ==
        /\ \E i \in 1..n : stats.latencies[i] = v
        /\ 100 * AtMost(v) >= pct * n /\ 100 * Below(v) <= pct * n
  IN /\ stats.sent <= stats.full
     /\ scenario \notin UsesScd => stats.sent = stats.full
     /\ pc = "done" /\ n > 0 =>
          /\ Sound(report.p50, 50) /\ Sound(report.p95, 95)
          /\ Sound(report.p99, 99)
=============================================================================
