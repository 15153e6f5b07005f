# TLA+ models of the Agent Transport Protocol

The Agent Transport Protocol (ATP) is a Rust workspace (`src/crates/`) in which
agents identify each other, negotiate contracts, compress the context of a task,
choose a route and survive failures. This directory holds TLA+ modules that model
its stateful core, TLC configurations that check them on small instances, and
proofs that TLAPS checks for every value of the constants.

Contents: [inventory](#1-the-system), [plan](#2-plan),
[modules and code](#3-modules-and-code), [runs](#4-runs), [fairness](#5-fairness),
[proofs](#6-proofs), [findings](#7-findings), [limits](#8-what-is-not-shown).

## 1. The system

Five layers over plain data types; a node (`atp-node`) owns one instance of each
component and a dispatcher that hands incoming messages to them.

| Component (crate) | State | Operations that change it | Shared by |
|---|---|---|---|
| Identity, trust, sybil guard (L1, `atp-identity`) | identities and interaction records behind async `RwLock`s; scores are computed from the records on demand | register, remove, add_interaction | node, and everyone who holds a clone of the store |
| Capability registry (L2, `atp-handshake`) | index by task type, index by agent, both kept by hand | register, unregister, unregister_capability, update_trust | negotiation (reads), node |
| Negotiation (L2) | handshake state machine, attempt counter, current QoS | probe, collect offers, contract, relax and retry | one coordinator per task |
| Context (L3, `atp-context`) | the sender's chunks; the receiver's diff, round counter and received indices | extraction, evaluate, handle_request, merge_chunks, reset | sender and receiver, by CONTEXT_REQUEST messages |
| Routing (L4, `atp-routing`) | agent graph: nodes, availability, edges | add_agent, add_edge and its variants, remove/restore_agent; find_route and find_routes read | node |
| Circuit breaker (L5, `atp-fault`) | per agent: state, consecutive failures, time of the last change | allow_request, record_success, record_failure, reset | every thread of the node, and peers' messages |
| Heartbeat monitor, load tracker (L5) | per agent: status, last sequence number, last seen; queue depth | record_heartbeat, check_all, remove_agent; update_from_* | handlers and the checker task |
| Poison detector (L5) | poisoned tasks; failure records per task | record_failure, force_poison, clear | worker threads |
| Checkpoint store (L5) | newest checkpoint per task; history per task | save, remove; failover reads | worker threads |
| Node, dispatcher (`atp-node`) | owns the above | execute_task, one handler per message type | - |
| Transport (`atp-transport`) | per call: the request, the handler's future, the answer; for streams a task and a bounded channel | ten RPCs with custom or default handlers; conversion of every message to and from protobuf | client and server, over a connection |
| Simulation harness (`atp-sim`) | accumulators, round robin counters, recorded trust | run_scenario under seven strategies | - |

How they interact. `handle_heartbeat` writes the monitor, then the tracker, then
asks the tracker for its answer. `handle_task_submit` asks the breaker and never
reports an outcome to it; `handle_task_result` and `handle_circuit_break` report
outcomes for requests the breaker never saw. `execute_task` runs poison check,
negotiation, breaker, context, route (for its log only), checkpoint, breaker
report, checkpoint removal and trust update, in this order; the trust ends up in
the capability registry, where the next negotiation reads it.

What is hard here:

* *Concurrency.* The fault-tolerance components are shared by threads through
  `RwLock`s. The breaker takes its one lock once per method. The checkpoint store,
  the poison detector and the heartbeat handler use two or three locks one after
  the other, so other calls run between the parts of one method. `now` is often
  read before the lock that guards what it is compared with.
* *Unreliable delivery.* Heartbeats are lost, duplicated and reordered; context
  requests and answers are lost or late; outcomes are reported for a breaker that
  has changed since the request.
* *Time and retries.* Cool-downs, detection windows, silence timeouts, offers that
  expire, a negotiation that relaxes its own constraints, a bounded number of
  refinement rounds.
* *Dropped futures.* `register_agent` and `execute_task` write several structures
  with awaits in between; a caller may drop them at any of these. A client that
  drops a call leaves a handler and perhaps a streaming task behind.
* *Numeric rules at their boundary.* Thresholds, halving batches, scores, Pareto
  dominance, Bellman-Ford over agents with free edges and ties.

What makes each part correct is stated by the properties of section 4; the hazards
they are aimed at, each at its line, are in `PROJECT.json`.

## 2. Plan

Done, in this order:

1. `BreakerOps`, `CircuitBreaker`, `BreakerProtocol`: the component all layers ask
   for permission; abstract protocol and refinement; proofs.
2. `CheckpointStore` with proofs; `PoisonDetector`: methods split at their locks.
3. `HeartbeatMonitor`: monitor, tracker, handler, network.
4. `Handshake`: registry, negotiation, contract.
5. `AdaptiveContext`: extraction, refinement rounds, lossy requests.
6. `RouteCost`, `ShortestPaths`, `RouteSearch`, `Routing`: cost model, Bellman-Ford,
   front, patterns, graph, `find_route` and `find_routes`.
7. `Trust`, `Node`: the scores of layer 1, and `register_agent` and `execute_task`
   across identity store, registry and graph, with dropped calls; proofs.
8. `Codec`, `Transport`: every message's conversion, every RPC, the streaming task.
9. `Simulation`: `run_scenario` and its report; proofs.
10. Proofs for `PoisonDetector`, `HeartbeatMonitor` and `Handshake`.
11. `SumTheorems`: induction and sums over finite sets; with it proofs of the scores
    of `Trust`, the report of `Simulation`, `AdaptiveContext`, and the relaxation of
    `Handshake`. Proofs for `Codec` and `Transport`.
12. `RoutingProofs`: Bellman-Ford, the front, the patterns and the answers.

Next, most important first:

1. An abstract specification of failure detection that `HeartbeatMonitor`
   implements, with agents that restart and number their heartbeats anew.
2. `handle_probe` and `register_capability` of the dispatcher, in `Node`.
3. The standalone `generate_context_request` and `apply_diff` in `AdaptiveContext`.

## 3. Modules and code

| Module | Models | Composition |
|---|---|---|
| `BreakerOps` | what each breaker method does to one entry (`circuit_breaker.rs`) | extended by modules that call a breaker |
| `BreakerProtocol` | the abstract protocol: Closed, Cooling, Cooled, HalfOpen | instantiated by `CircuitBreaker` |
| `CircuitBreaker` | the breakers of a node, its callers, peers' messages (`dispatcher.rs`) | extends `Agents`, `BreakerOps` |
| `HeartbeatMonitor` | `heartbeat.rs`, `backpressure.rs`, the dispatcher's handlers, the network | extends `Agents` |
| `CheckpointStore` | `checkpoint.rs` | extends `Workers` |
| `PoisonDetector` | `poison.rs` | extends `Workers` |
| `FaultProofs` | theorems about layer 5 | extends the four modules above |
| `Agents`, `Workers` | the agents, tasks and threads of layer 5 | |
| `SumTheorems` | induction over numbers and finite sets, and lemmas about sums and ranks | extended by the proofs about `Handshake`, `Node`, `Simulation`, `AdaptiveContext`, `Routing` |
| `Handshake`, `HandshakeProofs` | `registry.rs`, `negotiation.rs`, `offer.rs`, `contract.rs`, `qos` relaxation; theorems | `Handshake` is instantiated by `Node` |
| `AdaptiveContext`, `AdaptiveContextProofs` | `extraction.rs`, `differential.rs`, `adaptive.rs` and the requests' network; theorems | |
| `RouteCost` | `cost.rs`, dominance and front of `optimizer.rs` | extended by `RouteSearch` |
| `ShortestPaths` | `bellman_ford_single` | extended by `RouteSearch` |
| `RouteSearch` | `bellman_ford.rs`, `optimizer.rs`, `patterns.rs`, what `lib.rs` computes from a graph | extended by `Routing` |
| `Routing`, `RoutingProofs` | `graph.rs`, `find_route`, `find_routes`; theorems | |
| `Trust` | `trust.rs`, `sybil.rs`: scores as operators on a bag of records | extended by `Node` |
| `Node`, `NodeProofs` | `node.rs`, `store.rs`, two handlers of `dispatcher.rs`; theorems | extends `Trust`, instantiates `Handshake` |
| `Codec` | `codec.rs`: the conversion of every field kind, and the schemas of the messages | extended by `Transport` |
| `Transport`, `TransportProofs` | `client.rs`, `server.rs`; theorems | extends `Codec` |
| `Simulation`, `SimulationProofs` | `harness.rs`, `agent.rs`, `network.rs`, `task_gen.rs`; theorems | |

An `MC` module gives the sets of a component their values for TLC. `MCWorkers` does so
for the checkpoint store and the poison detector, which share no state: its behaviours
leave one of the two in its initial state while the other runs. `PROJECT.json` maps
every definition to its lines.

Conventions. A method under one lock is one action. A method that takes several
locks one after the other is several actions, with the calls under way in a
variable (`saving`, `removing`, `checked`, `condemning`, `clearing`, `handlers`,
`handling`). An async call is split where it suspends.
An instant that the code only compares with `now` is kept as an age in ticks, up
to the age from which nothing changes any more, which makes the state space finite
without bounding the length of a run. Variables marked *history* are read by
properties only. Definitions under "Slips" are plausible mistakes, one for each
property, that the property must catch; no specification uses them.
The definitions of `CircuitBreaker`, `CheckpointStore` and `PoisonDetector` that every
specification has (`BreakerInit`, `StoreNext`, `PoisonSpec`, ...) carry the component's
name, so that one module can hold the theorems about several components.

**Circuit breaker.** `breakers[a]` is the entry of agent `a`; the map is total
because a missing entry behaves like a fresh one everywhere. `grants` are the
requests that `allow_request` admitted. `AllowRequest`, `RecordSuccess`,
`RecordFailure` and `Reset` are the methods. `ReportSuccess`/`ReportFailure` end an
admitted request, `Abandon` is `handle_task_submit`, which reports nothing, and
`PeerSuccess`/`PeerFailure` are `handle_task_result` and `handle_circuit_break`.
`Cooldown` is at least one tick; the unit tests also construct breakers with a
cool-down of zero, for which OPEN is not observable between a failure and the next
request.

**Checkpoint store.** `save` is `SaveHistory` then `SaveStore`, `remove` is
`RemoveStore` then `RemoveHistory`, in the code's lock order. `done` remembers the
saves completed since the task was last dropped.

**Poison detector.** `record_failure` is `RecordLookup`, `RecordPush`,
`RecordCondemn`; `clear` is `ClearPoisoned`, `ClearFailures`. Records of the same
agent and age are one element of a set: the code counts distinct agents only.
`MaxWait`, the longest wait for the lock, is at most the window (60 s by default).

**Heartbeat monitor.** `handle_heartbeat` is `Deliver` (which has read `now`),
`Record`, `UpdateLoad`, `TestOverload`, `Reply`. `check_all` is `CheckStart` (reads
`now`) and `CheckAll`. `net` keeps every heartbeat ever sent: delivery is any
element at any time, any number of times, or never. The first heartbeat of an agent
makes an entry with sequence number 0, so one numbered 0 creates the entry without
passing the test for a newer number: `Recorded` keeps this. The wall clock does not
step back in the model.

**Handshake.** `negotiate` borrows the registry, so registry operations happen
between calls. The call is split at the transitions of the state machine: `Probe`,
`NoneCapable`, `AllExpired`, `CollectOffers`, `Accept`, `RefuseReuse`. Offers may
expire in any combination (`valid` is any non-empty subset). Quality and trust are
hundredths; with the run's 50% relaxation and values every relaxed number is whole.
The vectors of the indexes are sets; their order only breaks ties between equal
scores, which the model leaves open. `negotiate_async` wraps the same synchronous
call in a timeout that cannot fire while the call does not yield. The expiry date
of a contract is written and never read, so it has no counterpart.

**Adaptive context.** A chunk is its index; the similarity that the embeddings
yield is chosen with the task. The sort of `extract_msc` and `merge_chunks` is
written by rank: an element's place is the number of those that come no later, which
for a stable sort includes equal ones with a smaller position. `confidence` is a
fraction. `Evaluate` has the branches of `evaluate` in
their order; the round counter grows before the missing chunks are looked at, as in
the code. `Lose` drops a request or an answer, and `Evaluate` may run again before
an answer is merged. The relevance threshold lies below the confidence threshold,
as the defaults (0.3 and 0.7) do; with the opposite order `NoRoundHelps` would be
false. `AnsweredSpec` is refinement at its best, for one task: no call fails and every
answer is merged before the next evaluation.

**Routing.** Quality, latency and cost of capabilities and constraints are tenths of
their reference values. The metrics of a route have finer units, in which those of up
to three agents are exact; of longer ones, products and expectations are rounded down,
where the code has floating point numbers. A node's index is its
place in the order of `add_agent`; removal only marks it unavailable. Bellman-Ford
is written with its sweeps, predecessors and path reconstruction. The arrays `dist` and
`pred` are one function, the tree, whose domain is the agents that have been reached:
the others are at distance INFINITY and have no predecessor. The exit after a sweep
without an update leaves out sweeps that change nothing. The sorts of the patterns are
written by rank, as in `AdaptiveContext`. The cap on
parallel agents (3 in the code), the cascade's depth (4), 500 ms and the overheads
are constants, so that a graph of three agents reaches the truncations. Where the
code iterates over a hash map, every order's result is possible. An empty graph
gives no route. `FindRoutes` returns a set: the routes of all patterns and those of
Bellman-Ford, one for each list of agents, the `MaxRoutes` cheapest, any of several
at the same price. A caller takes its answer before it changes the
graph, so an answer is always judged against the graph it was computed from.

**Trust.** A record has an evaluator, a subject, a task type, a quality in
hundredths and an age in days. `Decay` is the table of `e^(-lambda * days)`, which
does not grow with age and ends in 0, as the floating point value does. An age below
zero is a record stamped in this node's future, which counts as fresh. Records are a
bag: no score depends on their order; `Count` is its size and sums go over its
distinct records, each times its number. `Numerator` and `Denominator` are the sums of
`weighted_average`; `AggregateTrust` repeats the formula, as the code does. A quality
that is not a number is outside the model.

**Node.** `register_agent` is `RegisterIdentity` (store), `FileCapabilities`
(aggregate trust, registry and graph) and `ConnectAgent` (list the agents, add the
links); `execute_task` is `ExecuteTask`, `RecordInteraction`, `UpdateTrust`. Between
these steps the call is suspended, `Cancel` drops it, and the store's other users
write to it (`StoreRegister`, `StoreRemove`, `InteractionProof`). Both borrow the
node exclusively, so one is under way at a time, and no handler of TASK_RESULT.
Reading the aggregate and writing it to registry and graph are one action, because
the call does not suspend in between. What the other modules show of a layer is
used, not repeated: the registry is `Handshake`'s primary index; a negotiation
contracts any entry that meets the constraints after 0 to `MaxRetries` relaxations,
since offers may expire in any combination; the breaker may admit or reject any
request. An identity carries a list of capabilities (`AgentIdentity::capabilities`, a
vector that nothing checks), which may name a task type more than once. Store and
graph keep the list; `register` replaces the agent's entry of a type, so that of the
capabilities of one type the registry has the last (`Kept`). The checkpoint of
`execute_task` is saved and removed between two
suspensions, so no other call sees it. A call that fails in its checks changes
nothing here and has no action. `complete` and `current` are history: the
registrations that returned, and the trust that no later record has outdated.

**Transport.** A message is a record of fields, each of a *kind* that says how
`codec.rs` converts it (ids, enumerations, durations in milliseconds, timestamps,
optional parts, hashes of fixed length, embeddings); fields that are copied are one
`body`. `Encode` is the client's side, `Decodable` and `Decode` the server's, with a
code that is not known, an id that does not parse and a missing part refused and the
replacements of the code made. Durations are cut to milliseconds and wrap at the width
of a `u64` (`Width`); the dimensions of a probe's embedding are a `usize` that wraps at
the width of a `u32` (`HalfWidth`). A call goes through `Call`, `Receive`,
`HandlerReturns` or `HandlerFails`, `Answered`; `ForeignCall` is a peer whose message no
`AtpClient` would send. `stream_results` hands the results to a task that sends them one
by one through a bounded channel: `SendResult`, `ReceiverGone`, `AllSent`; the client
reads with `ReadResult` and `EndOfStream`. `Interrupt` is a failed connection or a
dropped future. tonic and the connection are external. What clients, handlers and peers
may send is a constant; `TransportAssumption` says that each message has the types of
its schema (`Typed`, `WireTyped`), as Rust's and protobuf's types ensure, and
`CodecAssumption` that every instant has a millisecond count that fits an `i64`.

**Simulation.** One action per simulated execution, with its success chosen. A
quality is represented by the agents it came from and a latency by the agent's mean;
costs are exact. The selection score is left open, so that `Select` may choose any
agent that `select_best_agent` could prefer. A list of agents keeps the order of the
network, so it is the set of their numbers; `Sorted` is any rearrangement of the
latencies in ascending order. `history` has the executions as they
happened, for the report to be compared with.

## 4. Runs

A *pass* run explores the whole state space of its instance.

| Run | What it shows |
|---|---|
| `breaker` | Two callers, two agents, peers' messages, reports that come late. `ClosedCountsExactly`: a CLOSED entry counts exactly the failures since the last success or reset. `CooldownRespected`: HALF_OPEN only a full cool-down after the last trip. `ImplementsProtocol`: the refinement. `OpenIsProbed`: rejected requests do not postpone the probe. |
| `worker_locks` | The checkpoint store: `ResumesFromNewest`: a failover sees a checkpoint at least as new as every completed save, whatever order concurrent saves take the locks in. `NoOrphanHistory`: the opposite lock orders of `save` and `remove` leave no history without a checkpoint. The poison detector: `CondemnedFairly`: the records that condemn lie within one window although `now` is read early. `NoMissedPoison`: pruning and the gaps between the locks lose no evidence. |
| `heartbeat` | `SuspicionJustified`: no suspicion without silence, up to the wait for a lock. `RevivalIsNews`: only a newer heartbeat revives. `FailureDetected`: a crashed agent is declared dead however its old heartbeats are delivered. |
| `handshake` | Two agents, two task types. `IndexesAgree`: the two indexes kept by hand hold the same. `LeastRelaxation`: no contract under weaker terms than needed. `ContractUndominated`: no offer is turned down for one that is worse and nowhere better. `NegotiationEnds`. |
| `context` | `NoDuplicateChunks`: answers that come late or twice add no chunk twice. `LowIsJustified`: LowConfidence only when no round or no chunk is left, also when a manager serves the next task. `AsksForWhatIsMissing`, and `RefinementEnds` although every request may be lost. |
| `routing` | `RouteIsSound`, `FailureIsFinal` (a failure means no path at all would do), `BellmanFordIsExact` (against the enumeration of all simple paths), `FrontSuffices`, `ListHoldsTheBest` (merged, deduplicated and cut, the list of `find_routes` still has a route as cheap as what `find_route` returns for any preference). |
| `node` | `LayersAgree`: after `register_agent` has returned, store and graph hold the same list, the registry the last capability of each type in it, and the agent is linked, whatever calls were dropped before. `RoutedIsRegistered`: not even a dropped registration leaves an agent routed for a task type it cannot be contracted for. `TrustIsCurrent`: the trust filed is that of all records, the last execution's included. `ScoresSound`: aggregate and scores by type, vouchers and sybil suspicion are consistent. |
| `transport` | `HandledAsSent`: what a handler gets is what the client was given, durations cut to the millisecond and never extended, and what exceeds the widths of the wire smaller than it was sent, never larger. `NothingGuessed`: no request of a foreign peer reaches a handler with a value it did not say, but for the replacements in the code. `OkIsTheAnswer`: Ok means all of the answer, in order. `CallEnds`, `NothingLeftBehind`: the bounded channel blocks nobody for ever, not even when the client has gone. |
| `simulation` | `TasksAccounted`, `TrustIsEarned`, `FailsOnlyExhausted` (with recovery, a task fails only after every capable agent failed on it), `MetricsSound` (percentiles, context efficiency). |
| `breaker_single_probe`, `handshake_agreed`, `context_refinement` | Violations, section 7. |

`breaker` (`BreakerTypeOK`) and `node` also check their type invariant; those of
`CheckpointStore`, `PoisonDetector`, `HeartbeatMonitor` and `Handshake` are proved, and
the proofs about the other modules establish the types they need.

In `routing`, `FrontSuffices` says more about the code than that it is right: the
fallback from the front to all candidates in `select_top_routes` never finds a route.
In the same graphs a Bellman-Ford path of several agents is dominated by one of its
agents alone unless the others are perfect and free, since a pipeline multiplies
qualities and adds latencies and costs.

Bounds, and why they are enough:

* `breaker`: threshold 2 and cool-down 2 are the least for which "one below" and
  "part of a cool-down" exist; two callers are enough for one to be late while the
  other changes the state; `MaxFailures` = 4 lets an OPEN breaker count beyond the
  threshold. Entries of different agents do not interact; the second agent is there
  for requests to be spread.
* `worker_locks`: two workers, so that one call is half way in another;
  one task, as tasks share no state; two versions and two agents, and equal ones
  occur; a history of three, one more than the workers can have in progress; window
  and wait of two ticks, so that a record can be older than, as old as and younger
  than the window when it is counted.
* `heartbeat`: two handlers overtake each other with two heartbeats (numbers 0 and
  1, the first creating the entry), each delivered any number of times. Ages
  saturate at `2 * Timeout + MaxStall + 1`, beyond which every verdict is Dead.
* `handshake`: two retries, and capabilities that qualify at once, after one and
  after two relaxations; raw trust values on both sides of the clamp; constraints
  with a cost bound of zero, and a free capability that meets them.
* `context`: five chunks, of which two are sent, leave a gap of three: a batch that
  rounds; three rounds are one more than the gap needs. Relevances below, between
  and above the thresholds. `context_refinement` sends three, with these
  relevances the least number whose mean can be below the confidence threshold although
  one of them reaches it.
* `routing`: three agents give paths with an intermediate agent, for which a sweep
  too few is wrong, and a set larger than `Parallelism` and `CascadeDepth`. Profiles
  differ in each of the three dimensions and one lacks the capability; a latency of
  0 gives free edges. Lists of two (`MaxRoutes`; 10 in the code) are shorter than what is
  found. The caller connects different agents only.

* `node`: this node and two peers, one of them able to vouch for the other. Two
  lists of capabilities: one of two task types, and one that names a task type twice,
  first with a quality that meets the constraints and then with one that does so only
  after a relaxation; registering the second after the first leaves a capability
  behind. Four inputs
  (`MaxInputs`) are the least in which a registration is dropped, repeated and
  disturbed by a write to the store, or a registration and an execution are disturbed
  by two reports. One record is stamped in the future, a report of 130 is above the
  clamp, and a record weighs nothing after a day. 148,340 states, about a minute.
* `transport`: two ticks to the millisecond and two milliseconds to the second, so
  that parts of each are lost; an eight bit `u64` and a four bit `u32`, each
  exceeded by one value; every
  field of every message is varied alone, since conversions treat fields one by one;
  a channel of two and a stream of four results, so that the task waits for room.
* `simulation`: a specialist, a budget and a premium agent give a choice among those
  above the quality floor, a draft by another agent than the refinement, and two
  backups; a task type that nobody serves; context of 0, 29 and 50000 bytes (nothing,
  one more than the compression, and above the transfer threshold); three tasks, for
  which the percentiles differ.

Symmetry is used where no liveness is checked and no operator orders the elements:
the workers and agents of `worker_locks`, the peers of `node`, and
the agent ids of `routing` (nodes are known by index).

Deadlock is checked in every passing run. `context_refinement` switches it off: under
`AnsweredSpec` a behaviour ends with the verdict on its one task.

## 5. Fairness

* `CircuitBreaker`: time passes; a caller ends its request (the code awaits with
  timeouts, or abandons); requests for each agent keep being made, strongly fair
  because a caller is free again and again. Without requests an OPEN breaker stays
  OPEN: the state changes only in `allow_request`. No outcome is assumed, so
  `OpenIsProbed` says nothing about closing.
* `HeartbeatMonitor`: time passes, a handler that has started finishes, and the
  checker's timer fires. Neither sending nor delivery is fair.
* `Handshake`: the steps of a running `negotiate`; it is a synchronous function.
* `AdaptiveContext`: the receiver evaluates until it has a verdict. Delivery is not
  fair. `AnsweredSpec`, of the violation run only, goes on as long as any step is left,
  answers included, so that its counterexample is a refinement that did run its course.
* `Transport`: the runtime polls every task that is ready, tonic delivers what a
  live connection carries, and a handler's future completes (returns, fails or is
  dropped). Nothing is assumed of calls, interruptions or the clock. A server whose
  handler never completes leaves its caller waiting; no timeout is set by the code.

## 6. Proofs

All are safety facts for every set of agents, callers, tasks and workers, finite or
not, and all thresholds that meet the modules' assumptions.

**`FaultProofs`, the breaker**, assuming `Threshold`, `Cooldown` > 0 and
`MaxFailures` natural. `BreakerInvariance` proves `BreakerInv`, the conjunction of
`BreakerTypeOK`, `ClosedCountsExactly`, `CooldownRespected` and `OpenClock`: while an
entry is OPEN its clock and the time since it tripped agree. `OpenClock` is needed
because `allow_request` decides by the entry's own clock, while `CooldownRespected`
speaks of the time since the trip. `BreakerTypeCorrect`, `CountsExactly` and
`CooldownIsRespected` follow. `RefinesProtocol` shows that every step is a step of
`BreakerProtocol` or leaves its state alone, from two lemmas: what each operation
does to one entry (`EntryPhase`), and that a step is an operation on one entry or a
tick of all (`StepShape`).

**`FaultProofs`, the checkpoint store**, assuming that versions are natural numbers. The
inductive invariant adds `StoreIsMap` (one checkpoint per task; the store is a map
in the code, a set in the model) and `DoneCovered` (every completed save is covered
by the store): a decision copies both at one instant, so `ResumesFromNewest` of old
decisions is inherited and of the new one follows from these two. `NoOrphanHistory`
is inductive with the type: a save is registered in `saving` before its history
exists, and a remove in `removing` before its checkpoint is gone. Theorems
`StoreTypeCorrect`, `FailoverResumesFromNewest`, `HistoryIsFreed`.

**`FaultProofs`, the poison detector**, for finite or infinite sets of tasks, agents and
workers, with `MaxWait` at most the window. The invariant adds to `PoisonTypeOK`,
`CondemnedFairly` and `NoMissedPoison`: `WithinWindow` (any two records of a task lie
within one window, since whoever pushed the later one pruned with it), `EvidenceKept`
(what was reported within the window has not been pruned) and `FiniteAgents`
(cardinalities are of finite sets). `CondemnedFairly` compares records with each other
although the code compares each with a `now` read earlier; `WithinWindow` is what
relates the two. `NoMissedPoison` speaks of reports and the code counts records;
`EvidenceKept` relates these. Theorems `PoisonTypeCorrect`, `CondemnsFairly`,
`MissesNoPoison`.

**`FaultProofs`, the heartbeat monitor.** The invariant is `TypeOK`, `AgeBounded` (an
entry is at most `MaxStall` older than the silence of its agent, however handlers
overtake each other), `SuspectsStayOld` (no check under way, nor one that starts now,
can find a suspected agent alive: its age grows with the time the check waits) and
`SuspicionJustified`. The last follows from the bound on ages when a check suspects an
agent, and is kept because silence only ends with a heartbeat that revives.
`RevivesOnNews` is an action property that needs `SuspectsStayOld`: without it a check
with an old `now` could revive. Theorems `TypeCorrect`, `SuspectsJustly`,
`RevivesOnNews`.

**`HandshakeProofs`.** The invariant says that both indexes are well-formed and
agree, that the state machine is well-formed, and of a running call that it has no
outcome yet and that the offers under consideration meet the constraints they answer.
Each registry operation is a lemma: what it leaves in either index, entry by entry.
`ContractsUndominated` needs the fact about the offers: a latency or cost scores
monotonically only within its bound. `LeastRelaxation` compares the contract with the
constraints relaxed any smaller number of times, which a recursive function gives;
`RetryOK` says that the current constraints are its value for the retries made and
that no earlier value found an agent, unless offers expired. That the function
satisfies its recursion is proved by induction over the number of relaxations.
Theorems `TypeCorrect`, `IndexesStayEqual`, `ContractsUndominated`, `RelaxesLeast`.

**`NodeProofs`**, for any agents, capability lists (any length, any task type any number
of times), constraints and reports, any number of inputs and any decay table. The
invariant is the three properties and the shape of the state, with two facts that make
them inductive: the agent of a suspended registration is not in `complete`, and when
only its links are missing the graph already has its capabilities. `RoutedIsRegistered`
then carries `LayersAgree`: what a graph node claims is in the registry, and
`Registered` removes an entry only to put a new one in its place (`RegisteredEntries`).
Both speak of the last capability a list names for a type: there is one for every type
it names (`LastOfType`), and it is what the calls of `register` leave (`KeptFacts`). For
`TrustIsCurrent` an agent's aggregate is shown to depend on the records about it only,
and the clamp of `update_trust` to leave it alone; what the sums are is not needed. A
second invariant, `Typed`, gives the types of store, registry, graph and call, and
`TypeCorrect` follows; that the trust filed lies between 0 and 100 is the clamp of the
aggregate and of `update_trust`. `ScoresAreSound` takes from it only that the records
are a bag of well-typed records, and then is about sums: the aggregate's numerator and
denominator are the sums of those by task type (`SumSplit`), so it lies between the
least and the greatest of them; a voucher adds a non-negative term; a repeated record
adds to the records about an agent and not to its evaluators. The agreement of
`transitive_trust` and `chain_trust` on one voucher needs `max_depth` > 0, as the proof
attempt showed: with 0 the first counts the voucher and the second does not. Theorems
`RoutesOnlyRegistered`, `LayersStayInAgreement`, `FiledTrustIsCurrent`, `TypeCorrect`,
`ScoresAreSound`.

**`SimulationProofs`**, for any network and batch. Recorded trust equals the successful
executions except while a draft is being refined, when it lags by that draft
(`TrustFollows`); the counts need that the accumulators are sequences. `UnderWay` says
that a recovering task has failed on every capable agent that is not still a backup:
`GivesUpOnlyExhausted` is its consequence when no backup is left. For
`ReportsAreSound` the sorted latencies are shown to exist and to be a rearrangement; the
value at a position of an ascending list has that many values not above it, and no
more than that below it (`PlaceInOrder`), and the nearest-rank position is the least
one with the wanted share. Theorems `AllTasksAccounted`, `TrustIsExactlyEarned`,
`GivesUpOnlyExhausted`, `ReportsAreSound`.

**`TransportProofs`**, for every width of integers, ticks, channel capacity, and all
messages, answers and distortions that are well typed. First each kind of field: what
the client encodes is decodable and comes back preserved (`Preserved`: equal, or cut to
the millisecond, or, beyond the width of the wire's integer, smaller; `CastNarrows`),
and what a peer distorts is refused or read as it stands, but for the replacements of
the code. Then each message, field by field. The invariant has six parts: `RequestInv`
(what is on the wire is the client's message, encoded at some instant, and what the
handler got is that, decoded at some instant; both clocks matter for missing
timestamps), `PhaseInv` (who has come how far), `AnswerInv` (an answer on its way is the
handler's), `StreamInv` (of the results the client has a first part, the channel the
next and the streaming task the rest, none missing or twice), `OkInv` and
`ClientsAccepted`. `StreamInv` is what makes Ok mean all of a stream: when the producer
is done and the channel is empty, the first part is the whole. Theorems
`RequestsArriveAsSent`, `HandlersAreToldTheRequest`, `OkHoldsTheAnswer`, and
`ClientsAreAccepted`, which no run checks: the server never answers INVALID_ARGUMENT to
an `AtpClient`.

**`AdaptiveContextProofs`**, for contexts of any size, all relevances, budgets and
numbers of rounds, and a relevance threshold below the confidence threshold. Sorting by
rank is shown to be a rearrangement with the more relevant first. The invariant is
`DiffInv` (the diff has no chunk twice and its confidence is their mean), `MessageInv`
(no message before the first round), `ProgressInv` (`received_indices` never runs ahead
of the diff, so what `evaluate` finds missing is what the diff lacks), `LowIsJustified`
and `ShortfallInv`: while the confidence is below the threshold, every missing chunk is.
`extract_msc` establishes it, since a missing chunk at the threshold implies that all
that were kept are there too, and then their mean is (`ExtractShortfall`);
`merge_chunks` keeps it, since adding terms below the threshold to a sum below it times
their number stays below (`MergeShortfall`). Theorems `NothingTwice`, `LowOnlyWhenDone`,
`NoRoundHelps` (`RefinementNeverHelps`, the general form of the finding
`context_refinement`), and the action property `AsksOnlyForMissing`, for which half of a
non-empty set of indices, rounded up, holds its least element.

**`RoutingProofs`**, for graphs of any size, any profiles, latencies and constraints,
any `Parallelism`, cascades of at least one level and lists of at least one route. The
invariant of the state is small: ids are distinct, edges join nodes that exist, and an
answer is a choice of the routes that `RouteSearch` offers for the request
(`Offered`), empty only if no capable agent alone would have done. The work is in the
operators, none of which had been proved to compute what its recursion says: each
recursive function is first shown to satisfy its recursion, by induction over its
argument.

* Bellman-Ford. A relaxation keeps the tree a tree (`RelaxFacts`): the source is at
  distance 0, the agent before another is nearer by at least the cost of the edge
  between them, and no set of agents lead only to one another (`Acyclic`). The last does
  not follow from the distances, since edges may be free; it holds because an update is
  strict. After n sweeps no path of n edges is shorter than the distance found
  (`NoShorterPath`), and a simple path has at most k - 1. On the way back no agent
  comes twice (`NoAgentTwice`), so it meets the source within k - 1 steps, and turned
  round it is a simple path no longer than the distance (`WayForward`). Together:
  `ExactDistances`. The cycle check of the code never fires.
* The front. Of the finitely many candidates at least as good as a given one, one with
  the least sum of latency, cost and lost quality is dominated by none (`FrontFacts`); it
  meets the same constraints, which is `SufficientFront`.
* The patterns. Sorting by rank lists each agent once, whatever the key (`SortedLists`),
  so every pattern uses each agent in one role, and all check the constraints:
  `SoundRoutes`.
* Failure. A pipeline multiplies qualities, each at most 1, and adds latencies and
  costs, so its first agent alone is at least as good (`PathFacts`; rounding down keeps
  this). If any path would do, so would an agent alone, which `auto_select_pattern`
  tries last and `find_routes` has among its candidates: `FinalFailures`.
* The list. Deduplication keeps a cheapest route for each list of agents, truncation to
  `MaxRoutes` > 0 a cheapest of all, and a price never rises when the metrics get better
  (`PriceFacts`): `BestOfList`.

**`SumTheorems`.** The induction schemes of the library take a predicate as a
parameter, which the provers cannot instantiate. The lemmas here take a set instead:
the least element of a set of naturals exists (from the well-foundedness of `<`), and a
set of subsets of a finite set that contains {} and grows by an element contains all.
A sum over a finite set, a fold in the library that takes its terms in an arbitrary
order, is shown to take any element out (`SumTakeOut`), to split over disjoint sets, to
be the same under a renaming, and to be bounded by its bounds times their number. In a
finite total order the ranks are 1 to n, each taken once (`Ranks`).

Every invariant and action property that a passing run checks is so proved. Only
model-checked is what is about liveness (`OpenIsProbed`, `FailureDetected`,
`NegotiationEnds`, `RefinementEnds`, `CallEnds`, `NothingLeftBehind`), since the prover
handles neither fairness nor ENABLED.

## 7. Findings

Each is the one property of a run that TLC violates, and states what a comment of
the code or its documentation says.

* `breaker_single_probe`: HALF_OPEN admits every caller; the header of
  `circuit_breaker.rs` says exactly one probe.
* `handshake_agreed`: after a retry, `create_contract` gets the relaxed constraints
  as the original ones, and the agreed terms exceed what the requester asked for.
* `context_refinement`: `adaptive.rs` (line 10) announces "Iterative refinement until
  confidence exceeds the threshold", the crate's `lib.rs` (lines 31-32) that this
  "ensures task quality", and the wiki's page on layer 3 (lines 73-78) that the system
  "Lowers the relevance threshold", "Includes more chunks" and "Re-evaluates until
  confidence is acceptable". No threshold is lowered, and the confidence is the mean
  relevance of the chunks, the most relevant of which came first: in the run a receiver
  whose three chunks have a mean of 8/3 asks for the fourth, gets it, has a mean of 9/4
  and ends with LowConfidence, without a call lost and although a chunk reaches the
  threshold of 3. It is so for every context: what a diff lacks is never more
  relevant than the threshold when its mean is below, so a task that starts below ends
  with LowConfidence (`NoRoundHelps`).

Observations: behaviour that the models have, which a reader of the code may not
expect, and which no comment or test speaks against, or only a passing remark.

* `PoisonDetector`: a `record_failure` that has counted before a `clear` and inserts
  after it poisons the cleared task again, with no failure on record.
* `HeartbeatMonitor`: a late heartbeat, which the monitor ignores, overwrites the
  load tracker. The tracker is asked twice, by `is_overloaded` and by
  `build_message`; an update in between makes a BACKPRESSURE reply that reports no
  overload.
* `AdaptiveContext`: a context without a chunk above the filter gives an empty diff
  and Ok, where the comment promises `ExtractionFailed`.
* `Routing`: `find_routes` is said to return routes "on the Pareto front", "ranked by
  quality"; the routes of the patterns are not compared with the front, and the order
  is that of the weighted cost.
* `Node`: with two capabilities of one task type in an identity, a route counts on the
  first (`AgentNode::capability_for`, `graph.rs` line 31) and a contract is with the last
  (`register` replaces), so that the two may differ in quality, latency and cost. The
  graph's trust is written at registration and never again; an
  INTERACTION_PROOF or TASK_RESULT changes the records and leaves the registry's
  trust as it was; removal from the store leaves the agent's entries in registry and
  graph; a re-registration with fewer capabilities leaves the others in the registry,
  so `LayersAgree` says only that what the identity offers is registered; negotiation
  does not look at breakers, so the best agent's open circuit fails the task while
  others could run it; a TASK_RESULT is recorded as CodeGeneration whatever the task.
* `Codec`: an embedding of 2^32 dimensions or more reaches the handler of a probe with
  its dimensions modulo 2^32 (`embedding_to_proto`, `as u32`), and all of its values.
* `Simulation`: a failed refinement completes the task with the draft, also in the
  strategy without fault tolerance; `fault_recovery_ms` is 0 when the only capable
  agent fails, since nothing was tried; the routing time of an empty batch is 0/0.

## 8. What is not shown

* Not modelled: DIDs, keys and signatures, which are calls of a library. The making
  of embeddings and cosine similarity are floating point code; the models choose the
  similarities, and the codec's embedding has opaque values.
  The SDK, Python bindings, benchmark binary, generated protobuf code and website
  carry no protocol state. Of the dispatcher, `handle_probe`, `register_capability`
  and the handlers that only log; of context,
  `generate_context_request` and `apply_diff`.
* Floating point is replaced by exact integers: rounding, and comparisons that
  depend on it, are outside the models. Scores of layer 1 are rounded down.
* A restarted agent: the code does not say how its heartbeats are numbered. If they
  start again at 0 the monitor ignores them until they pass the last number it saw.
* A clock that steps back, and the wrap of the 64-bit counters other than the
  milliseconds and dimensions of the codec.
* The simulation's randomness: which outcomes are possible is modelled, how likely
  they are is not.
* Lifetime totals, the smoothed processing rate and the compression statistics,
  which nothing reads.
