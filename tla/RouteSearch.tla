------------------------------ MODULE RouteSearch ------------------------------
(***************************************************************************)
(* What the router computes from its graph (atp-routing/src/bellman_ford.  *)
(* rs, optimizer.rs, patterns.rs, lib.rs) for one task type: Bellman-Ford's*)
(* candidates, the routes of the patterns, and what find_route and         *)
(* find_routes may return.                                                 *)
(* A graph has nodes, the agents in the order of add_agent, and adjacency, *)
(* the latency of each edge.  An agent is known by its index.  Where the   *)
(* code's choice depends on the order of a hash map, all choices are       *)
(* possible: answers come in sets.                                         *)
(***************************************************************************)
EXTENDS RouteCost, ShortestPaths

CONSTANTS
    NoCapability,      \* of an agent that does not offer the task type
    DefaultTransfer,   \* CostModel::default_transfer_latency
    MergeOverhead, VotingOverhead,   \* of parallel_merge and ensemble
    TightLatency,      \* auto_select_pattern's 500 ms
    Parallelism,       \* agents of parallel_merge and ensemble
    CascadeDepth,      \* levels of cascade
    MaxRoutes          \* RoutingConfig::max_routes

ASSUME SearchAssumption ==
    /\ DefaultTransfer \in Nat /\ MergeOverhead \in Nat /\ VotingOverhead \in Nat
    /\ Parallelism \in Nat /\ CascadeDepth \in Nat \ {0} /\ MaxRoutes \in Nat \ {0}

Pattern == {"DraftRefine", "ParallelMerge", "Cascade", "Ensemble", "Pipeline"}

Cap(g, i)     == g.nodes[i].profile.capability
TrustOf(g, i) == g.nodes[i].profile.trust_score

CapableAboveTrust(g, min_trust) ==
    {i \in DOMAIN g.nodes : /\ g.nodes[i].available
                            /\ TrustOf(g, i) > min_trust
                            /\ Cap(g, i) # NoCapability}

CapableIgnoringAvailability(g, min_trust) ==
    {i \in DOMAIN g.nodes : /\ TrustOf(g, i) >= min_trust
                            /\ Cap(g, i) # NoCapability}

CapableAgents(g, min_trust) ==
    {i \in DOMAIN g.nodes : /\ g.nodes[i].available
                            /\ TrustOf(g, i) >= min_trust
                            /\ Cap(g, i) # NoCapability}

Transfer(g, i, j) ==
    IF <<i, j>> \in DOMAIN g.adjacency THEN g.adjacency[<<i, j>>] ELSE DefaultTransfer

\* compute_path_metrics; pipeline computes the same.
PathMetrics(g, path) ==
    ComputeRouteMetrics([n \in 1 .. Len(path) |-> Cap(g, path[n])],
                        [n \in 1 .. Len(path) - 1 |-> Transfer(g, path[n], path[n + 1])])

Route(pattern, agents, metrics) ==
    [pattern |-> pattern, agents |-> agents, metrics |-> metrics]

PathRoute(g, path) == Route("Pipeline", path, PathMetrics(g, path))

\* The route if it meets the constraints, as a set: {} is NoFeasibleRoute.
IfFeasible(route, qos) == IF Satisfies(route.metrics, qos) THEN {route} ELSE {}

-----------------------------------------------------------------------------
(* Bellman-Ford and the Pareto front                                       *)

EdgeCosts(g, agents, w) ==
    [e \in (agents \X agents) \cap DOMAIN g.adjacency |->
       ScalarEdgeCost(Cap(g, e[2]), g.adjacency[e], w)]

\* multi_objective_bellman_ford: a path for each source and weight vector, and
\* each agent alone.  A path has one route, whatever weights found it.
Candidates(g, agents) ==
    {PathRoute(g, <<i>>) : i \in agents} \cup
    {PathRoute(g, r.path) :
       r \in UNION {BellmanFordSingle(agents, EdgeCosts(g, agents, w), source) :
                      source \in agents, w \in ParetoSampleVectors}}

Feasible(routes, qos) == {r \in routes : Satisfies(r.metrics, qos)}

Price(route, qos) == ScalarRouteCost(route.metrics, WeightsFromConstraints(qos))

\* rank_routes and truncate: the k cheapest, whichever of equal price.
Cheapest(routes, qos, k) ==
    LET price == [r \in routes |-> Price(r, qos)]
    IN  {chosen \in kSubset(Smaller(k, Cardinality(routes)), routes) :
           \A r \in chosen, o \in routes \ chosen : price[r] <= price[o]}

\* select_top_routes: the cheapest under the weights of the constraints, of the
\* front or, failing that, of all candidates; a set of possible answers.
SelectTopRoutes(g, qos, k) ==
    LET candidates == Candidates(g, CapableAgents(g, qos.min_trust))
        front      == Feasible(ParetoFront(candidates), qos)
    IN  Cheapest(IF front # {} THEN front ELSE Feasible(candidates, qos), qos, k)

SelectTop(g, qos) == UNION SelectTopRoutes(g, qos, 1)

-----------------------------------------------------------------------------
(* The patterns                                                            *)

\* Stable sorts of the agents, which come in index order.
ByCost(g, agents) ==
    Ranked(agents, [i \in agents |-> {j \in agents :
        \/ Cap(g, j).cost < Cap(g, i).cost
        \/ Cap(g, j).cost = Cap(g, i).cost /\ j <= i}])

ByQuality(g, agents) ==
    Ranked(agents, [i \in agents |-> {j \in agents :
        \/ Cap(g, j).quality > Cap(g, i).quality
        \/ Cap(g, j).quality = Cap(g, i).quality /\ j <= i}])

ByQualityThenTrust(g, agents) ==
    Ranked(agents, [i \in agents |-> {j \in agents :
        \/ Cap(g, j).quality > Cap(g, i).quality
        \/ /\ Cap(g, j).quality = Cap(g, i).quality
           /\ \/ TrustOf(g, j) > TrustOf(g, i)
              \/ TrustOf(g, j) = TrustOf(g, i) /\ j <= i}])

FirstOf(s, n) == [k \in 1 .. Smaller(n, Len(s)) |-> s[k]]

DraftRefine(g, agents, qos) ==
    IF Cardinality(agents) < 2 THEN {}
    ELSE LET drafter == ByCost(g, agents)[1]
             refiner == ByQuality(g, agents \ {drafter})[1]
             path    == <<drafter, refiner>>
         IN  IfFeasible(Route("DraftRefine", path, PathMetrics(g, path)), qos)

\* The metrics of agents working side by side on the same input.
SideBySide(g, path, overhead) ==
    [quality |-> Whole - Product([n \in 1 .. Len(path) |-> 10 - Cap(g, path[n]).quality]),
     latency |-> Fine * (Max({Cap(g, path[n]).latency : n \in 1 .. Len(path)}) + overhead),
     cost    |-> Fine * SumFunction([n \in 1 .. Len(path) |-> Cap(g, path[n]).cost])]

ParallelMerge(g, agents, qos) ==
    LET path == FirstOf(ByQuality(g, agents), Parallelism) IN
    IF Len(path) < 2 THEN {}
    ELSE IfFeasible(Route("ParallelMerge", path, SideBySide(g, path, MergeOverhead)), qos)

Ensemble(g, agents, qos) ==
    LET path == FirstOf(ByQualityThenTrust(g, agents), Parallelism) IN
    IF Len(path) < 2 THEN {}
    ELSE IfFeasible(Route("Ensemble", path, SideBySide(g, path, VotingOverhead)), qos)

\* p_confident, in twentieths.
Confident(cap) == IF cap.quality >= 7 THEN 2 * cap.quality ELSE cap.quality

Certain == 8000     \* probability 1.0

Escalates(prob, cap) == (prob * (20 - Confident(cap))) \div 20

\* The probability of passing the first n levels of a chain.
ProbReach(caps) ==
    LET reach[n \in 0 .. Len(caps)] ==
            IF n = 0 THEN Certain ELSE Escalates(reach[n - 1], caps[n])
    IN  reach

\* The expected metrics of a chain.
CascadeMetrics(g, chain) ==
    LET depth == Len(chain)
        caps  == [n \in 1 .. depth |-> Cap(g, chain[n])]
        reach == ProbReach(caps)
    IN  [quality |->
           Smaller(Whole,
             SumFunction([n \in 1 .. depth |->
                (reach[n - 1] * Confident(caps[n]) * caps[n].quality) \div 20])
               + reach[depth] * caps[depth].quality),
         latency |->
           SumFunction([n \in 1 .. depth |-> (reach[n - 1] * caps[n].latency) \div 20])
             + SumFunction([n \in 1 .. depth - 1 |->
                  (reach[n] * Transfer(g, chain[n], chain[n + 1])) \div 20]),
         cost |->
           SumFunction([n \in 1 .. depth |-> (reach[n - 1] * caps[n].cost) \div 20])]

Cascade(g, agents, qos) ==
    LET chain == FirstOf(ByCost(g, agents), CascadeDepth) IN
    IF agents = {} THEN {}
    ELSE IfFeasible(Route("Cascade", chain, CascadeMetrics(g, chain)), qos)

MedianCost(g, agents) ==
    Cap(g, ByCost(g, agents)[(Cardinality(agents) \div 2) + 1]).cost

\* auto_select_pattern's last resort: the cheapest agent that will do alone.
SingleAgent(g, agents, qos) ==
    LET able == {i \in agents : Satisfies(PathMetrics(g, <<i>>), qos)}
    IN  IF able = {} THEN {} ELSE {PathRoute(g, <<ByCost(g, able)[1]>>)}

\* The first attempt that found a route.
FirstFound(attempts) ==
    LET found == {n \in DOMAIN attempts : attempts[n] # {}}
    IN  IF found = {} THEN {} ELSE attempts[Min(found)]

AutoSelect(g, qos) ==
    LET agents  == CapableAgents(g, qos.min_trust)
        several == Cardinality(agents) >= 2
        when(condition, routes) == IF several /\ condition THEN routes ELSE {}
        tight   == 2 * qos.max_cost < 3 * MedianCost(g, agents)
    IN  IF agents = {} THEN {}
        ELSE FirstFound(<<when(tight, Cascade(g, agents, qos)),
                          when(tight, DraftRefine(g, agents, qos)),
                          when(qos.min_quality >= 9, Ensemble(g, agents, qos)),
                          when(qos.max_latency <= TightLatency, ParallelMerge(g, agents, qos)),
                          SingleAgent(g, agents, qos)>>)

TryPattern(g, pattern, qos) ==
    LET agents == CapableAgents(g, qos.min_trust) IN
    CASE pattern = "DraftRefine"   -> DraftRefine(g, agents, qos)
      [] pattern = "ParallelMerge" -> ParallelMerge(g, agents, qos)
      [] pattern = "Cascade"       -> Cascade(g, agents, qos)
      [] pattern = "Ensemble"      -> Ensemble(g, agents, qos)
      [] pattern = "Pipeline"      -> SelectTop(g, qos)

-----------------------------------------------------------------------------
(* find_route and find_routes                                              *)

\* The routes find_route may return, with a preferred pattern or, for preferred
\* = {}, without.
RoutesFound(g, qos, preferred) ==
    LET first == UNION {TryPattern(g, p, qos) : p \in preferred}
        auto  == IF first # {} THEN first ELSE AutoSelect(g, qos)
    IN  IF auto # {} THEN auto ELSE SelectTop(g, qos)

\* Slip: Bellman-Ford is asked only when no pattern will do, as in find_route.
PatternsFirst(g, qos) ==
    LET patterns == UNION {TryPattern(g, p, qos) : p \in Pattern \ {"Pipeline"}}
    IN  IF patterns # {} THEN Cheapest(patterns, qos, MaxRoutes)
        ELSE SelectTopRoutes(g, qos, MaxRoutes)

\* Of the routes through the same agents the cheapest, and of equals the one
\* that was collected first.
Deduplicated(routes, qos) ==
    LET order == [DraftRefine |-> 1, ParallelMerge |-> 2, Cascade |-> 3,
                  Ensemble |-> 4, Pipeline |-> 5]
        precedes(r, o) ==
            \/ Price(r, qos) < Price(o, qos)
            \/ Price(r, qos) = Price(o, qos) /\ order[r.pattern] < order[o.pattern]
    IN  {r \in routes : \A o \in routes \ {r} : o.agents = r.agents => precedes(r, o)}

\* What find_routes may return: the routes of all patterns and Bellman-Ford's.
RouteLists(g, qos) ==
    LET patterns == UNION {TryPattern(g, p, qos) : p \in Pattern \ {"Pipeline"}}
    IN  UNION {Cheapest(Deduplicated(patterns \cup top, qos), qos, MaxRoutes) :
                 top \in SelectTopRoutes(g, qos, MaxRoutes)}
================================================================================
