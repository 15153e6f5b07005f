-------------------------------- MODULE Routing --------------------------------
(***************************************************************************)
(* Layer 4: the agent graph and the router's answers (atp-routing/src/     *)
(* graph.rs, lib.rs).  Agents are added, connected, removed and restored   *)
(* in any order; find_route and find_routes answer from the graph as it is *)
(* (RouteSearch).                                                          *)
(***************************************************************************)
EXTENDS RouteSearch

CONSTANTS
    AgentId,
    Profile,           \* what agents register with: capability and trust score
    Latency,           \* transfer latencies
    QoS                \* the constraints of requests

ASSUME RoutingAssumption ==
    /\ \A p \in Profile :
         /\ \/ p.capability \in [quality : 0 .. 10, latency : Nat, cost : Nat]
            \/ p.capability = NoCapability
         /\ p.trust_score \in 0 .. 10
    /\ Latency \subseteq Nat
    /\ QoS \subseteq [min_quality : 0 .. 10, max_latency : Nat, max_cost : Nat,
                      min_trust : 0 .. 10]

VARIABLES
    graph,       \* EconomicRouter::graph, its nodes and adjacency
    answer       \* what was last returned, until its caller takes it

vars == <<graph, answer>>

NoAnswer == [asked |-> FALSE]

Init == graph = [nodes |-> <<>>, adjacency |-> <<>>] /\ answer = NoAnswer

-----------------------------------------------------------------------------
(* The graph                                                               *)

IndexOf(id) == {i \in DOMAIN graph.nodes : graph.nodes[i].id = id}

\* add_agent: known agents are updated, and available again.
AddAgent(id, profile) ==
    LET node == [id |-> id, profile |-> profile, available |-> TRUE]
    IN  /\ ~answer.asked
        /\ graph' = [graph EXCEPT !.nodes =
                       IF IndexOf(id) = {} THEN Append(graph.nodes, node)
                       ELSE [i \in DOMAIN graph.nodes |->
                               IF i \in IndexOf(id) THEN node ELSE graph.nodes[i]]]
        /\ UNCHANGED answer

\* An edge that exists keeps its latency.
AddEdges(edges, latency) ==
    /\ ~answer.asked
    /\ graph' = [graph EXCEPT !.adjacency =
                   [e \in DOMAIN graph.adjacency \cup edges |->
                      IF e \in DOMAIN graph.adjacency THEN graph.adjacency[e] ELSE latency]]
    /\ UNCHANGED answer

\* add_edge, add_bidi_edge.
Connect(a, b, latency) ==
    AddEdges((IndexOf(a) \X IndexOf(b)) \cup (IndexOf(b) \X IndexOf(a)), latency)

FullyConnect(latency) ==
    AddEdges({e \in (DOMAIN graph.nodes) \X (DOMAIN graph.nodes) : e[1] # e[2]}, latency)

\* remove_agent, restore_agent: set_unavailable, set_available.
SetAvailable(id, available) ==
    /\ ~answer.asked
    /\ graph' = [graph EXCEPT !.nodes =
                   [i \in DOMAIN graph.nodes |->
                      IF i \in IndexOf(id)
                      THEN [graph.nodes[i] EXCEPT !.available = available]
                      ELSE graph.nodes[i]]]
    /\ UNCHANGED answer

RemoveAgent(id)  == SetAvailable(id, FALSE)
RestoreAgent(id) == SetAvailable(id, TRUE)

-----------------------------------------------------------------------------
(* Requests                                                                *)

Answer(qos, routes) == [asked |-> TRUE, qos |-> qos, routes |-> routes]

\* One of the routes found, or the error that there is none.
FindRoute(qos, preferred) ==
    /\ ~answer.asked
    /\ LET found == RoutesFound(graph, qos, preferred)
       IN  \E routes \in IF found = {} THEN {{}} ELSE {{r} : r \in found} :
             answer' = Answer(qos, routes)
    /\ UNCHANGED graph

FindRoutes(qos) ==
    /\ ~answer.asked
    /\ \E routes \in RouteLists(graph, qos) : answer' = Answer(qos, routes)
    /\ UNCHANGED graph

\* The caller takes its answer, and may then change the graph or ask again.
TakeAnswer ==
    /\ answer.asked
    /\ answer' = NoAnswer
    /\ UNCHANGED graph

Next ==
    \/ \E id \in AgentId, profile \in Profile : AddAgent(id, profile)
    \/ \E a, b \in AgentId, l \in Latency : a # b /\ Connect(a, b, l)
    \/ \E l \in Latency : FullyConnect(l)
    \/ \E id \in AgentId : RemoveAgent(id) \/ RestoreAgent(id)
    \/ \E qos \in QoS, preferred \in {{}} \cup {{p} : p \in Pattern} :
         FindRoute(qos, preferred)
    \/ \E qos \in QoS : FindRoutes(qos)
    \/ TakeAnswer

Spec == Init /\ [][Next]_vars

-----------------------------------------------------------------------------
(* Properties                                                              *)

\* All simple paths within a set of agents, for reference.
SimplePaths(g, agents) ==
    {p \in UNION {[1 .. n -> agents] : n \in 1 .. Cardinality(agents)} :
       /\ IsInjective(p)
       /\ \A n \in 1 .. Len(p) - 1 : <<p[n], p[n + 1]>> \in DOMAIN g.adjacency}

PathCost(p, cost) == SumFunction([n \in 1 .. Len(p) - 1 |-> cost[<<p[n], p[n + 1]>>]])

Usable(qos) ==
    {i \in DOMAIN graph.nodes : /\ graph.nodes[i].available
                                /\ TrustOf(graph, i) >= qos.min_trust
                                /\ Cap(graph, i) # NoCapability}

\* What find_route and find_routes return meets the constraints with agents that
\* are available, trusted and capable when it returns, each in one role, whatever
\* was registered, removed or restored before (capable_agents, draft_refine).
RouteIsSound ==
    answer.asked => \A r \in answer.routes :
        /\ Satisfies(r.metrics, answer.qos)
        /\ IsInjective([n \in DOMAIN r.agents |-> graph.nodes[r.agents[n]].id])
        /\ Range(r.agents) \subseteq Usable(answer.qos)

\* find_route and find_routes fail only if no path whatever through the graph
\* would have met the constraints, although Bellman-Ford looks at few paths and
\* the patterns at fewer (auto_select_pattern, select_top_routes).
FailureIsFinal ==
    answer.asked /\ answer.routes = {} =>
        \A p \in SimplePaths(graph, Usable(answer.qos)) :
            ~Satisfies(PathMetrics(graph, p), answer.qos)

\* Bellman-Ford's sweeps give each agent its least distance over all paths from
\* the source, for every weight vector, ties and free edges included, and none to
\* an agent no path leads to; the path it returns is one of those paths and has
\* the cost it claims (bellman_ford_single).
BellmanFordIsExact ==
    ~answer.asked =>
        LET agents == CapableAgents(graph, 0)
            paths  == SimplePaths(graph, agents)
        IN  \A source \in agents, w \in ParetoSampleVectors :
              LET cost == EdgeCosts(graph, agents, w)
                  costs(v) == {PathCost(p, cost) :
                                 p \in {p \in paths : p[1] = source /\ p[Len(p)] = v}}
              IN  /\ \A tree \in {ShortestPathTree(agents, cost, source)}, v \in agents :
                       IF costs(v) = {} THEN v \notin DOMAIN tree
                       ELSE v \in DOMAIN tree /\ tree[v].dist = Min(costs(v))
                  /\ \A r \in BellmanFordSingle(agents, cost, source) :
                       /\ r.path \in paths /\ Len(r.path) > 1 /\ r.path[1] = source
                       /\ r.scalar_cost = PathCost(r.path, cost)

\* A feasible candidate always leaves a feasible one on the Pareto front: no
\* constraint is met by dominated routes only (pareto_front, select_top_routes).
FrontSuffices ==
    ~answer.asked =>
        \A qos \in QoS :
            LET candidates == Candidates(graph, CapableAgents(graph, qos.min_trust)) IN
            Feasible(candidates, qos) # {} => Feasible(ParetoFront(candidates), qos) # {}

\* find_routes is no worse than find_route: whatever find_route, with any
\* preference, has returned, the list that find_routes returns for the same
\* graph and constraints has a route at least as cheap under the weights of the
\* constraints, and never two routes through the same agents: collecting,
\* ranking, deduplicating and truncating lose nothing (find_routes).
ListHoldsTheBest ==
    answer.asked /\ answer.routes # {} =>
        \A list \in RouteLists(graph, answer.qos) :
            /\ \A r \in answer.routes : \E o \in list :
                 Price(o, answer.qos) <= Price(r, answer.qos)
            /\ \A r, o \in list : r.agents = o.agents => r = o
================================================================================
