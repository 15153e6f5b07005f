------------------------------- MODULE RouteCost -------------------------------
(***************************************************************************)
(* The cost model of Layer 4 (atp-routing/src/cost.rs) and the dominance   *)
(* of routes (optimizer.rs).  Capabilities and constraints count quality,  *)
(* latency and cost in tenths of their reference values.  The metrics of a *)
(* route are products and expectations of those: they count quality in     *)
(* 1/80000 and latency and cost in 1/400 of a tenth, fine enough for every *)
(* route of up to three agents to be exact; longer ones round down.        *)
(***************************************************************************)
EXTENDS Integers, Sequences, Functions

Whole == 80000     \* quality 1.0 of a route
Fine  == 400       \* a tenth of latency or cost of a route

Smaller(m, n) == IF m <= n THEN m ELSE n

\* CostWeights::pareto_sample_vectors, in hundredths.
Weights(q, l, c) == [quality |-> q, latency |-> l, cost |-> c]

ParetoSampleVectors ==
    {Weights(100, 0, 0), Weights(0, 100, 0), Weights(0, 0, 100),
     Weights(50, 50, 0), Weights(50, 0, 50), Weights(0, 50, 50),
     Weights(34, 33, 33),
     Weights(60, 20, 20), Weights(20, 60, 20), Weights(20, 20, 60)}

\* scalar_edge_cost: latency and cost count up to twice their reference.
ScalarEdgeCost(cap, transfer, w) ==
    w.quality * (10 - cap.quality)
      + w.latency * Smaller(cap.latency + transfer, 20)
      + w.cost * Smaller(cap.cost, 20)

Scaled(quality, tenths) == (quality * tenths) \div 10

\* The product of tenths.
Product(tenths) ==
    LET upto[n \in 0 .. Len(tenths)] ==
            IF n = 0 THEN Whole ELSE Scaled(upto[n - 1], tenths[n])
    IN  upto[Len(tenths)]

\* compute_route_metrics, of at least one capability.
ComputeRouteMetrics(caps, transfers) ==
    [quality |-> Product([n \in 1 .. Len(caps) |-> caps[n].quality]),
     latency |-> Fine * (SumFunction([n \in 1 .. Len(caps) |-> caps[n].latency])
                           + SumFunction(transfers)),
     cost    |-> Fine * SumFunction([n \in 1 .. Len(caps) |-> caps[n].cost])]

\* scalar_route_cost.
ScalarRouteCost(m, w) ==
    w.quality * (Whole - m.quality)
      + w.latency * 20 * Smaller(m.latency, 20 * Fine)
      + w.cost * 20 * Smaller(m.cost, 20 * Fine)

\* satisfies_constraints.
Satisfies(m, qos) ==
    /\ m.quality >= (Whole \div 10) * qos.min_quality
    /\ m.latency <= Fine * qos.max_latency
    /\ m.cost <= Fine * qos.max_cost

\* weights_from_constraints, up to a common factor: a tenth of latency is a
\* second and a tenth of cost 0.1, as in CostModel::default.
WeightsFromConstraints(qos) ==
    Weights(qos.min_quality * (1 + qos.max_latency) * (10 + qos.max_cost),
            10 * (10 + qos.max_cost),
            100 * (1 + qos.max_latency))

\* A slip the runs must catch: better somewhere is not better.
BetterSomewhere(m, n) == m.quality > n.quality \/ m.latency < n.latency \/ m.cost < n.cost

Dominates(m, n) ==
    /\ m.quality >= n.quality /\ m.latency <= n.latency /\ m.cost <= n.cost
    /\ m.quality > n.quality \/ m.latency < n.latency \/ m.cost < n.cost

\* Routes, given with their metrics, that no other one dominates (pareto_front).
ParetoFront(routes) ==
    {r \in routes : \A o \in routes : ~Dominates(o.metrics, r.metrics)}
================================================================================
