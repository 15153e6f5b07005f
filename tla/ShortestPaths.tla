----------------------------- MODULE ShortestPaths -----------------------------
(***************************************************************************)
(* bellman_ford_single (atp-routing/src/bellman_ford.rs): the distances    *)
(* and predecessors of the agents that can be reached from a source, and   *)
(* the way to the nearest of them.                                         *)
(* Agents are numbers; cost[<<u, v>>] is the cost of the edge from u to v. *)
(* A tree gives each agent that has been reached its distance and the      *)
(* agent before it: the others are at distance INFINITY and have none.     *)
(***************************************************************************)
EXTENDS Integers, FiniteSets, FiniteSetsExt, Functions

\* The elements of D in order: up[i] are those that come no later than i.
Ranked(D, up) == [k \in 1 .. Cardinality(D) |-> CHOOSE i \in D : Cardinality(up[i]) = k]

InOrder(agents) == Ranked(agents, [i \in agents |-> {j \in agents : j <= i}])

Root(source) == [v \in {source} |-> [dist |-> 0, pred |-> source]]

\* What u's outgoing edges, which lead to different agents, improve.
Improved(tree, agents, cost, u) ==
    {v \in agents :
       /\ u \in DOMAIN tree
       /\ <<u, v>> \in DOMAIN cost
       /\ v \in DOMAIN tree => tree[u].dist + cost[<<u, v>>] < tree[v].dist}

Relax(tree, agents, cost, u) ==
    [v \in DOMAIN tree \cup Improved(tree, agents, cost, u) |->
       IF v \in Improved(tree, agents, cost, u)
       THEN [dist |-> tree[u].dist + cost[<<u, v>>], pred |-> u]
       ELSE tree[v]]

\* One sweep: every agent relaxes its outgoing edges, in index order.
Sweep(tree, agents, cost) ==
    LET after[n \in 0 .. Cardinality(agents)] ==
            IF n = 0 THEN tree
            ELSE Relax(after[n - 1], agents, cost, InOrder(agents)[n])
    IN  after[Cardinality(agents)]

\* A slip the runs must catch.
OneSweepShort(k) == IF k > 2 THEN k - 2 ELSE k - 1

\* The early exit leaves out only sweeps that change nothing.
Sweeps(k) == k - 1

ShortestPathTree(agents, cost, source) ==
    LET after[n \in 0 .. Sweeps(Cardinality(agents))] ==
            IF n = 0 THEN Root(source) ELSE Sweep(after[n - 1], agents, cost)
    IN  after[Sweeps(Cardinality(agents))]

\* The nearest agent other than the source, the first of several.
Nearest(tree, source) ==
    {v \in DOMAIN tree \ {source} :
       \A o \in DOMAIN tree \ {source} :
          \/ tree[v].dist < tree[o].dist
          \/ tree[v].dist = tree[o].dist /\ v <= o}

\* The agents on the way back from dest, given up after k steps.
WayBack(tree, dest, k) ==
    LET way[n \in 0 .. k] == IF n = 0 THEN dest ELSE tree[way[n - 1]].pred
    IN  way

Forward(way, n) == [m \in 1 .. n + 1 |-> way[n + 1 - m]]

\* The ways from the source to dest: one, or none if it was given up.
PathsTo(dest, tree, source, k) ==
    {Forward(WayBack(tree, dest, k), n) :
       n \in {n \in 1 .. k : /\ WayBack(tree, dest, k)[n] = source
                             /\ \A m \in 1 .. n - 1 : WayBack(tree, dest, k)[m] # source}}

PathsToNearest(tree, source, k) ==
    UNION {{[path |-> path, scalar_cost |-> tree[dest].dist] :
              path \in PathsTo(dest, tree, source, k)} : dest \in Nearest(tree, source)}

BellmanFordSingle(agents, cost, source) ==
    PathsToNearest(ShortestPathTree(agents, cost, source), source, Cardinality(agents))
================================================================================
