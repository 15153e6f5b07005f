----------------------------- MODULE RoutingProofs -----------------------------
(* Theorems about Routing, for any agents, graphs, profiles, latencies and *)
(* constraints, any parallelism and depth of cascades, and lists of any    *)
(* length.                                                                 *)
EXTENDS Routing, SumTheorems

-----------------------------------------------------------------------------
(* Recursive functions                                                     *)

(* A sweep relaxes agent after agent.                                     *)
LEMMA SweepSteps ==
  ASSUME NEW tree, NEW agents, NEW cost, Cardinality(agents) \in Nat
  PROVE  \E f : /\ f[0] = tree
                /\ \A n \in 1 .. Cardinality(agents) : f[n] = Relax(f[n - 1], agents, cost, InOrder(agents)[n])
                /\ Sweep(tree, agents, cost) = f[Cardinality(agents)]
  <1> DEFINE Defines(f, k) ==
               f = [n \in 0 .. k |-> IF n = 0 THEN tree
                                     ELSE Relax(f[n - 1], agents, cost, InOrder(agents)[n])]
             S == {k \in Nat : \E f : Defines(f, k)}
  <1>1. 0 \in S
    <2>1. Defines([n \in 0 .. 0 |-> tree], 0)
      OBVIOUS
    <2>2. QED
      BY <2>1
  <1>2. ASSUME NEW k \in Nat, k \in S PROVE k + 1 \in S
    <2>1. PICK f : Defines(f, k)
      BY <1>2
    <2> DEFINE g == [n \in 0 .. k + 1 |-> IF n = 0 THEN tree
                                          ELSE Relax(f[n - 1], agents, cost, InOrder(agents)[n])]
    <2>2. \A n \in 0 .. k : g[n] = f[n]
      BY <2>1
    <2>3. g = [n \in 0 .. k + 1 |-> IF n = 0 THEN tree
                                    ELSE Relax(f[n - 1], agents, cost, InOrder(agents)[n])]
      OBVIOUS
    <2> HIDE DEF g, Defines
    <2>4. \A n \in 0 .. k + 1 : n # 0 => n - 1 \in 0 .. k /\ g[n - 1] = f[n - 1]
      BY <2>2
    <2> USE DEF Defines
    <2>5. Defines(g, k + 1)
      BY <2>3, <2>4
    <2> HIDE DEF Defines
    <2>6. QED
      BY <2>5
  <1>3. \E f : Defines(f, Cardinality(agents))
    <2> HIDE DEF S
    <2>1. Nat \subseteq S
      BY <1>1, <1>2, SetInduction
    <2>2. Cardinality(agents) \in S
      BY <2>1
    <2>3. QED
      BY <2>2 DEF S
  <1> DEFINE r == CHOOSE f : Defines(f, Cardinality(agents))
  <1>4. Defines(r, Cardinality(agents))
    BY <1>3
  <1>5. Sweep(tree, agents, cost) = r[Cardinality(agents)]
    BY DEF Sweep
  <1> HIDE DEF r
  <1>6. r[0] = tree /\ \A n \in 1 .. Cardinality(agents) : r[n] = Relax(r[n - 1], agents, cost, InOrder(agents)[n])
    BY <1>4
  <1>7. QED
    BY <1>5, <1>6

(* The tree grows from the source sweep by sweep.                          *)
LEMMA TreeSteps ==
  ASSUME NEW agents, NEW cost, NEW source, Cardinality(agents) \in Nat \ {0}
  PROVE  \E f : /\ f[0] = Root(source)
                /\ \A n \in 1 .. Sweeps(Cardinality(agents)) : f[n] = Sweep(f[n - 1], agents, cost)
                /\ ShortestPathTree(agents, cost, source) = f[Sweeps(Cardinality(agents))]
  <1>0. Sweeps(Cardinality(agents)) \in Nat
    BY DEF Sweeps
  <1> DEFINE Defines(f, k) ==
               f = [n \in 0 .. k |-> IF n = 0 THEN Root(source)
                                     ELSE Sweep(f[n - 1], agents, cost)]
             S == {k \in Nat : \E f : Defines(f, k)}
  <1>1. 0 \in S
    <2>1. Defines([n \in 0 .. 0 |-> Root(source)], 0)
      OBVIOUS
    <2>2. QED
      BY <2>1
  <1>2. ASSUME NEW k \in Nat, k \in S PROVE k + 1 \in S
    <2>1. PICK f : Defines(f, k)
      BY <1>2
    <2> DEFINE g == [n \in 0 .. k + 1 |-> IF n = 0 THEN Root(source)
                                          ELSE Sweep(f[n - 1], agents, cost)]
    <2>2. \A n \in 0 .. k : g[n] = f[n]
      BY <2>1
    <2>3. g = [n \in 0 .. k + 1 |-> IF n = 0 THEN Root(source)
                                    ELSE Sweep(f[n - 1], agents, cost)]
      OBVIOUS
    <2> HIDE DEF g, Defines
    <2>4. \A n \in 0 .. k + 1 : n # 0 => n - 1 \in 0 .. k /\ g[n - 1] = f[n - 1]
      BY <2>2
    <2> USE DEF Defines
    <2>5. Defines(g, k + 1)
      BY <2>3, <2>4
    <2> HIDE DEF Defines
    <2>6. QED
      BY <2>5
  <1>3. \E f : Defines(f, Sweeps(Cardinality(agents)))
    <2> HIDE DEF S
    <2>1. Nat \subseteq S
      BY <1>1, <1>2, SetInduction
    <2>2. Sweeps(Cardinality(agents)) \in S
      BY <1>0, <2>1
    <2>3. QED
      BY <2>2 DEF S
  <1> DEFINE r == CHOOSE f : Defines(f, Sweeps(Cardinality(agents)))
  <1>4. Defines(r, Sweeps(Cardinality(agents)))
    BY <1>3
  <1>5. ShortestPathTree(agents, cost, source) = r[Sweeps(Cardinality(agents))]
    BY DEF ShortestPathTree
  <1> HIDE DEF r
  <1>6. r[0] = Root(source) /\ \A n \in 1 .. Sweeps(Cardinality(agents)) : r[n] = Sweep(r[n - 1], agents, cost)
    BY <1>0, <1>4
  <1>7. QED
    BY <1>5, <1>6

(* A way back goes from predecessor to predecessor.                        *)
LEMMA WaySteps ==
  ASSUME NEW tree, NEW dest, NEW k \in Nat
  PROVE  \E f : /\ f[0] = dest
                /\ \A n \in 1 .. k : f[n] = tree[f[n - 1]].pred
                /\ WayBack(tree, dest, k) = f
  <1> DEFINE Defines(f, j) ==
               f = [n \in 0 .. j |-> IF n = 0 THEN dest
                                     ELSE tree[f[n - 1]].pred]
             S == {j \in Nat : \E f : Defines(f, j)}
  <1>1. 0 \in S
    <2>1. Defines([n \in 0 .. 0 |-> dest], 0)
      OBVIOUS
    <2>2. QED
      BY <2>1
  <1>2. ASSUME NEW j \in Nat, j \in S PROVE j + 1 \in S
    <2>1. PICK f : Defines(f, j)
      BY <1>2
    <2> DEFINE g == [n \in 0 .. j + 1 |-> IF n = 0 THEN dest
                                          ELSE tree[f[n - 1]].pred]
    <2>2. \A n \in 0 .. j : g[n] = f[n]
      BY <2>1
    <2>3. g = [n \in 0 .. j + 1 |-> IF n = 0 THEN dest
                                    ELSE tree[f[n - 1]].pred]
      OBVIOUS
    <2> HIDE DEF g, Defines
    <2>4. \A n \in 0 .. j + 1 : n # 0 => n - 1 \in 0 .. j /\ g[n - 1] = f[n - 1]
      BY <2>2
    <2> USE DEF Defines
    <2>5. Defines(g, j + 1)
      BY <2>3, <2>4
    <2> HIDE DEF Defines
    <2>6. QED
      BY <2>5
  <1>3. \E f : Defines(f, k)
    <2> HIDE DEF S
    <2>1. Nat \subseteq S
      BY <1>1, <1>2, SetInduction
    <2>2. k \in S
      BY <2>1
    <2>3. QED
      BY <2>2 DEF S
  <1> DEFINE r == CHOOSE f : Defines(f, k)
  <1>4. Defines(r, k)
    BY <1>3
  <1>5. WayBack(tree, dest, k) = r
    BY DEF WayBack
  <1> HIDE DEF r
  <1>6. r[0] = dest /\ \A n \in 1 .. k : r[n] = tree[r[n - 1]].pred
    BY <1>4
  <1>7. QED
    BY <1>5, <1>6

(* A product is made factor by factor.                                     *)
LEMMA ProductSteps ==
  ASSUME NEW s, Len(s) \in Nat
  PROVE  \E f : /\ f[0] = Whole
                /\ \A n \in 1 .. Len(s) : f[n] = Scaled(f[n - 1], s[n])
                /\ Product(s) = f[Len(s)]
  <1> DEFINE Defines(f, k) ==
               f = [n \in 0 .. k |-> IF n = 0 THEN Whole
                                     ELSE Scaled(f[n - 1], s[n])]
             S == {k \in Nat : \E f : Defines(f, k)}
  <1>1. 0 \in S
    <2>1. Defines([n \in 0 .. 0 |-> Whole], 0)
      OBVIOUS
    <2>2. QED
      BY <2>1
  <1>2. ASSUME NEW k \in Nat, k \in S PROVE k + 1 \in S
    <2>1. PICK f : Defines(f, k)
      BY <1>2
    <2> DEFINE g == [n \in 0 .. k + 1 |-> IF n = 0 THEN Whole
                                          ELSE Scaled(f[n - 1], s[n])]
    <2>2. \A n \in 0 .. k : g[n] = f[n]
      BY <2>1
    <2>3. g = [n \in 0 .. k + 1 |-> IF n = 0 THEN Whole
                                    ELSE Scaled(f[n - 1], s[n])]
      OBVIOUS
    <2> HIDE DEF g, Defines
    <2>4. \A n \in 0 .. k + 1 : n # 0 => n - 1 \in 0 .. k /\ g[n - 1] = f[n - 1]
      BY <2>2
    <2> USE DEF Defines
    <2>5. Defines(g, k + 1)
      BY <2>3, <2>4
    <2> HIDE DEF Defines
    <2>6. QED
      BY <2>5
  <1>3. \E f : Defines(f, Len(s))
    <2> HIDE DEF S
    <2>1. Nat \subseteq S
      BY <1>1, <1>2, SetInduction
    <2>2. Len(s) \in S
      BY <2>1
    <2>3. QED
      BY <2>2 DEF S
  <1> DEFINE r == CHOOSE f : Defines(f, Len(s))
  <1>4. Defines(r, Len(s))
    BY <1>3
  <1>5. Product(s) = r[Len(s)]
    BY DEF Product
  <1> HIDE DEF r
  <1>6. r[0] = Whole /\ \A n \in 1 .. Len(s) : r[n] = Scaled(r[n - 1], s[n])
    BY <1>4
  <1>7. QED
    BY <1>5, <1>6

(* Every level of a chain is reached from the one before.                  *)
LEMMA ReachSteps ==
  ASSUME NEW caps, Len(caps) \in Nat
  PROVE  \E f : /\ f[0] = Certain
                /\ \A n \in 1 .. Len(caps) : f[n] = Escalates(f[n - 1], caps[n])
                /\ ProbReach(caps) = f
  <1> DEFINE Defines(f, k) ==
               f = [n \in 0 .. k |-> IF n = 0 THEN Certain
                                     ELSE Escalates(f[n - 1], caps[n])]
             S == {k \in Nat : \E f : Defines(f, k)}
  <1>1. 0 \in S
    <2>1. Defines([n \in 0 .. 0 |-> Certain], 0)
      OBVIOUS
    <2>2. QED
      BY <2>1
  <1>2. ASSUME NEW k \in Nat, k \in S PROVE k + 1 \in S
    <2>1. PICK f : Defines(f, k)
      BY <1>2
    <2> DEFINE g == [n \in 0 .. k + 1 |-> IF n = 0 THEN Certain
                                          ELSE Escalates(f[n - 1], caps[n])]
    <2>2. \A n \in 0 .. k : g[n] = f[n]
      BY <2>1
    <2>3. g = [n \in 0 .. k + 1 |-> IF n = 0 THEN Certain
                                    ELSE Escalates(f[n - 1], caps[n])]
      OBVIOUS
    <2> HIDE DEF g, Defines
    <2>4. \A n \in 0 .. k + 1 : n # 0 => n - 1 \in 0 .. k /\ g[n - 1] = f[n - 1]
      BY <2>2
    <2> USE DEF Defines
    <2>5. Defines(g, k + 1)
      BY <2>3, <2>4
    <2> HIDE DEF Defines
    <2>6. QED
      BY <2>5
  <1>3. \E f : Defines(f, Len(caps))
    <2> HIDE DEF S
    <2>1. Nat \subseteq S
      BY <1>1, <1>2, SetInduction
    <2>2. Len(caps) \in S
      BY <2>1
    <2>3. QED
      BY <2>2 DEF S
  <1> DEFINE r == CHOOSE f : Defines(f, Len(caps))
  <1>4. Defines(r, Len(caps))
    BY <1>3
  <1>5. ProbReach(caps) = r
    BY DEF ProbReach
  <1> HIDE DEF r
  <1>6. r[0] = Certain /\ \A n \in 1 .. Len(caps) : r[n] = Escalates(r[n - 1], caps[n])
    BY <1>4
  <1>7. QED
    BY <1>5, <1>6

-----------------------------------------------------------------------------
(* Metrics                                                                 *)

Capability == [quality : 0 .. 10, latency : Nat, cost : Nat]
Metrics == [quality : 0 .. Whole, latency : Nat, cost : Nat]

\* What the search relies on: the agents are known and their capabilities and
\* latencies are what agents register.
Skilled(g, agents) ==
    /\ IsFiniteSet(agents) /\ agents \subseteq Nat
    /\ \A i \in agents : Cap(g, i) \in Capability /\ TrustOf(g, i) \in Int
    /\ \A i, j \in agents : Transfer(g, i, j) \in Nat
    /\ \A e \in DOMAIN g.adjacency : g.adjacency[e] \in Nat

(* A function on 1 .. n is a sequence of length n. *)
LEMMA LenOf ==
  ASSUME NEW X, NEW n \in Nat, NEW s \in [1 .. n -> X]
  PROVE  s \in Seq(X) /\ Len(s) = n /\ Len(s) \in Nat
  OBVIOUS

(* A sum over a sequence of naturals is a natural, at least each of its terms. *)
LEMMA SumOf ==
  ASSUME NEW n \in Nat, NEW s \in [1 .. n -> Nat]
  PROVE  /\ SumFunction(s) \in Nat
         /\ \A k \in 1 .. n : s[k] <= SumFunction(s)
  <1>1. IsFiniteSet(1 .. n) /\ DOMAIN s = 1 .. n
    BY Interval
  <1>2. NatOn(s, 1 .. n)
    BY DEF NatOn
  <1> DEFINE D == 1 .. n
  <1>3. IsFiniteSet(D) /\ NatOn(s, D) /\ DOMAIN s = D
    BY <1>1, <1>2
  <1> HIDE DEF D
  <1>4. /\ SumFunctionOnSet(s, D) \in Nat
        /\ \A k \in D : s[k] <= SumFunctionOnSet(s, D)
    BY <1>3, SumNat
  <1>5. SumFunction(s) = SumFunctionOnSet(s, D)
    BY <1>3 DEF SumFunction
  <1>6. QED
    BY <1>4, <1>5 DEF D

(* The sum of one number. *)
LEMMA SumOfOne ==
  ASSUME NEW s, DOMAIN s = 1 .. 1, s[1] \in Int
  PROVE  SumFunction(s) = s[1]
  <1> DEFINE D == 1 .. 1
  <1>1. D = {1} /\ D \ {1} = {}
    OBVIOUS
  <1>2. IsFiniteSet(D) /\ IntOn(s, D) /\ 1 \in D
    BY <1>1, FS_Singleton DEF IntOn
  <1> HIDE DEF D
  <1>3. SumFunctionOnSet(s, D) = s[1] + SumFunctionOnSet(s, D \ {1})
    BY <1>2, SumTakeOut
  <1>4. SumFunctionOnSet(s, D) = s[1] + 0
    BY <1>1, <1>3, SumEmpty
  <1>5. SumFunction(s) = SumFunctionOnSet(s, D)
    BY DEF SumFunction, D
  <1>6. QED
    BY <1>4, <1>5

(* The empty sum. *)
LEMMA SumOfNone ==
  ASSUME NEW s, DOMAIN s = {}
  PROVE  SumFunction(s) = 0
  BY SumEmpty DEF SumFunction

(* Scaling by a number of tenths makes nothing larger. *)
LEMMA Tenths ==
  ASSUME NEW x \in Nat, NEW c \in 0 .. 10
  PROVE  Scaled(x, c) \in Nat /\ Scaled(x, c) <= x
  <1>1. c = 0 \/ c = 1 \/ c = 2 \/ c = 3 \/ c = 4 \/ c = 5 \/ c = 6 \/ c = 7 \/ c = 8
          \/ c = 9 \/ c = 10
    OBVIOUS
  <1>2. QED
    BY <1>1 DEF Scaled

TenthsOn(s) == \A n \in 1 .. Len(s) : s[n] \in 0 .. 10

(* A product is at most its first factor.                                  *)
LEMMA ProductBounds ==
  ASSUME NEW s, Len(s) \in Nat, TenthsOn(s)
  PROVE  /\ Product(s) \in 0 .. Whole
         /\ Len(s) > 0 => Product(s) <= Scaled(Whole, s[1])
  <1>0. Whole \in Nat
    BY DEF Whole
  <1>1. PICK f : /\ f[0] = Whole
                 /\ \A n \in 1 .. Len(s) : f[n] = Scaled(f[n - 1], s[n])
                 /\ Product(s) = f[Len(s)]
    BY ProductSteps
  <1> DEFINE k == Len(s)
             first == Scaled(Whole, s[1])
             S == {n \in Nat : n <= k => f[n] \in 0 .. Whole /\ (n > 0 => f[n] <= first)}
  <1>2. 0 \in S
    BY <1>0, <1>1
  <1>3. ASSUME NEW n \in Nat, n \in S PROVE n + 1 \in S
    <2> SUFFICES ASSUME n + 1 <= k
                 PROVE  f[n + 1] \in 0 .. Whole /\ f[n + 1] <= first
      OBVIOUS
    <2>1. n + 1 \in 1 .. k /\ f[n] \in 0 .. Whole /\ (n > 0 => f[n] <= first)
      BY <1>3
    <2>2. f[n + 1] = Scaled(f[n], s[n + 1]) /\ s[n + 1] \in 0 .. 10 /\ f[n] \in Nat
      BY <1>0, <1>1, <2>1 DEF TenthsOn
    <2>3. s[1] \in 0 .. 10
      BY <2>1 DEF TenthsOn
    <2> HIDE DEF first
    <2>4. f[n + 1] \in Nat /\ f[n + 1] <= f[n]
      BY <2>2, Tenths
    <2>5. CASE n > 0
      <3>1. first \in Int
        <4>1. \A x \in Nat, c \in 0 .. 10 : Scaled(x, c) \in Nat
          BY Tenths
        <4>2. Scaled(Whole, s[1]) \in Nat
          BY <1>0, <2>3, <4>1
        <4>3. QED
          BY <4>2 DEF first
      <3>2. QED
        BY <1>0, <2>1, <2>4, <2>5, <3>1
    <2>6. CASE n = 0
      BY <1>0, <1>1, <2>1, <2>2, <2>4, <2>6 DEF first
    <2>7. QED
      BY <2>5, <2>6
  <1>4. k \in S
    <2> HIDE DEF S
    <2>1. Nat \subseteq S
      BY <1>2, <1>3, SetInduction
    <2>2. QED
      BY <2>1
  <1>5. QED
    BY <1>0, <1>1, <1>4

(* The product of qualities along a path stays a quality. *)
LEMMA ProductFacts ==
  ASSUME NEW k \in Nat, NEW s \in [1 .. k -> 0 .. 10]
  PROVE  /\ Product(s) \in 0 .. Whole
         /\ k > 0 => Product(s) <= Scaled(Whole, s[1])
  <1>1. Len(s) = k /\ Len(s) \in Nat /\ TenthsOn(s)
    BY LenOf DEF TenthsOn
  <1>2. QED
    BY <1>1, ProductBounds

(* A path of one agent has that agent's estimates for metrics. *)
LEMMA MetricsOfOne ==
  ASSUME NEW g, NEW i, Cap(g, i) \in Capability
  PROVE  /\ PathMetrics(g, <<i>>).quality = Scaled(Whole, Cap(g, i).quality)
         /\ PathMetrics(g, <<i>>).latency = Fine * Cap(g, i).latency
         /\ PathMetrics(g, <<i>>).cost = Fine * Cap(g, i).cost
  <1> DEFINE caps == [n \in 1 .. 1 |-> Cap(g, i)]
             none == [n \in 1 .. 0 |-> Transfer(g, <<i>>[n], <<i>>[n + 1])]
             q == [n \in 1 .. 1 |-> Cap(g, i).quality]
             l == [n \in 1 .. 1 |-> Cap(g, i).latency]
             c == [n \in 1 .. 1 |-> Cap(g, i).cost]
  <1>1. /\ Cap(g, i).quality \in 0 .. 10 /\ Cap(g, i).latency \in Nat /\ Cap(g, i).cost \in Nat
    BY DEF Capability
  <1>2. Len(caps) = 1
    BY LenOf
  <1>3. /\ q = [n \in 1 .. Len(caps) |-> caps[n].quality]
        /\ l = [n \in 1 .. Len(caps) |-> caps[n].latency]
        /\ c = [n \in 1 .. Len(caps) |-> caps[n].cost]
    BY <1>2
  <1>4. PathMetrics(g, <<i>>) = ComputeRouteMetrics(caps, none)
    <2>1. [n \in 1 .. Len(<<i>>) |-> Cap(g, <<i>>[n])] = caps
      OBVIOUS
    <2>2. [n \in 1 .. Len(<<i>>) - 1 |-> Transfer(g, <<i>>[n], <<i>>[n + 1])] = none
      OBVIOUS
    <2>3. QED
      BY <2>1, <2>2 DEF PathMetrics
  <1>5. PathMetrics(g, <<i>>) = [quality |-> Product(q),
                                 latency |-> Fine * (SumFunction(l) + SumFunction(none)),
                                 cost |-> Fine * SumFunction(c)]
    <2> HIDE DEF caps, none, q, l, c
    <2>1. QED
      BY <1>3, <1>4 DEF ComputeRouteMetrics
  <1>6. SumFunction(l) = Cap(g, i).latency
    <2>1. DOMAIN l = 1 .. 1 /\ l[1] = Cap(g, i).latency
      OBVIOUS
    <2> HIDE DEF l
    <2>2. QED
      BY <1>1, <2>1, SumOfOne
  <1>7. SumFunction(c) = Cap(g, i).cost
    <2>1. DOMAIN c = 1 .. 1 /\ c[1] = Cap(g, i).cost
      OBVIOUS
    <2> HIDE DEF c
    <2>2. QED
      BY <1>1, <2>1, SumOfOne
  <1>8. SumFunction(none) = 0
    <2>1. DOMAIN none = {}
      OBVIOUS
    <2> HIDE DEF none
    <2>2. QED
      BY <2>1, SumOfNone
  <1>9. Product(q) = Scaled(Whole, Cap(g, i).quality)
    <2>1. q \in [1 .. 1 -> 0 .. 10] /\ q[1] = Cap(g, i).quality
      BY <1>1
    <2> HIDE DEF q
    <2>2. Len(q) = 1
      BY <2>1, LenOf
    <2>3. PICK f : /\ f[0] = Whole
                   /\ \A n \in 1 .. 1 : f[n] = Scaled(f[n - 1], q[n])
                   /\ Product(q) = f[1]
      BY <2>2, ProductSteps
    <2>4. f[1] = Scaled(f[1 - 1], q[1])
      BY <2>3
    <2>5. f[1 - 1] = Whole
      BY <2>3
    <2>6. QED
      BY <2>1, <2>3, <2>4, <2>5
  <1>10. QED
    <2> HIDE DEF q, l, c, none
    <2>1. Cap(g, i).latency + 0 = Cap(g, i).latency
      BY <1>1
    <2>2. QED
      BY <1>5, <1>6, <1>7, <1>8, <1>9, <2>1

(* A path's metrics are numbers, and no better than its first agent's.     *)
LEMMA PathFacts ==
  ASSUME NEW g, NEW agents, Skilled(g, agents),
         NEW k \in Nat \ {0}, NEW p \in [1 .. k -> agents]
  PROVE  /\ PathMetrics(g, p) \in Metrics
         /\ PathMetrics(g, p).quality <= PathMetrics(g, <<p[1]>>).quality
         /\ PathMetrics(g, p).latency >= PathMetrics(g, <<p[1]>>).latency
         /\ PathMetrics(g, p).cost >= PathMetrics(g, <<p[1]>>).cost
  <1> DEFINE caps == [n \in 1 .. k |-> Cap(g, p[n])]
             hops == [n \in 1 .. k - 1 |-> Transfer(g, p[n], p[n + 1])]
             q == [n \in 1 .. k |-> Cap(g, p[n]).quality]
             l == [n \in 1 .. k |-> Cap(g, p[n]).latency]
             c == [n \in 1 .. k |-> Cap(g, p[n]).cost]
  <1>0. Len(p) = k
    BY LenOf
  <1>1. \A n \in 1 .. k : Cap(g, p[n]) \in Capability
    BY DEF Skilled
  <1>2. \A n \in 1 .. k : /\ Cap(g, p[n]).quality \in 0 .. 10
                          /\ Cap(g, p[n]).latency \in Nat /\ Cap(g, p[n]).cost \in Nat
    BY <1>1 DEF Capability
  <1>3. Len(caps) = k
    BY <1>1, LenOf
  <1>4. /\ q = [n \in 1 .. Len(caps) |-> caps[n].quality]
        /\ l = [n \in 1 .. Len(caps) |-> caps[n].latency]
        /\ c = [n \in 1 .. Len(caps) |-> caps[n].cost]
    BY <1>3
  <1>5. PathMetrics(g, p) = ComputeRouteMetrics(caps, hops)
    BY <1>0 DEF PathMetrics
  <1>6. PathMetrics(g, p) = [quality |-> Product(q),
                             latency |-> Fine * (SumFunction(l) + SumFunction(hops)),
                             cost |-> Fine * SumFunction(c)]
    <2> HIDE DEF caps, hops, q, l, c
    <2>1. QED
      BY <1>4, <1>5 DEF ComputeRouteMetrics
  <1>7. /\ q \in [1 .. k -> 0 .. 10] /\ l \in [1 .. k -> Nat] /\ c \in [1 .. k -> Nat]
        /\ q[1] = Cap(g, p[1]).quality /\ l[1] = Cap(g, p[1]).latency
        /\ c[1] = Cap(g, p[1]).cost
    BY <1>2
  <1>8. hops \in [1 .. k - 1 -> Nat]
    <2>1. \A n \in 1 .. k - 1 : p[n] \in agents /\ p[n + 1] \in agents
      OBVIOUS
    <2>2. QED
      BY <2>1 DEF Skilled
  <1> HIDE DEF caps, hops, q, l, c
  <1>9. /\ Product(q) \in 0 .. Whole /\ Product(q) <= Scaled(Whole, q[1])
    <2>1. k \in Nat /\ k > 0
      OBVIOUS
    <2>2. QED
      BY <1>7, <2>1, ProductFacts
  <1>10. /\ SumFunction(l) \in Nat /\ l[1] <= SumFunction(l)
         /\ SumFunction(c) \in Nat /\ c[1] <= SumFunction(c)
    <2>1. 1 \in 1 .. k
      OBVIOUS
    <2>2. QED
      BY <1>7, <2>1, SumOf
  <1>11. SumFunction(hops) \in Nat
    <2>1. k - 1 \in Nat
      OBVIOUS
    <2>2. QED
      BY <1>8, <2>1, SumOf
  <1>12. /\ PathMetrics(g, <<p[1]>>).quality = Scaled(Whole, q[1])
         /\ PathMetrics(g, <<p[1]>>).latency = Fine * l[1]
         /\ PathMetrics(g, <<p[1]>>).cost = Fine * c[1]
    <2>1. Cap(g, p[1]) \in Capability
      BY <1>1
    <2>2. QED
      BY <1>7, <2>1, MetricsOfOne
  <1>13. PathMetrics(g, p) \in Metrics
    BY <1>6, <1>9, <1>10, <1>11 DEF Metrics, Fine
  <1>14. l[1] \in Nat /\ c[1] \in Nat
    BY <1>7
  <1>15. QED
    BY <1>6, <1>9, <1>10, <1>11, <1>12, <1>13, <1>14 DEF Fine

-----------------------------------------------------------------------------
(* Shortest paths                                                          *)

Network(agents, cost) ==
    /\ IsFiniteSet(agents) /\ agents \subseteq Nat
    /\ DOMAIN cost \subseteq agents \X agents
    /\ \A u, v \in agents : <<u, v>> \in DOMAIN cost => cost[<<u, v>>] \in Nat

Rooted(tree, agents, source) ==
    /\ source \in DOMAIN tree /\ DOMAIN tree \subseteq agents
    /\ \A v \in DOMAIN tree : tree[v].dist \in Nat
    /\ tree[source].dist = 0

\* Every agent but the source was reached over an edge, and the agent before it
\* is nearer, if only later on, by at least the cost of that edge.
Linked(tree, cost, source) ==
    \A v \in DOMAIN tree \ {source} :
        /\ tree[v].pred \in DOMAIN tree
        /\ <<tree[v].pred, v>> \in DOMAIN cost
        /\ tree[tree[v].pred].dist + cost[<<tree[v].pred, v>>] <= tree[v].dist

\* No agents lead only to one another, however cheap the edges between them.
Acyclic(tree, source) ==
    \A S \in SUBSET (DOMAIN tree \ {source}) :
        S # {} => \E v \in S : tree[v].pred \notin S

IsTree(tree, agents, cost, source) ==
    Rooted(tree, agents, source) /\ Linked(tree, cost, source) /\ Acyclic(tree, source)

Closer(old, new) ==
    \A v \in DOMAIN old : v \in DOMAIN new /\ new[v].dist <= old[v].dist

(* The tree the search starts from: its source alone. *)
LEMMA RootIsTree ==
  ASSUME NEW agents, NEW cost, NEW source \in agents
  PROVE  IsTree(Root(source), agents, cost, source)
  <1> DEFINE tree == Root(source)
  <1>1. DOMAIN tree = {source} /\ tree[source].dist = 0
    BY DEF Root
  <1> HIDE DEF tree
  <1>2. Rooted(tree, agents, source)
    BY <1>1 DEF Rooted
  <1>3. Linked(tree, cost, source)
    BY <1>1 DEF Linked
  <1>4. Acyclic(tree, source)
    BY <1>1 DEF Acyclic
  <1>5. QED
    BY <1>2, <1>3, <1>4 DEF IsTree, tree

(* Relaxing the edges of an agent keeps the tree a tree, brings no agent    *)
(* further away, and brings those its edges lead to within reach.          *)
LEMMA RelaxFacts ==
  ASSUME NEW agents, NEW cost, NEW source \in agents, Network(agents, cost),
         NEW tree, IsTree(tree, agents, cost, source), NEW u \in agents
  PROVE  /\ IsTree(Relax(tree, agents, cost, u), agents, cost, source)
         /\ Closer(tree, Relax(tree, agents, cost, u))
         /\ \A v \in agents : u \in DOMAIN tree /\ <<u, v>> \in DOMAIN cost =>
              /\ v \in DOMAIN Relax(tree, agents, cost, u)
              /\ Relax(tree, agents, cost, u)[v].dist <= tree[u].dist + cost[<<u, v>>]
  <1> DEFINE B == Improved(tree, agents, cost, u)
             new == Relax(tree, agents, cost, u)
             D == DOMAIN tree
  <1>1. /\ DOMAIN new = D \cup B
        /\ \A v \in B : new[v].dist = tree[u].dist + cost[<<u, v>>] /\ new[v].pred = u
        /\ \A v \in D \ B : new[v] = tree[v]
    BY DEF Relax
  <1>2. /\ B \subseteq agents
        /\ \A v \in agents :
             v \in B <=> /\ u \in D /\ <<u, v>> \in DOMAIN cost
                         /\ v \in D => tree[u].dist + cost[<<u, v>>] < tree[v].dist
    BY DEF Improved
  <1> HIDE DEF B, new
  <1>3. /\ source \in D /\ D \subseteq agents /\ tree[source].dist = 0
        /\ \A v \in D : tree[v].dist \in Nat
    BY DEF IsTree, Rooted
  <1>4. \A v \in agents : <<u, v>> \in DOMAIN cost => cost[<<u, v>>] \in Nat
    BY DEF Network
  <1>5. ASSUME NEW v \in B
        PROVE  /\ v \in agents /\ u \in D /\ <<u, v>> \in DOMAIN cost
               /\ cost[<<u, v>>] \in Nat /\ tree[u].dist \in Nat
               /\ v \in D => tree[v].dist \in Nat /\ tree[u].dist < tree[v].dist
                              /\ tree[u].dist + cost[<<u, v>>] < tree[v].dist
    <2>1. v \in agents /\ u \in D /\ <<u, v>> \in DOMAIN cost
      BY <1>2
    <2>2. cost[<<u, v>>] \in Nat /\ tree[u].dist \in Nat
      BY <1>3, <1>4, <2>1
    <2>3. CASE v \in D
      <3>1. tree[v].dist \in Nat /\ tree[u].dist + cost[<<u, v>>] < tree[v].dist
        BY <1>2, <1>3, <2>1, <2>3
      <3>2. QED
        BY <2>1, <2>2, <3>1
    <2>4. QED
      BY <2>1, <2>2, <2>3
  <1>5a. source \notin B
    <2> SUFFICES ASSUME source \in B PROVE FALSE
      OBVIOUS
    <2>1. tree[source].dist = 0 /\ source \in D
      BY <1>3
    <2>2. tree[u].dist \in Nat /\ tree[u].dist < tree[source].dist
      BY <1>5, <2>1
    <2>3. QED
      BY <2>1, <2>2
  <1>5b. u \notin B
    <2> SUFFICES ASSUME u \in B PROVE FALSE
      OBVIOUS
    <2>1. tree[u].dist \in Nat /\ tree[u].dist < tree[u].dist
      BY <1>5
    <2>2. QED
      BY <2>1
  <1>6. \A v \in DOMAIN new : new[v].dist \in Nat
    <2> SUFFICES ASSUME NEW v \in DOMAIN new PROVE new[v].dist \in Nat
      OBVIOUS
    <2>1. CASE v \in B
      <3>1. new[v].dist = tree[u].dist + cost[<<u, v>>]
        BY <1>1, <2>1
      <3>2. QED
        BY <1>5, <2>1, <3>1
    <2>2. CASE v \notin B
      BY <1>1, <1>3, <2>2
    <2>3. QED
      BY <2>1, <2>2
  <1>7. \A v \in D : v \in DOMAIN new /\ new[v].dist <= tree[v].dist
    <2> SUFFICES ASSUME NEW v \in D PROVE v \in DOMAIN new /\ new[v].dist <= tree[v].dist
      OBVIOUS
    <2>0. v \in DOMAIN new /\ tree[v].dist \in Nat
      BY <1>1, <1>3
    <2>1. CASE v \in B
      <3>1. new[v].dist = tree[u].dist + cost[<<u, v>>]
        BY <1>1, <2>1
      <3>2. QED
        BY <1>5, <2>0, <2>1, <3>1
    <2>2. CASE v \notin B
      BY <1>1, <2>0, <2>2
    <2>3. QED
      BY <2>1, <2>2
  <1>8. Closer(tree, new)
    BY <1>7 DEF Closer
  <1>9. ASSUME NEW v \in agents, u \in D, <<u, v>> \in DOMAIN cost
        PROVE  v \in DOMAIN new /\ new[v].dist <= tree[u].dist + cost[<<u, v>>]
    BY <1>1, <1>2, <1>3, <1>4, <1>9
  <1>10. Rooted(new, agents, source)
    <2>1. new[source] = tree[source] /\ source \in DOMAIN new /\ DOMAIN new \subseteq agents
      BY <1>1, <1>2, <1>3, <1>5a
    <2>2. QED
      BY <1>3, <1>6, <2>1 DEF Rooted
  <1>11. Linked(new, cost, source)
    <2> SUFFICES ASSUME NEW v \in DOMAIN new, v # source
                 PROVE  /\ new[v].pred \in DOMAIN new
                        /\ <<new[v].pred, v>> \in DOMAIN cost
                        /\ new[new[v].pred].dist + cost[<<new[v].pred, v>>] <= new[v].dist
      BY DEF Linked
    <2>1. CASE v \in B
      <3>1. /\ new[v].pred = u /\ u \in D /\ <<u, v>> \in DOMAIN cost
            /\ new[v].dist = tree[u].dist + cost[<<u, v>>]
        BY <1>1, <1>2, <2>1
      <3>2. new[u].dist <= tree[u].dist /\ u \in DOMAIN new
        BY <1>7, <3>1
      <3>3. cost[<<u, v>>] \in Nat /\ tree[u].dist \in Nat /\ new[u].dist \in Nat
        BY <1>2, <1>3, <1>4, <1>6, <2>1, <3>1, <3>2
      <3>4. QED
        BY <3>1, <3>2, <3>3
    <2>2. CASE v \notin B
      <3>1. v \in D /\ new[v] = tree[v]
        BY <1>1, <2>2
      <3> DEFINE p == tree[v].pred
      <3>2. /\ p \in D /\ <<p, v>> \in DOMAIN cost
            /\ tree[p].dist + cost[<<p, v>>] <= tree[v].dist
        BY <3>1 DEF IsTree, Linked
      <3> HIDE DEF p
      <3>3. new[p].dist <= tree[p].dist /\ p \in DOMAIN new
        BY <1>7, <3>2
      <3>4. /\ cost[<<p, v>>] \in Nat /\ tree[p].dist \in Nat /\ new[p].dist \in Nat
            /\ tree[v].dist \in Nat
        <4>1. p \in agents /\ v \in agents
          BY <1>3, <3>1, <3>2
        <4>2. QED
          BY <1>3, <1>6, <3>1, <3>2, <3>3, <4>1 DEF Network
      <3>5. new[v].pred = p /\ new[v].dist = tree[v].dist
        BY <3>1 DEF p
      <3>6. QED
        BY <3>2, <3>3, <3>4, <3>5
    <2>3. QED
      BY <2>1, <2>2
  <1>12. Acyclic(new, source)
    <2> SUFFICES ASSUME NEW S \in SUBSET (DOMAIN new \ {source}), S # {},
                        \A v \in S : new[v].pred \in S
                 PROVE  FALSE
      BY DEF Acyclic
    <2>0. \A T \in SUBSET (D \ {source}) : T # {} => \E v \in T : tree[v].pred \notin T
      BY DEF IsTree, Acyclic
    <2>1. CASE S \cap B = {}
      <3>1. S \in SUBSET (D \ {source})
        BY <1>1, <2>1
      <3>2. \A v \in S : tree[v].pred \in S
        BY <1>1, <2>1
      <3>3. QED
        BY <2>0, <3>1, <3>2
    <2>2. CASE S \cap B # {}
      <3>1. u \in S /\ u \in D
        BY <1>1, <1>2, <2>2
      <3> DEFINE T == {x \in S \ B : tree[x].dist <= tree[u].dist}
      <3>2. T \in SUBSET (D \ {source})
        BY <1>1
      <3>3. u \in T
        BY <1>3, <1>5b, <3>1
      <3>4. ASSUME NEW x \in T PROVE tree[x].pred \in T
        <4> DEFINE p == tree[x].pred
        <4>1. x \in D /\ x # source /\ x \in S /\ x \notin B /\ tree[x].dist <= tree[u].dist
          BY <3>2
        <4>2. /\ p \in D /\ <<p, x>> \in DOMAIN cost
              /\ tree[p].dist + cost[<<p, x>>] <= tree[x].dist
          BY <4>1 DEF IsTree, Linked
        <4>3. p \in S
          <5>1. new[x] = tree[x]
            BY <1>1, <4>1
          <5>2. QED
            BY <4>1, <5>1
        <4> HIDE DEF p
        <4>4. cost[<<p, x>>] \in Nat
          <5>1. p \in agents /\ x \in agents
            BY <1>3, <4>1, <4>2
          <5>2. QED
            BY <4>2, <5>1 DEF Network
        <4>5. tree[p].dist <= tree[u].dist
          BY <1>3, <3>1, <4>1, <4>2, <4>4
        <4>6. p \notin B
          <5> SUFFICES ASSUME p \in B PROVE FALSE
            OBVIOUS
          <5>1. tree[p].dist \in Nat /\ tree[u].dist \in Nat /\ tree[u].dist < tree[p].dist
            BY <1>5, <4>2
          <5>2. QED
            BY <4>5, <5>1
        <4>7. QED
          BY <4>3, <4>5, <4>6 DEF p
      <3> HIDE DEF T
      <3>5. QED
        BY <2>0, <3>2, <3>3, <3>4
    <2>3. QED
      BY <2>1, <2>2
  <1>13. IsTree(new, agents, cost, source)
    BY <1>10, <1>11, <1>12 DEF IsTree
  <1>14. QED
    BY <1>8, <1>9, <1>13 DEF new

(* Sorting lists every element once.                                       *)
Lists(q, D) ==
    /\ q \in [1 .. Cardinality(D) -> D]
    /\ \A m, n \in 1 .. Cardinality(D) : q[m] = q[n] => m = n
    /\ \A i \in D : \E n \in 1 .. Cardinality(D) : q[n] = i

(* Ranking by a total order lists every element once. *)
LEMMA RankedLists ==
  ASSUME NEW D, IsFiniteSet(D), NEW up, TotalOrder(D, up)
  PROVE  Lists(Ranked(D, up), D)
  <1> DEFINE q == Ranked(D, up)
  <1>1. q = [k \in 1 .. Cardinality(D) |-> CHOOSE i \in D : Cardinality(up[i]) = k]
    BY DEF Ranked
  <1> HIDE DEF q
  <1>2. q \in Bijection(1 .. Cardinality(D), D)
    BY <1>1, Unranked
  <1> DEFINE N == 1 .. Cardinality(D)
  <1>3. q \in Bijection(N, D)
    BY <1>2
  <1> HIDE DEF N
  <1>4. /\ q \in [N -> D] /\ \A m, n \in N : q[m] = q[n] => m = n
        /\ \A i \in D : \E n \in N : q[n] = i
    BY <1>3 DEF Bijection, Injection, Surjection, IsInjective
  <1>5. QED
    BY <1>4 DEF Lists, N, q

(* So does going through the agents by index. *)
LEMMA InOrderLists ==
  ASSUME NEW agents, IsFiniteSet(agents), agents \subseteq Nat
  PROVE  Lists(InOrder(agents), agents)
  <1> DEFINE up == [i \in agents |-> {j \in agents : j <= i}]
  <1>1. up \in [agents -> SUBSET agents] /\ \A i, j \in agents : j \in up[i] <=> j <= i
    OBVIOUS
  <1>2. TotalOrder(agents, up)
    <2> HIDE DEF up
    <2>1. \A i, j \in agents : i \in up[j] \/ j \in up[i]
      BY <1>1
    <2>2. \A i, j \in agents : i \in up[j] /\ j \in up[i] => i = j
      BY <1>1
    <2>3. \A i, j, k \in agents : i \in up[j] /\ j \in up[k] => i \in up[k]
      BY <1>1
    <2>4. QED
      BY <1>1, <2>1, <2>2, <2>3 DEF TotalOrder
  <1> HIDE DEF up
  <1>3. Lists(Ranked(agents, up), agents)
    BY <1>2, RankedLists
  <1>4. QED
    BY <1>3 DEF InOrder, up

(* Coming closer is transitive. *)
LEMMA CloserTwice ==
  ASSUME NEW agents, NEW source, NEW a, NEW b, NEW c, Closer(a, b), Closer(b, c),
         Rooted(a, agents, source), Rooted(b, agents, source), Rooted(c, agents, source)
  PROVE  Closer(a, c)
  <1> SUFFICES ASSUME NEW v \in DOMAIN a
               PROVE  v \in DOMAIN c /\ c[v].dist <= a[v].dist
    BY DEF Closer
  <1>1. v \in DOMAIN b /\ v \in DOMAIN c /\ b[v].dist <= a[v].dist /\ c[v].dist <= b[v].dist
    BY DEF Closer
  <1>2. a[v].dist \in Nat /\ b[v].dist \in Nat /\ c[v].dist \in Nat
    BY <1>1 DEF Rooted
  <1>3. QED
    BY <1>1, <1>2

(* So does a sweep, for the edges of all agents.                           *)
LEMMA SweepFacts ==
  ASSUME NEW agents, NEW cost, NEW source \in agents, Network(agents, cost),
         NEW tree, IsTree(tree, agents, cost, source)
  PROVE  /\ IsTree(Sweep(tree, agents, cost), agents, cost, source)
         /\ Closer(tree, Sweep(tree, agents, cost))
         /\ \A u \in DOMAIN tree, v \in agents : <<u, v>> \in DOMAIN cost =>
              /\ v \in DOMAIN Sweep(tree, agents, cost)
              /\ Sweep(tree, agents, cost)[v].dist <= tree[u].dist + cost[<<u, v>>]
  <1> DEFINE k == Cardinality(agents)
             order == InOrder(agents)
             new == Sweep(tree, agents, cost)
             OK(t) == IsTree(t, agents, cost, source)
  <1>1. k \in Nat
    BY FS_CardinalityType DEF Network
  <1>2. PICK f : /\ f[0] = tree
                 /\ \A n \in 1 .. k : f[n] = Relax(f[n - 1], agents, cost, order[n])
                 /\ new = f[k]
    BY <1>1, SweepSteps
  <1>3. /\ \A n \in 1 .. k : order[n] \in agents
        /\ \A u \in agents : \E n \in 1 .. k : order[n] = u
    BY InOrderLists DEF Network, Lists
  <1> HIDE DEF k, order, new
  <1>4. ASSUME NEW n \in Nat, n + 1 <= k, OK(f[n])
        PROVE  /\ OK(f[n + 1]) /\ Closer(f[n], f[n + 1])
               /\ \A v \in agents :
                    order[n + 1] \in DOMAIN f[n] /\ <<order[n + 1], v>> \in DOMAIN cost =>
                      /\ v \in DOMAIN f[n + 1]
                      /\ f[n + 1][v].dist <= f[n][order[n + 1]].dist + cost[<<order[n + 1], v>>]
    <2>1. n + 1 \in 1 .. k /\ (n + 1) - 1 = n
      BY <1>1, <1>4
    <2>2. f[n + 1] = Relax(f[n], agents, cost, order[n + 1]) /\ order[n + 1] \in agents
      BY <1>2, <1>3, <2>1
    <2>3. QED
      BY <1>4, <2>2, RelaxFacts
  <1>5. \A t : OK(t) => Rooted(t, agents, source) /\ Closer(t, t)
    BY DEF IsTree, Rooted, Closer
  <1> DEFINE Better(n) == \A m \in 0 .. n : OK(f[m]) /\ Closer(f[m], f[n])
             S == {n \in Nat : n <= k => Better(n)}
  <1>6. 0 \in S
    <2>1. OK(f[0]) /\ Closer(f[0], f[0])
      BY <1>2, <1>5
    <2> HIDE DEF OK
    <2>2. QED
      BY <2>1
  <1>7. ASSUME NEW n \in Nat, n \in S PROVE n + 1 \in S
    <2> SUFFICES ASSUME n + 1 <= k PROVE Better(n + 1)
      OBVIOUS
    <2>1. Better(n)
      BY <1>1, <1>7
    <2>2. OK(f[n])
      BY <2>1
    <2>3. OK(f[n + 1]) /\ Closer(f[n], f[n + 1])
      BY <1>4, <2>2
    <2>4. ASSUME NEW m \in 0 .. n + 1 PROVE OK(f[m]) /\ Closer(f[m], f[n + 1])
      <3>1. CASE m = n + 1
        BY <1>5, <2>3, <3>1
      <3>2. CASE m \in 0 .. n
        <4>1. OK(f[m]) /\ Closer(f[m], f[n])
          BY <2>1, <3>2
        <4>2. /\ Rooted(f[m], agents, source) /\ Rooted(f[n], agents, source)
              /\ Rooted(f[n + 1], agents, source)
          BY <1>5, <2>2, <2>3, <4>1
        <4>3. QED
          BY <2>3, <4>1, <4>2, CloserTwice
      <3>3. QED
        BY <3>1, <3>2
    <2>5. QED
      BY <2>4
  <1>8. \A n \in 0 .. k : Better(n)
    <2> HIDE DEF S, Better
    <2>1. Nat \subseteq S
      BY <1>6, <1>7, SetInduction
    <2>2. QED
      BY <2>1 DEF S
  <1>9. OK(new) /\ Closer(tree, new)
    <2>1. 0 \in 0 .. k /\ k \in 0 .. k
      BY <1>1
    <2>2. Better(k)
      BY <1>8, <2>1
    <2>3. OK(f[k]) /\ Closer(f[0], f[k])
      BY <2>1, <2>2
    <2>4. QED
      BY <1>2, <2>3
  <1>10. ASSUME NEW u \in DOMAIN tree, NEW v \in agents, <<u, v>> \in DOMAIN cost
         PROVE  v \in DOMAIN new /\ new[v].dist <= tree[u].dist + cost[<<u, v>>]
    <2>1. u \in agents
      BY DEF IsTree, Rooted
    <2>2. PICK n \in 1 .. k : order[n] = u
      BY <1>3, <2>1
    <2> DEFINE m == n - 1
    <2>3. m \in Nat /\ m + 1 = n /\ m \in 0 .. k /\ n \in 0 .. k /\ 0 \in 0 .. m /\ n \in 0 .. k
          /\ k \in 0 .. k /\ m + 1 <= k /\ m \in 0 .. m
      BY <1>1, <2>2
    <2> HIDE DEF m
    <2>4. OK(f[m]) /\ Closer(f[0], f[m]) /\ OK(f[n]) /\ Closer(f[n], f[k]) /\ OK(f[k])
      <3>1. Better(m) /\ Better(k)
        BY <1>8, <2>3
      <3>2. OK(f[m]) /\ Closer(f[0], f[m])
        BY <2>3, <3>1
      <3>3. OK(f[n]) /\ Closer(f[n], f[k]) /\ OK(f[k])
        BY <2>3, <3>1
      <3>4. QED
        BY <3>2, <3>3
    <2>5. u \in DOMAIN f[m] /\ f[m][u].dist <= tree[u].dist
      BY <1>2, <2>4 DEF Closer
    <2>6. v \in DOMAIN f[n] /\ f[n][v].dist <= f[m][u].dist + cost[<<u, v>>]
      BY <1>4, <1>10, <2>2, <2>3, <2>4, <2>5
    <2>7. v \in DOMAIN f[k] /\ f[k][v].dist <= f[n][v].dist
      BY <2>4, <2>6 DEF Closer
    <2>8. /\ f[k][v].dist \in Nat /\ f[n][v].dist \in Nat /\ f[m][u].dist \in Nat
          /\ tree[u].dist \in Nat /\ cost[<<u, v>>] \in Nat
      BY <1>10, <2>1, <2>4, <2>5, <2>6, <2>7 DEF IsTree, Rooted, Network
    <2>9. QED
      BY <1>2, <2>5, <2>6, <2>7, <2>8
  <1>11. QED
    BY <1>9, <1>10 DEF new

(* The trees after each sweep.                                             *)
LEMMA GrowFacts ==
  ASSUME NEW agents, NEW cost, NEW source \in agents, Network(agents, cost),
         NEW s, s = Sweeps(Cardinality(agents))
  PROVE  \E f : /\ f[0] = Root(source)
                /\ \A n \in 1 .. s : f[n] = Sweep(f[n - 1], agents, cost)
                /\ ShortestPathTree(agents, cost, source) = f[s]
                /\ \A m \in 0 .. s : /\ IsTree(f[m], agents, cost, source)
                                     /\ Closer(f[m], f[s])
  <1> DEFINE OK(t) == IsTree(t, agents, cost, source)
  <1>0. Cardinality(agents) \in Nat \ {0}
    BY FS_CardinalityType, FS_EmptySet DEF Network
  <1>1. s \in Nat
    BY <1>0 DEF Sweeps
  <1>2. PICK f : /\ f[0] = Root(source)
                 /\ \A n \in 1 .. s : f[n] = Sweep(f[n - 1], agents, cost)
                 /\ ShortestPathTree(agents, cost, source) = f[s]
    BY <1>0, TreeSteps
  <1>3. \A t : OK(t) => Rooted(t, agents, source) /\ Closer(t, t)
    BY DEF IsTree, Rooted, Closer
  <1>4. ASSUME NEW n \in Nat, n + 1 <= s, OK(f[n])
        PROVE  OK(f[n + 1]) /\ Closer(f[n], f[n + 1])
    <2>1. n + 1 \in 1 .. s /\ (n + 1) - 1 = n
      BY <1>1, <1>4
    <2>2. f[n + 1] = Sweep(f[n], agents, cost)
      BY <1>2, <2>1
    <2>3. QED
      BY <1>4, <2>2, SweepFacts
  <1> DEFINE Better(n) == \A m \in 0 .. n : OK(f[m]) /\ Closer(f[m], f[n])
             S == {n \in Nat : n <= s => Better(n)}
  <1>5. 0 \in S
    <2>1. OK(f[0]) /\ Closer(f[0], f[0])
      BY <1>2, <1>3, RootIsTree
    <2> HIDE DEF OK
    <2>2. QED
      BY <2>1
  <1>6. ASSUME NEW n \in Nat, n \in S PROVE n + 1 \in S
    <2> SUFFICES ASSUME n + 1 <= s PROVE Better(n + 1)
      OBVIOUS
    <2>1. Better(n)
      BY <1>1, <1>6
    <2>2. OK(f[n])
      BY <2>1
    <2>3. OK(f[n + 1]) /\ Closer(f[n], f[n + 1])
      BY <1>4, <2>2
    <2>4. ASSUME NEW m \in 0 .. n + 1 PROVE OK(f[m]) /\ Closer(f[m], f[n + 1])
      <3>1. CASE m = n + 1
        BY <1>3, <2>3, <3>1
      <3>2. CASE m \in 0 .. n
        <4>1. OK(f[m]) /\ Closer(f[m], f[n])
          BY <2>1, <3>2
        <4>2. /\ Rooted(f[m], agents, source) /\ Rooted(f[n], agents, source)
              /\ Rooted(f[n + 1], agents, source)
          BY <1>3, <2>2, <2>3, <4>1
        <4>3. QED
          BY <2>3, <4>1, <4>2, CloserTwice
      <3>3. QED
        BY <3>1, <3>2
    <2>5. QED
      BY <2>4
  <1>7. Better(s)
    <2> HIDE DEF S, Better
    <2>1. Nat \subseteq S
      BY <1>5, <1>6, SetInduction
    <2>2. QED
      BY <1>1, <2>1 DEF S
  <1>8. QED
    BY <1>2, <1>7

(* A path's length is that of its beginning and its last edge. *)
LEMMA PrefixSum ==
  ASSUME NEW h, NEW m \in Nat, IntOn(h, 1 .. m + 1)
  PROVE  /\ SumFunctionOnSet(h, 1 .. m + 1) = SumFunctionOnSet(h, 1 .. m) + h[m + 1]
         /\ SumFunctionOnSet(h, 1 .. m) \in Int /\ h[m + 1] \in Int
  <1> DEFINE D == 1 .. m + 1
             E == 1 .. m
  <1>1. IsFiniteSet(D) /\ IsFiniteSet(E)
    BY Interval
  <1>2. m + 1 \in D /\ D \ {m + 1} = E /\ E \subseteq D
    OBVIOUS
  <1> HIDE DEF D, E
  <1>3. IntOn(h, D) /\ IntOn(h, E) /\ h[m + 1] \in Int
    BY <1>2 DEF IntOn, D
  <1>4. SumFunctionOnSet(h, D) = h[m + 1] + SumFunctionOnSet(h, E)
    BY <1>1, <1>2, <1>3, SumTakeOut
  <1>5. SumFunctionOnSet(h, E) \in Int
    BY <1>1, <1>3, SumType
  <1>6. QED
    BY <1>3, <1>4, <1>5 DEF D, E

\* A path of n agents.
IsPath(p, n, agents, cost) ==
    /\ p \in [1 .. n -> agents]
    /\ \A m \in 1 .. n - 1 : <<p[m], p[m + 1]>> \in DOMAIN cost

EdgesOf(p, n, cost) == [m \in 1 .. n - 1 |-> cost[<<p[m], p[m + 1]>>]]

(* The edges of a path have lengths, and their sum is the length of the path. *)
LEMMA EdgeFacts ==
  ASSUME NEW agents, NEW cost, Network(agents, cost),
         NEW n \in Nat \ {0}, NEW p, IsPath(p, n, agents, cost)
  PROVE  /\ \A m \in 1 .. n - 1 : /\ EdgesOf(p, n, cost)[m] = cost[<<p[m], p[m + 1]>>]
                                  /\ cost[<<p[m], p[m + 1]>>] \in Nat
         /\ Len(p) = n
         /\ PathCost(p, cost) = SumFunctionOnSet(EdgesOf(p, n, cost), 1 .. n - 1)
         /\ \A m \in 0 .. n - 1 : IntOn(EdgesOf(p, n, cost), 1 .. m)
         /\ PathCost(p, cost) \in Nat
  <1> DEFINE h == EdgesOf(p, n, cost)
             D == 1 .. n - 1
  <1>1. ASSUME NEW m \in 1 .. n - 1
        PROVE  h[m] = cost[<<p[m], p[m + 1]>>] /\ cost[<<p[m], p[m + 1]>>] \in Nat
    <2>1. p[m] \in agents /\ p[m + 1] \in agents /\ <<p[m], p[m + 1]>> \in DOMAIN cost
      BY DEF IsPath
    <2>2. cost[<<p[m], p[m + 1]>>] \in Nat
      BY <2>1 DEF Network
    <2>3. QED
      BY <2>2 DEF EdgesOf
  <1>2. Len(p) = n
    BY LenOf DEF IsPath
  <1>3. PathCost(p, cost) = SumFunction(h)
    BY <1>2 DEF PathCost, EdgesOf
  <1>4. DOMAIN h = D
    BY DEF EdgesOf
  <1>5. SumFunction(h) = SumFunctionOnSet(h, D)
    <2> HIDE DEF h
    <2>1. QED
      BY <1>4 DEF SumFunction
  <1>6. ASSUME NEW m \in 0 .. n - 1 PROVE IntOn(h, 1 .. m)
    <2> SUFFICES ASSUME NEW j \in 1 .. m PROVE h[j] \in Int
      BY DEF IntOn
    <2>1. j \in 1 .. n - 1
      OBVIOUS
    <2>2. h[j] = cost[<<p[j], p[j + 1]>>] /\ cost[<<p[j], p[j + 1]>>] \in Nat
      BY <1>1, <2>1
    <2> HIDE DEF h
    <2>3. QED
      BY <2>2
  <1>7. PathCost(p, cost) \in Nat
    <2>1. IsFiniteSet(D) /\ NatOn(h, D)
      <3>1. n - 1 \in Nat
        OBVIOUS
      <3>2. QED
        BY <1>1, <3>1, Interval DEF NatOn
    <2> HIDE DEF D, h
    <2>2. QED
      BY <1>3, <1>5, <2>1, SumNat
  <1>8. QED
    BY <1>1, <1>2, <1>3, <1>5, <1>6, <1>7

(* No path is shorter than the distance the sweeps found.                  *)
LEMMA NoShorterPath ==
  ASSUME NEW agents, NEW cost, NEW source \in agents, Network(agents, cost),
         NEW n \in 1 .. Cardinality(agents), NEW p, IsPath(p, n, agents, cost),
         p[1] = source
  PROVE  /\ p[n] \in DOMAIN ShortestPathTree(agents, cost, source)
         /\ ShortestPathTree(agents, cost, source)[p[n]].dist <= PathCost(p, cost)
  <1> DEFINE s == Sweeps(Cardinality(agents))
             h == EdgesOf(p, n, cost)
             tree == ShortestPathTree(agents, cost, source)
             upto(m) == SumFunctionOnSet(h, 1 .. m)
  <1>0. Cardinality(agents) \in Nat /\ s \in Nat /\ n - 1 \in 0 .. s /\ n \in Nat \ {0}
    BY FS_CardinalityType DEF Network, Sweeps
  <1>1. PICK f : /\ f[0] = Root(source)
                 /\ \A m \in 1 .. s : f[m] = Sweep(f[m - 1], agents, cost)
                 /\ tree = f[s]
                 /\ \A m \in 0 .. s : /\ IsTree(f[m], agents, cost, source)
                                      /\ Closer(f[m], f[s])
    BY GrowFacts
  <1>2. /\ \A m \in 1 .. n - 1 : /\ h[m] = cost[<<p[m], p[m + 1]>>]
                                 /\ cost[<<p[m], p[m + 1]>>] \in Nat
        /\ PathCost(p, cost) = upto(n - 1)
        /\ \A m \in 0 .. n - 1 : IntOn(h, 1 .. m)
    BY <1>0, EdgeFacts
  <1> HIDE DEF s, h, tree
  <1> DEFINE Near(m) == p[m + 1] \in DOMAIN f[m] /\ f[m][p[m + 1]].dist <= upto(m)
             S == {m \in Nat : m <= n - 1 => Near(m)}
  <1>3. 0 \in S
    <2>1. DOMAIN f[0] = {source} /\ f[0][source].dist = 0
      BY <1>1 DEF Root
    <2>2. 1 .. 0 = {}
      OBVIOUS
    <2>3. upto(0) = 0
      BY <2>2, SumEmpty
    <2> HIDE DEF upto
    <2>4. QED
      BY <2>1, <2>3
  <1>4. ASSUME NEW m \in Nat, m \in S PROVE m + 1 \in S
    <2> SUFFICES ASSUME m + 1 <= n - 1 PROVE Near(m + 1)
      OBVIOUS
    <2>1. /\ m + 1 \in 1 .. n - 1 /\ m \in 0 .. s /\ m + 1 \in 0 .. s /\ m + 1 \in 1 .. s
          /\ (m + 1) - 1 = m
      BY <1>0
    <2>2. Near(m)
      BY <1>0, <1>4
    <2> DEFINE u == p[m + 1]
               v == p[(m + 1) + 1]
    <2>3. u \in agents /\ v \in agents /\ <<u, v>> \in DOMAIN cost
      BY <1>0, <2>1 DEF IsPath
    <2>4. IsTree(f[m], agents, cost, source) /\ IsTree(f[m + 1], agents, cost, source)
          /\ f[m + 1] = Sweep(f[m], agents, cost)
      BY <1>1, <2>1
    <2>5. u \in DOMAIN f[m] /\ f[m][u].dist <= upto(m)
      BY <2>2
    <2> HIDE DEF u, v
    <2>6. v \in DOMAIN f[m + 1] /\ f[m + 1][v].dist <= f[m][u].dist + cost[<<u, v>>]
      BY <2>3, <2>4, <2>5, SweepFacts
    <2>7. h[m + 1] = cost[<<u, v>>] /\ cost[<<u, v>>] \in Nat
      BY <1>2, <2>1 DEF u, v
    <2>8. upto(m + 1) = upto(m) + h[m + 1] /\ upto(m) \in Int
      <3>1. IntOn(h, 1 .. m + 1)
        BY <1>0, <1>2, <2>1
      <3>2. QED
        BY <3>1, PrefixSum
    <2>9. f[m + 1][v].dist \in Nat /\ f[m][u].dist \in Nat
      BY <2>4, <2>5, <2>6 DEF IsTree, Rooted
    <2> HIDE DEF upto
    <2>10. f[m + 1][v].dist <= upto(m + 1)
      BY <2>5, <2>6, <2>7, <2>8, <2>9
    <2>11. QED
      BY <2>6, <2>10 DEF v
  <1>5. Near(n - 1)
    <2> HIDE DEF S, Near
    <2>1. Nat \subseteq S
      BY <1>3, <1>4, SetInduction
    <2>2. QED
      BY <1>0, <2>1 DEF S
  <1>6. p[n] \in DOMAIN f[n - 1] /\ f[n - 1][p[n]].dist <= upto(n - 1)
    <2>1. (n - 1) + 1 = n
      BY <1>0
    <2> HIDE DEF upto
    <2>2. QED
      BY <1>5, <2>1
  <1>7. p[n] \in DOMAIN tree /\ tree[p[n]].dist <= f[n - 1][p[n]].dist
    BY <1>0, <1>1, <1>6 DEF Closer
  <1>8. tree[p[n]].dist \in Nat /\ f[n - 1][p[n]].dist \in Nat
    <2>1. s \in 0 .. s
      BY <1>0
    <2>2. IsTree(tree, agents, cost, source) /\ IsTree(f[n - 1], agents, cost, source)
      BY <1>0, <1>1, <2>1
    <2>3. QED
      BY <1>6, <1>7, <2>2 DEF IsTree, Rooted
  <1>9. PathCost(p, cost) \in Nat
    BY <1>0, EdgeFacts
  <1>10. QED
    <2> HIDE DEF upto
    <2>1. tree[p[n]].dist <= PathCost(p, cost)
      BY <1>2, <1>6, <1>7, <1>8, <1>9
    <2>2. QED
      BY <1>7, <2>1 DEF tree

\* f are the first k steps of the way back from an agent in the tree; none of
\* the first n of them is at the source.
Back(f, k, tree) ==
    f[0] \in DOMAIN tree /\ \A m \in 1 .. k : f[m] = tree[f[m - 1]].pred

Unmet(f, n, source) == \A m \in 0 .. n - 1 : f[m] # source

(* On the way back from an agent, up to the source, no agent comes twice.  *)
LEMMA NoAgentTwice ==
  ASSUME NEW agents, NEW cost, NEW source, NEW tree, IsTree(tree, agents, cost, source),
         NEW k \in Nat, NEW f, Back(f, k, tree), NEW n \in 0 .. k, Unmet(f, n, source)
  PROVE  /\ \A m \in 0 .. n : f[m] \in DOMAIN tree
         /\ \A i, j \in 0 .. n : f[i] = f[j] => i = j
  <1> DEFINE D == DOMAIN tree
             S == {m \in Nat : m <= n => f[m] \in D}
  <1>1. 0 \in S
    BY DEF Back
  <1>2. \A m \in 0 .. n - 1 : m + 1 \in 1 .. k /\ f[m + 1] = tree[f[m]].pred /\ f[m] # source
    BY DEF Back, Unmet
  <1>3. ASSUME NEW m \in Nat, m \in S PROVE m + 1 \in S
    <2> SUFFICES ASSUME m + 1 <= n PROVE f[m + 1] \in D
      OBVIOUS
    <2>1. m \in 0 .. n - 1 /\ f[m] \in D
      BY <1>3
    <2>2. f[m + 1] = tree[f[m]].pred /\ f[m] # source
      BY <1>2, <2>1
    <2>3. QED
      BY <2>1, <2>2 DEF IsTree, Linked
  <1>4. \A m \in 0 .. n : f[m] \in D
    <2> HIDE DEF S
    <2>1. Nat \subseteq S
      BY <1>1, <1>3, SetInduction
    <2>2. QED
      BY <2>1 DEF S
  <1>5. ASSUME NEW i \in 0 .. n, NEW j \in 0 .. n, i < j, f[i] = f[j] PROVE FALSE
    <2> DEFINE T == {f[m] : m \in i .. j - 1}
    <2>1. \A m \in i .. j - 1 : m \in 0 .. n - 1 /\ m \in 0 .. n
      OBVIOUS
    <2>2. T \in SUBSET (D \ {source})
      BY <1>2, <1>4, <2>1
    <2>3. f[i] \in T
      BY <1>5
    <2>4. ASSUME NEW m \in i .. j - 1 PROVE tree[f[m]].pred \in T
      <3>1. f[m + 1] = tree[f[m]].pred
        BY <1>2, <2>1
      <3>2. CASE m + 1 \in i .. j - 1
        BY <3>1, <3>2
      <3>3. CASE m + 1 = j
        BY <1>5, <2>3, <3>1, <3>3
      <3>4. QED
        BY <3>2, <3>3
    <2>5. \A v \in T : tree[v].pred \in T
      BY <2>4
    <2> HIDE DEF T
    <2>6. QED
      BY <2>2, <2>3, <2>5 DEF IsTree, Acyclic
  <1>6. ASSUME NEW i \in 0 .. n, NEW j \in 0 .. n, f[i] = f[j] PROVE i = j
    <2>1. ~(i < j) /\ ~(j < i)
      BY <1>5, <1>6
    <2>2. QED
      BY <2>1
  <1>7. QED
    BY <1>4, <1>6

(* The way back leads to the source.                                       *)
LEMMA WayEnds ==
  ASSUME NEW agents, IsFiniteSet(agents), NEW cost, NEW source,
         NEW tree, IsTree(tree, agents, cost, source),
         NEW k, k = Cardinality(agents), NEW f, Back(f, k, tree)
  PROVE  \E n \in 0 .. k : f[n] = source /\ Unmet(f, n, source)
  <1>0. k \in Nat
    BY FS_CardinalityType
  <1>1. \E n \in 0 .. k : f[n] = source
    <2> SUFFICES ASSUME \A n \in 0 .. k : f[n] # source PROVE FALSE
      OBVIOUS
    <2>0. k \in 0 .. k /\ Unmet(f, k, source)
      BY <1>0 DEF Unmet
    <2>1. /\ \A m \in 0 .. k : f[m] \in DOMAIN tree
          /\ \A i, j \in 0 .. k : f[i] = f[j] => i = j
      BY <1>0, <2>0, NoAgentTwice
    <2> DEFINE N == 0 .. k
               g == [m \in N |-> f[m]]
    <2>2. g \in [N -> agents]
      BY <2>1 DEF IsTree, Rooted
    <2>3. IsFiniteSet(N) /\ Cardinality(N) = k + 1
      BY <1>0, FS_Interval
    <2>4. \A i, j \in N : g[i] = g[j] => i = j
      BY <2>1
    <2> HIDE DEF N, g
    <2>5. Cardinality(agents) < Cardinality(N)
      BY <1>0, <2>3
    <2>6. \E i, j \in N : i # j /\ g[i] = g[j]
      BY <2>2, <2>3, <2>5, FS_PigeonHole
    <2>7. QED
      BY <2>4, <2>6
  <1> DEFINE S == {n \in 0 .. k : f[n] = source}
  <1>2. S \subseteq Nat /\ S # {}
    BY <1>1
  <1>3. PICK n \in S : \A m \in S : n <= m
    <2> HIDE DEF S
    <2>1. QED
      BY <1>2, Least
  <1>4. \A m \in 0 .. n - 1 : m \in 0 .. k /\ ~(n <= m)
    BY <1>0
  <1>5. QED
    BY <1>3, <1>4 DEF Unmet

(* Turned round, it is a path, and no longer than the distance.            *)
LEMMA WayForward ==
  ASSUME NEW agents, NEW cost, Network(agents, cost), NEW source,
         NEW tree, IsTree(tree, agents, cost, source),
         NEW k \in Nat, NEW f, Back(f, k, tree),
         NEW n \in 0 .. k, f[n] = source, Unmet(f, n, source)
  PROVE  /\ IsPath(Forward(f, n), n + 1, agents, cost)
         /\ IsInjective(Forward(f, n))
         /\ Forward(f, n)[1] = source /\ Forward(f, n)[n + 1] = f[0]
         /\ n + 1 \in 1 .. Cardinality(agents)
         /\ PathCost(Forward(f, n), cost) <= tree[f[0]].dist
  <1> DEFINE p == Forward(f, n)
             h == EdgesOf(p, n + 1, cost)
             upto(m) == SumFunctionOnSet(h, 1 .. m)
  <1>0. n \in Nat /\ n + 1 \in Nat \ {0} /\ (n + 1) - 1 = n
    OBVIOUS
  <1>1. /\ \A m \in 0 .. n : f[m] \in DOMAIN tree
        /\ \A i, j \in 0 .. n : f[i] = f[j] => i = j
    BY NoAgentTwice
  <1>2. /\ DOMAIN p = 1 .. n + 1
        /\ \A m \in 1 .. n + 1 : p[m] = f[n + 1 - m] /\ n + 1 - m \in 0 .. n
    BY DEF Forward
  <1>2a. p = [m \in 1 .. n + 1 |-> p[m]]
    BY DEF Forward
  <1>3. p[1] = source /\ p[n + 1] = f[0]
    <2>1. 1 \in 1 .. n + 1 /\ n + 1 \in 1 .. n + 1 /\ n + 1 - 1 = n /\ (n + 1) - (n + 1) = 0
      OBVIOUS
    <2>2. QED
      BY <1>2, <2>1
  <1> HIDE DEF p
  <1>4. \A m \in 1 .. n + 1 : p[m] \in DOMAIN tree /\ p[m] \in agents
    BY <1>1, <1>2 DEF IsTree, Rooted
  <1>5. \A i, j \in 1 .. n + 1 : p[i] = p[j] => i = j
    <2> SUFFICES ASSUME NEW i \in 1 .. n + 1, NEW j \in 1 .. n + 1, p[i] = p[j]
                 PROVE  i = j
      OBVIOUS
    <2> DEFINE a == n + 1 - i
               b == n + 1 - j
    <2>1. a \in 0 .. n /\ b \in 0 .. n /\ (a = b => i = j)
      OBVIOUS
    <2>2. p[i] = f[a] /\ p[j] = f[b]
      BY <1>2
    <2> HIDE DEF a, b
    <2>3. a = b
      BY <1>1, <2>1, <2>2
    <2>4. QED
      BY <2>1, <2>3
  <1>6. IsInjective(p)
    BY <1>2, <1>5 DEF IsInjective
  <1>7. ASSUME NEW m \in 1 .. n
        PROVE  /\ p[m] = tree[p[m + 1]].pred /\ p[m + 1] # source
               /\ <<p[m], p[m + 1]>> \in DOMAIN cost
               /\ tree[p[m]].dist + cost[<<p[m], p[m + 1]>>] <= tree[p[m + 1]].dist
    <2> DEFINE j == n + 1 - m
    <2>1. j \in 1 .. k /\ j - 1 \in 0 .. n - 1 /\ m \in 1 .. n + 1 /\ m + 1 \in 1 .. n + 1
          /\ n + 1 - (m + 1) = j - 1
      OBVIOUS
    <2>2. p[m] = f[j] /\ p[m + 1] = f[j - 1]
      BY <1>2, <2>1
    <2> HIDE DEF j
    <2>3. f[j] = tree[f[j - 1]].pred /\ f[j - 1] # source
      BY <2>1 DEF Back, Unmet
    <2>4. p[m + 1] \in DOMAIN tree
      BY <1>4, <2>1
    <2>5. p[m] = tree[p[m + 1]].pred /\ p[m + 1] # source
      BY <2>2, <2>3
    <2>6. QED
      BY <2>4, <2>5 DEF IsTree, Linked
  <1>8. IsPath(p, n + 1, agents, cost)
    <2>1. p \in [1 .. n + 1 -> agents]
      BY <1>2a, <1>4
    <2>2. \A m \in 1 .. (n + 1) - 1 : <<p[m], p[m + 1]>> \in DOMAIN cost
      BY <1>0, <1>7
    <2>3. QED
      BY <2>1, <2>2 DEF IsPath
  <1>9. n + 1 \in 1 .. Cardinality(agents)
    <2> DEFINE N == 1 .. n + 1
    <2>1. IsFiniteSet(N) /\ Cardinality(N) = n + 1
      BY <1>0, Interval
    <2>2. p \in Injection(N, agents)
      <3>1. p \in [N -> agents]
        BY <1>8 DEF IsPath
      <3>2. QED
        BY <1>6, <3>1 DEF Injection
    <2> HIDE DEF N
    <2>3. Cardinality(N) <= Cardinality(agents) /\ IsFiniteSet(agents)
      BY <2>2, FS_Injection DEF Network
    <2>4. Cardinality(agents) \in Nat
      BY <2>3, FS_CardinalityType
    <2>5. QED
      BY <2>1, <2>3, <2>4
  <1>10. /\ \A m \in 1 .. n : /\ h[m] = cost[<<p[m], p[m + 1]>>]
                              /\ cost[<<p[m], p[m + 1]>>] \in Nat
         /\ PathCost(p, cost) = upto(n)
         /\ \A m \in 0 .. n : IntOn(h, 1 .. m)
    BY <1>0, <1>8, EdgeFacts
  <1> HIDE DEF h
  <1>11. \A m \in 1 .. n + 1 : tree[p[m]].dist \in Nat
    BY <1>4 DEF IsTree, Rooted
  <1> DEFINE S == {m \in Nat : m <= n => upto(m) <= tree[p[m + 1]].dist}
  <1>12. 0 \in S
    <2>1. 1 .. 0 = {}
      OBVIOUS
    <2>2. upto(0) = 0
      BY <2>1, SumEmpty
    <2> HIDE DEF upto
    <2>3. 0 + 1 \in 1 .. n + 1
      OBVIOUS
    <2>4. tree[p[0 + 1]].dist \in Nat
      BY <1>11, <2>3
    <2>5. QED
      BY <2>2, <2>4
  <1>13. ASSUME NEW m \in Nat, m \in S PROVE m + 1 \in S
    <2> SUFFICES ASSUME m + 1 <= n PROVE upto(m + 1) <= tree[p[(m + 1) + 1]].dist
      OBVIOUS
    <2>1. m + 1 \in 1 .. n /\ m + 1 \in 0 .. n /\ m + 1 \in 1 .. n + 1
          /\ (m + 1) + 1 \in 1 .. n + 1
      OBVIOUS
    <2>2. upto(m) <= tree[p[m + 1]].dist
      BY <1>13
    <2> DEFINE u == p[m + 1]
               v == p[(m + 1) + 1]
    <2>3. tree[u].dist + cost[<<u, v>>] <= tree[v].dist
      BY <1>7, <2>1
    <2>4. h[m + 1] = cost[<<u, v>>] /\ cost[<<u, v>>] \in Nat
      BY <1>10, <2>1
    <2>5. tree[u].dist \in Nat /\ tree[v].dist \in Nat
      BY <1>11, <2>1
    <2>6. upto(m + 1) = upto(m) + h[m + 1] /\ upto(m) \in Int
      <3>1. IntOn(h, 1 .. m + 1)
        BY <1>10, <2>1
      <3>2. QED
        BY <3>1, PrefixSum
    <2> HIDE DEF upto, u, v
    <2>7. upto(m) <= tree[u].dist
      BY <2>2 DEF u
    <2>8. upto(m + 1) <= tree[v].dist
      BY <2>3, <2>4, <2>5, <2>6, <2>7
    <2>9. QED
      BY <2>8 DEF v
  <1>14. upto(n) <= tree[p[n + 1]].dist
    <2> HIDE DEF S
    <2>1. Nat \subseteq S
      BY <1>12, <1>13, SetInduction
    <2> HIDE DEF upto
    <2>2. QED
      BY <1>0, <2>1 DEF S
  <1>15. PathCost(p, cost) <= tree[f[0]].dist
    <2> HIDE DEF upto
    <2>1. QED
      BY <1>3, <1>10, <1>14
  <1>16. QED
    BY <1>3, <1>6, <1>8, <1>9, <1>15 DEF p

(* What the last sweep leaves is a tree. *)
LEMMA TreeFacts ==
  ASSUME NEW agents, NEW cost, NEW source \in agents, Network(agents, cost)
  PROVE  IsTree(ShortestPathTree(agents, cost, source), agents, cost, source)
  <1> DEFINE s == Sweeps(Cardinality(agents))
  <1>1. PICK f : /\ ShortestPathTree(agents, cost, source) = f[s]
                 /\ \A m \in 0 .. s : IsTree(f[m], agents, cost, source)
    BY GrowFacts
  <1>2. s \in 0 .. s
    <2>1. Cardinality(agents) \in Nat \ {0}
      BY FS_CardinalityType, FS_EmptySet DEF Network
    <2>2. QED
      BY <2>1 DEF Sweeps
  <1>3. QED
    BY <1>1, <1>2

\* p is a path of n agents from the source to v that has the length given.
Leads(p, n, agents, cost, source, v, length) ==
    /\ n \in 1 .. Cardinality(agents) /\ IsPath(p, n, agents, cost) /\ IsInjective(p)
    /\ p[1] = source /\ p[n] = v /\ PathCost(p, cost) = length

(* The way back from an agent ends at the source; turned round, it is a    *)
(* path that has the length of the distance.                               *)
LEMMA WayOf ==
  ASSUME NEW agents, NEW cost, Network(agents, cost), NEW source \in agents,
         NEW tree, tree = ShortestPathTree(agents, cost, source), NEW v \in DOMAIN tree,
         NEW k, k = Cardinality(agents), NEW f, f = WayBack(tree, v, k)
  PROVE  /\ \E n \in 0 .. k : f[n] = source /\ Unmet(f, n, source)
         /\ \A n \in 0 .. k : f[n] = source /\ Unmet(f, n, source) =>
              Leads(Forward(f, n), n + 1, agents, cost, source, v, tree[v].dist)
  <1>0. k \in Nat /\ IsFiniteSet(agents)
    BY FS_CardinalityType DEF Network
  <1>1. IsTree(tree, agents, cost, source)
    BY TreeFacts
  <1>2. f[0] = v /\ \A m \in 1 .. k : f[m] = tree[f[m - 1]].pred
    BY <1>0, WaySteps
  <1>3. Back(f, k, tree)
    BY <1>2 DEF Back
  <1>4. \E n \in 0 .. k : f[n] = source /\ Unmet(f, n, source)
    BY <1>0, <1>1, <1>3, WayEnds
  <1>5. ASSUME NEW n \in 0 .. k, f[n] = source, Unmet(f, n, source)
        PROVE  Leads(Forward(f, n), n + 1, agents, cost, source, v, tree[v].dist)
    <2> DEFINE p == Forward(f, n)
    <2>1. /\ IsPath(p, n + 1, agents, cost) /\ IsInjective(p) /\ p[1] = source
          /\ p[n + 1] = f[0] /\ n + 1 \in 1 .. Cardinality(agents)
          /\ PathCost(p, cost) <= tree[f[0]].dist
      BY <1>0, <1>1, <1>3, <1>5, WayForward
    <2> HIDE DEF p
    <2>2. tree[p[n + 1]].dist <= PathCost(p, cost)
      BY <2>1, NoShorterPath
    <2>3. PathCost(p, cost) \in Nat
      <3>1. n + 1 \in Nat \ {0}
        OBVIOUS
      <3>2. QED
        BY <2>1, <3>1, EdgeFacts
    <2>4. tree[v].dist \in Nat
      BY <1>1 DEF IsTree, Rooted
    <2>5. PathCost(p, cost) = tree[v].dist
      BY <1>2, <2>1, <2>2, <2>3, <2>4
    <2>6. QED
      BY <1>2, <2>1, <2>5 DEF Leads, p
  <1>6. QED
    BY <1>4, <1>5

(* The edges' costs.                                                       *)
LEMMA EdgeCostType ==
  ASSUME NEW cap \in Capability, NEW transfer \in Nat, NEW w \in ParetoSampleVectors
  PROVE  ScalarEdgeCost(cap, transfer, w) \in Nat
  <1>1. w.quality \in Nat /\ w.latency \in Nat /\ w.cost \in Nat
    BY DEF ParetoSampleVectors, Weights
  <1>2. 10 - cap.quality \in Nat
    BY DEF Capability
  <1>3. Smaller(cap.latency + transfer, 20) \in Nat /\ Smaller(cap.cost, 20) \in Nat
    BY DEF Capability, Smaller
  <1>4. \A x, y \in Nat : x * y \in Nat
    OBVIOUS
  <1>5. /\ w.quality * (10 - cap.quality) \in Nat
        /\ w.latency * Smaller(cap.latency + transfer, 20) \in Nat
        /\ w.cost * Smaller(cap.cost, 20) \in Nat
    BY <1>1, <1>2, <1>3, <1>4
  <1>6. \A x, y, z \in Nat : x + y + z \in Nat
    OBVIOUS
  <1>7. QED
    BY <1>5, <1>6 DEF ScalarEdgeCost

(* Skilled agents and the costs of their edges are a network. *)
LEMMA EdgesAreNetwork ==
  ASSUME NEW g, NEW agents, Skilled(g, agents), NEW w \in ParetoSampleVectors,
         NEW cost, cost = EdgeCosts(g, agents, w)
  PROVE  /\ Network(agents, cost)
         /\ DOMAIN cost = (agents \X agents) \cap DOMAIN g.adjacency
  <1>1. /\ DOMAIN cost = (agents \X agents) \cap DOMAIN g.adjacency
        /\ \A e \in (agents \X agents) \cap DOMAIN g.adjacency :
              cost[e] = ScalarEdgeCost(Cap(g, e[2]), g.adjacency[e], w)
    BY DEF EdgeCosts
  <1>2. ASSUME NEW u \in agents, NEW v \in agents, <<u, v>> \in DOMAIN cost
        PROVE  cost[<<u, v>>] \in Nat
    <2>1. cost[<<u, v>>] = ScalarEdgeCost(Cap(g, v), g.adjacency[<<u, v>>], w)
      BY <1>1, <1>2
    <2>2. Cap(g, v) \in Capability /\ g.adjacency[<<u, v>>] \in Nat
      BY <1>1, <1>2 DEF Skilled
    <2>3. QED
      BY <2>1, <2>2, EdgeCostType
  <1>3. QED
    BY <1>1, <1>2 DEF Network, Skilled

(* Simple paths are the paths that visit no agent twice. *)
LEMMA SimpleAndPath ==
  ASSUME NEW g, NEW agents, IsFiniteSet(agents), NEW cost,
         DOMAIN cost = (agents \X agents) \cap DOMAIN g.adjacency, NEW p
  PROVE  /\ p \in SimplePaths(g, agents) =>
              \E n \in 1 .. Cardinality(agents) :
                IsPath(p, n, agents, cost) /\ IsInjective(p) /\ Len(p) = n
         /\ \A n \in 1 .. Cardinality(agents) :
              IsPath(p, n, agents, cost) /\ IsInjective(p) =>
                p \in SimplePaths(g, agents) /\ Len(p) = n
  <1> DEFINE k == Cardinality(agents)
  <1>0. k \in Nat
    BY FS_CardinalityType
  <1> HIDE DEF k
  <1>1. \A n \in 1 .. k : p \in [1 .. n -> agents] => Len(p) = n
    BY <1>0, LenOf
  <1>2. ASSUME p \in SimplePaths(g, agents)
        PROVE  \E n \in 1 .. k : IsPath(p, n, agents, cost) /\ IsInjective(p) /\ Len(p) = n
    <2>1. PICK n \in 1 .. k : p \in [1 .. n -> agents]
      BY <1>2 DEF SimplePaths, k
    <2>2. Len(p) = n
      BY <1>1, <2>1
    <2>3. \A m \in 1 .. n - 1 : <<p[m], p[m + 1]>> \in DOMAIN g.adjacency
      BY <1>2, <2>2 DEF SimplePaths
    <2>4. \A m \in 1 .. n - 1 : p[m] \in agents /\ p[m + 1] \in agents
      BY <1>0, <2>1
    <2>5. IsPath(p, n, agents, cost)
      BY <2>1, <2>3, <2>4 DEF IsPath
    <2>6. QED
      BY <1>2, <2>2, <2>5 DEF SimplePaths
  <1>3. ASSUME NEW n \in 1 .. k, IsPath(p, n, agents, cost), IsInjective(p)
        PROVE  p \in SimplePaths(g, agents) /\ Len(p) = n
    <2>1. p \in [1 .. n -> agents] /\ \A m \in 1 .. n - 1 : <<p[m], p[m + 1]>> \in DOMAIN g.adjacency
      BY <1>3 DEF IsPath
    <2>2. Len(p) = n
      BY <1>1, <2>1
    <2>3. p \in UNION {[1 .. m -> agents] : m \in 1 .. Cardinality(agents)}
      BY <2>1 DEF k
    <2>4. QED
      BY <1>3, <2>1, <2>2, <2>3 DEF SimplePaths
  <1>4. QED
    BY <1>2, <1>3 DEF k

(* What bellman_ford_single finds.                                         *)
LEMMA SingleFacts ==
  ASSUME NEW agents, NEW cost, NEW source \in agents, Network(agents, cost),
         NEW r \in BellmanFordSingle(agents, cost, source)
  PROVE  \E n \in 1 .. Cardinality(agents), v \in agents :
            n > 1 /\ Leads(r.path, n, agents, cost, source, v, r.scalar_cost)
  <1> DEFINE k == Cardinality(agents)
             tree == ShortestPathTree(agents, cost, source)
  <1>0. k \in Nat
    BY FS_CardinalityType DEF Network
  <1>1. PICK v \in Nearest(tree, source) :
          r \in {[path |-> path, scalar_cost |-> tree[v].dist] :
                   path \in PathsTo(v, tree, source, k)}
    BY DEF BellmanFordSingle, PathsToNearest
  <1>2. v \in DOMAIN tree /\ v # source
    BY DEF Nearest
  <1>3. v \in agents
    <2>1. IsTree(tree, agents, cost, source)
      BY TreeFacts
    <2> HIDE DEF tree
    <2>2. QED
      BY <1>2, <2>1 DEF IsTree, Rooted
  <1> DEFINE f == WayBack(tree, v, k)
  <1>4. PICK n \in 1 .. k :
          /\ f[n] = source /\ \A m \in 1 .. n - 1 : f[m] # source
          /\ r = [path |-> Forward(f, n), scalar_cost |-> tree[v].dist]
    BY <1>1 DEF PathsTo
  <1>5. f[0] = v
    BY <1>0, WaySteps
  <1> HIDE DEF f
  <1>6. Unmet(f, n, source)
    BY <1>2, <1>4, <1>5 DEF Unmet
  <1>7. n \in 0 .. k
    BY <1>0
  <1>8. Leads(Forward(f, n), n + 1, agents, cost, source, v, tree[v].dist)
    BY <1>2, <1>4, <1>6, <1>7, WayOf DEF f
  <1>9. n + 1 \in 1 .. Cardinality(agents) /\ n + 1 > 1
    BY <1>0, <1>8 DEF Leads
  <1> HIDE DEF tree, k
  <1>10. QED
    BY <1>3, <1>4, <1>8, <1>9

(* A finite set of naturals has a least element. *)
LEMMA MinOf ==
  ASSUME NEW S, NEW x \in S, x \in Int, \A y \in S : y \in Int /\ x <= y
  PROVE  Min(S) = x
  <1>1. \E m \in S : \A y \in S : m <= y
    OBVIOUS
  <1>2. Min(S) \in S /\ \A y \in S : Min(S) <= y
    BY <1>1 DEF Min
  <1> DEFINE m == Min(S)
  <1>3. m \in S /\ m <= x
    BY <1>2
  <1> HIDE DEF m
  <1>4. m = x
    <2>1. m \in Int /\ x <= m
      BY <1>3
    <2>2. QED
      BY <1>3, <2>1
  <1>5. QED
    BY <1>4 DEF m

Lengths(g, agents, cost, source, v) ==
    {PathCost(p, cost) :
       p \in {p \in SimplePaths(g, agents) : p[1] = source /\ p[Len(p)] = v}}

Shortest(tree, v, lengths) ==
    IF lengths = {} THEN v \notin DOMAIN tree
    ELSE v \in DOMAIN tree /\ tree[v].dist = Min(lengths)

(* The distances found are those of the shortest simple paths. *)
LEMMA DistancesExact ==
  ASSUME NEW g, NEW agents, IsFiniteSet(agents), NEW cost, Network(agents, cost),
         DOMAIN cost = (agents \X agents) \cap DOMAIN g.adjacency,
         NEW source \in agents, NEW v \in agents,
         NEW tree, tree = ShortestPathTree(agents, cost, source),
         NEW lengths, lengths = Lengths(g, agents, cost, source, v)
  PROVE  Shortest(tree, v, lengths)
  <1> DEFINE k == Cardinality(agents)
  <1>1. ASSUME v \in DOMAIN tree PROVE tree[v].dist \in lengths
    <2> DEFINE f == WayBack(tree, v, k)
    <2>1. PICK n \in 0 .. k :
            Leads(Forward(f, n), n + 1, agents, cost, source, v, tree[v].dist)
      BY <1>1, WayOf
    <2> DEFINE p == Forward(f, n)
    <2>2. /\ n + 1 \in 1 .. Cardinality(agents) /\ IsPath(p, n + 1, agents, cost)
          /\ IsInjective(p) /\ p[1] = source /\ p[n + 1] = v
          /\ PathCost(p, cost) = tree[v].dist
      BY <2>1 DEF Leads
    <2> HIDE DEF p
    <2>3. p \in SimplePaths(g, agents) /\ Len(p) = n + 1
      BY <2>2, SimpleAndPath
    <2>4. QED
      BY <2>2, <2>3 DEF Lengths
  <1>2. ASSUME NEW length \in lengths
        PROVE  v \in DOMAIN tree /\ tree[v].dist <= length /\ length \in Nat
    <2>1. PICK p \in SimplePaths(g, agents) :
            p[1] = source /\ p[Len(p)] = v /\ length = PathCost(p, cost)
      BY DEF Lengths
    <2>2. PICK n \in 1 .. k : IsPath(p, n, agents, cost) /\ IsInjective(p) /\ Len(p) = n
      BY <2>1, SimpleAndPath
    <2>3. p[n] \in DOMAIN tree /\ tree[p[n]].dist <= PathCost(p, cost)
      BY <2>1, <2>2, NoShorterPath
    <2>4. PathCost(p, cost) \in Nat
      <3>1. n \in Nat \ {0}
        OBVIOUS
      <3>2. QED
        BY <2>2, <3>1, EdgeFacts
    <2>5. QED
      BY <2>1, <2>2, <2>3, <2>4
  <1>3. CASE lengths = {}
    BY <1>1, <1>3 DEF Shortest
  <1>4. CASE lengths # {}
    <2>1. v \in DOMAIN tree
      BY <1>2, <1>4
    <2>2. tree[v].dist \in lengths
      BY <1>1, <2>1
    <2>3. \A y \in lengths : y \in Int /\ tree[v].dist <= y
      BY <1>2
    <2>4. tree[v].dist = Min(lengths)
      <3> HIDE DEF k
      <3> DEFINE x == tree[v].dist
      <3>1. x \in lengths /\ x \in Int /\ \A y \in lengths : y \in Int /\ x <= y
        BY <2>2, <2>3
      <3> HIDE DEF x
      <3>2. Min(lengths) = x
        BY <3>1, MinOf
      <3>3. QED
        BY <3>2 DEF x
    <2>5. QED
      BY <1>4, <2>1, <2>4 DEF Shortest
  <1>5. QED
    BY <1>3, <1>4

(* So BellmanFordIsExact holds of every searchable graph. *)
LEMMA Exact ==
  ASSUME Skilled(graph, CapableAgents(graph, 0))
  PROVE  BellmanFordIsExact
  <1> DEFINE agents == CapableAgents(graph, 0)
             paths == SimplePaths(graph, agents)
             cost(w) == EdgeCosts(graph, agents, w)
             costs(w, source, v) ==
               {PathCost(p, cost(w)) : p \in {p \in paths : p[1] = source /\ p[Len(p)] = v}}
  <1>1. ASSUME NEW source \in agents, NEW w \in ParetoSampleVectors
        PROVE  /\ \A tree \in {ShortestPathTree(agents, cost(w), source)}, v \in agents :
                    IF costs(w, source, v) = {} THEN v \notin DOMAIN tree
                    ELSE v \in DOMAIN tree /\ tree[v].dist = Min(costs(w, source, v))
               /\ \A r \in BellmanFordSingle(agents, cost(w), source) :
                    /\ r.path \in paths /\ Len(r.path) > 1 /\ r.path[1] = source
                    /\ r.scalar_cost = PathCost(r.path, cost(w))
    <2> DEFINE c == cost(w)
    <2>1. /\ Network(agents, c) /\ DOMAIN c = (agents \X agents) \cap DOMAIN graph.adjacency
          /\ IsFiniteSet(agents)
      BY EdgesAreNetwork DEF Skilled
    <2> HIDE DEF agents
    <2>2. ASSUME NEW tree \in {ShortestPathTree(agents, c, source)}, NEW v \in agents
          PROVE  IF costs(w, source, v) = {} THEN v \notin DOMAIN tree
                 ELSE v \in DOMAIN tree /\ tree[v].dist = Min(costs(w, source, v))
      <3> DEFINE lengths == costs(w, source, v)
      <3>1. lengths = Lengths(graph, agents, c, source, v)
        BY DEF Lengths
      <3>2. tree = ShortestPathTree(agents, c, source)
        OBVIOUS
      <3> HIDE DEF lengths, c
      <3>3. Shortest(tree, v, lengths)
        BY <2>1, <3>1, <3>2, DistancesExact
      <3>4. QED
        BY <3>3 DEF lengths, Shortest
    <2>3. ASSUME NEW r \in BellmanFordSingle(agents, c, source)
          PROVE  /\ r.path \in paths /\ Len(r.path) > 1 /\ r.path[1] = source
                 /\ r.scalar_cost = PathCost(r.path, c)
      <3> HIDE DEF cost, c
      <3>1. PICK n \in 1 .. Cardinality(agents), v \in agents :
              n > 1 /\ Leads(r.path, n, agents, c, source, v, r.scalar_cost)
        BY <2>1, SingleFacts
      <3>2. /\ IsPath(r.path, n, agents, c) /\ IsInjective(r.path) /\ r.path[1] = source
            /\ r.scalar_cost = PathCost(r.path, c)
        BY <3>1 DEF Leads
      <3>3. r.path \in paths /\ Len(r.path) = n
        BY <2>1, <3>2, SimpleAndPath
      <3>4. QED
        BY <3>1, <3>2, <3>3
    <2>4. QED
      BY <2>2, <2>3
  <1>2. QED
    BY <1>1 DEF BellmanFordIsExact

-----------------------------------------------------------------------------
(* Candidates and the Pareto front                                         *)

(* The image of a finite set is finite. *)
LEMMA FiniteImage ==
  ASSUME NEW S, IsFiniteSet(S), NEW h
  PROVE  IsFiniteSet({h[x] : x \in S})
  <1> DEFINE T == {h[x] : x \in S}
             j == [x \in S |-> h[x]]
  <1>1. j \in [S -> T] /\ \A y \in T : \E x \in S : j[x] = y
    OBVIOUS
  <1>2. j \in Surjection(S, T)
    <2> HIDE DEF j, T
    <2>1. QED
      BY <1>1 DEF Surjection
  <1> HIDE DEF j, T
  <1>3. IsFiniteSet(T)
    BY <1>2, FS_Surjection
  <1>4. QED
    BY <1>3 DEF T

ListsUpTo(k, X) == UNION {[1 .. n -> X] : n \in 1 .. k}

(* Lists are finite in number: they are sets of pairs.                     *)
LEMMA FinitelyManyLists ==
  ASSUME NEW X, IsFiniteSet(X), NEW k \in Nat
  PROVE  IsFiniteSet(ListsUpTo(k, X))
  <1> DEFINE L == ListsUpTo(k, X)
             N == 1 .. k
             pairs(s) == {<<n, s[n]>> : n \in DOMAIN s}
             h == [s \in L |-> pairs(s)]
             T == SUBSET (N \X X)
  <1>1. IsFiniteSet(T)
    <2>1. IsFiniteSet(N)
      BY FS_Interval
    <2> HIDE DEF N
    <2>2. IsFiniteSet(N \X X)
      BY <2>1, FS_Product
    <2>3. QED
      BY <2>2, FS_SUBSET
  <1>2. \A s \in L : \E n \in N : s \in [1 .. n -> X]
    BY DEF ListsUpTo
  <1>3. ASSUME NEW s \in L
        PROVE  /\ DOMAIN s \subseteq N /\ s = [n \in DOMAIN s |-> s[n]]
               /\ \A n \in DOMAIN s : s[n] \in X
    BY <1>2
  <1> HIDE DEF L, N
  <1>4. ASSUME NEW s \in L PROVE pairs(s) \in T
    BY <1>3
  <1>5. ASSUME NEW s \in L, NEW t \in L, pairs(s) = pairs(t) PROVE s = t
    <2>1. \A n, x : <<n, x>> \in pairs(s) <=> n \in DOMAIN s /\ x = s[n]
      OBVIOUS
    <2>2. \A n, x : <<n, x>> \in pairs(t) <=> n \in DOMAIN t /\ x = t[n]
      OBVIOUS
    <2> HIDE DEF pairs
    <2>3. \A n : n \in DOMAIN s => n \in DOMAIN t /\ s[n] = t[n]
      BY <1>5, <2>1, <2>2
    <2>4. \A n : n \in DOMAIN t => n \in DOMAIN s
      BY <1>5, <2>1, <2>2
    <2>5. DOMAIN s = DOMAIN t
      BY <2>3, <2>4
    <2>6. QED
      BY <1>3, <2>3, <2>5
  <1> HIDE DEF pairs, T
  <1>6. h \in [L -> T] /\ \A s, t \in L : h[s] = h[t] => s = t
    BY <1>4, <1>5
  <1> HIDE DEF h
  <1>7. h \in Injection(L, T)
    BY <1>6 DEF Injection, IsInjective
  <1>8. IsFiniteSet(L)
    BY <1>1, <1>7, FS_Injection
  <1>9. QED
    BY <1>8 DEF L

\* A route lists some of the agents, each once.
Listing(s, agents) == \E n \in Nat \ {0} : s \in [1 .. n -> agents] /\ IsInjective(s)

(* An agent alone is a list of agents. *)
LEMMA OneListing ==
  ASSUME NEW agents, NEW i \in agents
  PROVE  Listing(<<i>>, agents)
  <1>1. <<i>> \in [1 .. 1 -> agents] /\ IsInjective(<<i>>)
    BY DEF IsInjective
  <1>2. QED
    BY <1>1 DEF Listing

(* The paths bellman_ford_single returns list agents once each. *)
LEMMA SearchPaths ==
  ASSUME NEW g, NEW agents, Skilled(g, agents), NEW source \in agents,
         NEW w \in ParetoSampleVectors,
         NEW r \in BellmanFordSingle(agents, EdgeCosts(g, agents, w), source)
  PROVE  Listing(r.path, agents) /\ r.path \in ListsUpTo(Cardinality(agents), agents)
  <1> DEFINE cost == EdgeCosts(g, agents, w)
  <1>1. Network(agents, cost)
    BY EdgesAreNetwork
  <1>0. Cardinality(agents) \in Nat
    BY FS_CardinalityType DEF Skilled
  <1> HIDE DEF cost
  <1>2. PICK n \in 1 .. Cardinality(agents), v \in agents :
          Leads(r.path, n, agents, cost, source, v, r.scalar_cost)
    BY <1>1, SingleFacts DEF cost
  <1>3. r.path \in [1 .. n -> agents] /\ IsInjective(r.path)
    BY <1>2 DEF Leads, IsPath
  <1>4. QED
    BY <1>0, <1>3 DEF Listing, ListsUpTo

(* Candidates are finite in number and run along listed agents; every      *)
(* agent alone is one.                                                     *)
LEMMA CandidateFacts ==
  ASSUME NEW g, NEW agents, Skilled(g, agents)
  PROVE  /\ IsFiniteSet(Candidates(g, agents))
         /\ \A r \in Candidates(g, agents) :
              r = PathRoute(g, r.agents) /\ Listing(r.agents, agents)
         /\ \A i \in agents : PathRoute(g, <<i>>) \in Candidates(g, agents)
  <1> DEFINE found == UNION {BellmanFordSingle(agents, EdgeCosts(g, agents, w), source) :
                               source \in agents, w \in ParetoSampleVectors}
             P == {<<i>> : i \in agents} \cup {r.path : r \in found}
             L == ListsUpTo(Cardinality(agents), agents)
             h == [p \in P |-> PathRoute(g, p)]
             C == Candidates(g, agents)
  <1>0. Cardinality(agents) \in Nat /\ IsFiniteSet(agents)
    BY FS_CardinalityType DEF Skilled
  <1>1. \A r \in found : Listing(r.path, agents) /\ r.path \in L
    BY SearchPaths
  <1>2. C = {PathRoute(g, <<i>>) : i \in agents} \cup {PathRoute(g, r.path) : r \in found}
    BY DEF Candidates
  <1> HIDE DEF found, C
  <1>3. \A i \in agents : <<i>> \in L
    <2> SUFFICES ASSUME NEW i \in agents PROVE <<i>> \in L
      OBVIOUS
    <2>1. <<i>> \in [1 .. 1 -> agents]
      OBVIOUS
    <2>2. 1 \in 1 .. Cardinality(agents)
      BY <1>0, FS_EmptySet
    <2>3. QED
      BY <2>1, <2>2 DEF ListsUpTo
  <1>4. P \in SUBSET L /\ \A p \in P : Listing(p, agents)
    BY <1>1, <1>3, OneListing
  <1>5. IsFiniteSet(P)
    <2>1. IsFiniteSet(L)
      BY <1>0, FinitelyManyLists
    <2> HIDE DEF L, P
    <2>2. QED
      BY <1>4, <2>1, FS_Subset
  <1>6. C = {h[p] : p \in P}
    <2>1. \A r \in C : \E p \in P : r = PathRoute(g, p)
      BY <1>2
    <2>2. \A p \in P : PathRoute(g, p) \in C
      BY <1>2
    <2> HIDE DEF P
    <2>3. \A p \in P : h[p] = PathRoute(g, p)
      OBVIOUS
    <2> HIDE DEF h
    <2>4. C \subseteq {h[p] : p \in P}
      BY <2>1, <2>3
    <2>5. {h[p] : p \in P} \subseteq C
      BY <2>2, <2>3
    <2>6. QED
      BY <2>4, <2>5
  <1>7. IsFiniteSet(C)
    <2> HIDE DEF P, h
    <2>1. QED
      BY <1>5, <1>6, FiniteImage
  <1>8. \A r \in C : r = PathRoute(g, r.agents) /\ Listing(r.agents, agents)
    <2> SUFFICES ASSUME NEW r \in C
                 PROVE  r = PathRoute(g, r.agents) /\ Listing(r.agents, agents)
      OBVIOUS
    <2>1. PICK p \in P : r = PathRoute(g, p)
      BY <1>2
    <2>2. r.agents = p
      BY <2>1 DEF PathRoute, Route
    <2> HIDE DEF P
    <2>3. QED
      BY <1>4, <2>1, <2>2
  <1>9. QED
    BY <1>2, <1>7, <1>8 DEF C

AtLeastAsGood(m, n) == m.quality >= n.quality /\ m.latency <= n.latency /\ m.cost <= n.cost

(* Something on the front is at least as good as any route.                *)
LEMMA FrontFacts ==
  ASSUME NEW routes, \A r \in routes : r.metrics \in Metrics, NEW r \in routes
  PROVE  \E o \in ParetoFront(routes) : AtLeastAsGood(o.metrics, r.metrics)
  <1> DEFINE worth(o) == o.metrics.latency + o.metrics.cost + (Whole - o.metrics.quality)
             good == {o \in routes : AtLeastAsGood(o.metrics, r.metrics)}
             S == {worth(o) : o \in good}
  <1>0. Whole \in Nat
    BY DEF Whole
  <1>1. \A o \in routes : /\ o.metrics.quality \in 0 .. Whole /\ o.metrics.latency \in Nat
                          /\ o.metrics.cost \in Nat
    BY DEF Metrics
  <1>2. r \in good
    BY <1>0, <1>1 DEF AtLeastAsGood
  <1>3. S \subseteq Nat /\ S # {}
    <2>1. \A o \in good : worth(o) \in Nat
      BY <1>0, <1>1
    <2> HIDE DEF worth, good
    <2>2. QED
      BY <1>2, <2>1
  <1>4. PICK o \in good : \A x \in good : worth(o) <= worth(x)
    <2> HIDE DEF S
    <2>1. PICK n \in S : \A m \in S : n <= m
      BY <1>3, Least
    <2> HIDE DEF worth, good
    <2>2. QED
      BY <2>1 DEF S
  <1>5. ASSUME NEW x \in routes, Dominates(x.metrics, o.metrics) PROVE FALSE
    <2>1. /\ x.metrics.quality \in 0 .. Whole /\ x.metrics.latency \in Nat
          /\ x.metrics.cost \in Nat /\ o.metrics.quality \in 0 .. Whole
          /\ o.metrics.latency \in Nat /\ o.metrics.cost \in Nat
          /\ r.metrics.quality \in 0 .. Whole
          /\ r.metrics.latency \in Nat /\ r.metrics.cost \in Nat
      BY <1>1
    <2>2. AtLeastAsGood(x.metrics, r.metrics) /\ worth(x) < worth(o)
      BY <1>0, <1>5, <2>1 DEF Dominates, AtLeastAsGood
    <2>3. worth(o) <= worth(x)
      BY <1>4, <2>2
    <2>4. QED
      BY <1>0, <2>1, <2>2, <2>3
  <1>6. o \in ParetoFront(routes)
    BY <1>5 DEF ParetoFront
  <1>7. QED
    BY <1>6

(* What is at least as good satisfies the same constraints. *)
LEMMA BetterSatisfies ==
  ASSUME NEW qos \in QoS, NEW m \in Metrics, NEW n \in Metrics, AtLeastAsGood(m, n),
         Satisfies(n, qos)
  PROVE  Satisfies(m, qos)
  <1>1. /\ qos.min_quality \in Int /\ qos.max_latency \in Int /\ qos.max_cost \in Int
    BY RoutingAssumption
  <1>2. /\ m.quality \in Int /\ m.latency \in Int /\ m.cost \in Int
        /\ n.quality \in Int /\ n.latency \in Int /\ n.cost \in Int
    BY DEF Metrics
  <1>3. QED
    BY <1>1, <1>2 DEF AtLeastAsGood, Satisfies, Whole, Fine

(* Weighting keeps the order. *)
LEMMA TimesMonotone ==
  ASSUME NEW w \in Nat, NEW x \in Nat, NEW y \in Nat, x <= y
  PROVE  w * x \in Nat /\ w * y \in Nat /\ w * x <= w * y
  OBVIOUS

(* Weights are naturals. *)
LEMMA WeightTypes ==
  ASSUME NEW qos \in QoS
  PROVE  WeightsFromConstraints(qos) \in [quality : Nat, latency : Nat, cost : Nat]
  <1>1. /\ qos.min_quality \in Nat /\ qos.max_latency \in Nat /\ qos.max_cost \in Nat
    BY RoutingAssumption
  <1>2. \A x, y \in Nat : x * y \in Nat
    OBVIOUS
  <1>3. 1 + qos.max_latency \in Nat /\ 10 + qos.max_cost \in Nat
    BY <1>1
  <1>4. /\ qos.min_quality * (1 + qos.max_latency) * (10 + qos.max_cost) \in Nat
        /\ 10 * (10 + qos.max_cost) \in Nat /\ 100 * (1 + qos.max_latency) \in Nat
    BY <1>1, <1>2, <1>3
  <1>5. QED
    BY <1>4 DEF WeightsFromConstraints, Weights

(* A price is a natural, and what is at least as good costs no more. *)
LEMMA PriceFacts ==
  ASSUME NEW qos \in QoS, NEW r, r.metrics \in Metrics, NEW o, o.metrics \in Metrics
  PROVE  /\ Price(r, qos) \in Nat
         /\ AtLeastAsGood(o.metrics, r.metrics) => Price(o, qos) <= Price(r, qos)
  <1> DEFINE w == WeightsFromConstraints(qos)
             bad(x) == Whole - x.metrics.quality
             slow(x) == 20 * Smaller(x.metrics.latency, 20 * Fine)
             dear(x) == 20 * Smaller(x.metrics.cost, 20 * Fine)
  <1>1. w.quality \in Nat /\ w.latency \in Nat /\ w.cost \in Nat
    BY WeightTypes
  <1>2. /\ r.metrics.quality \in 0 .. Whole /\ r.metrics.latency \in Nat /\ r.metrics.cost \in Nat
        /\ o.metrics.quality \in 0 .. Whole /\ o.metrics.latency \in Nat /\ o.metrics.cost \in Nat
    BY DEF Metrics
  <1>2a. Whole \in Nat
    BY DEF Whole
  <1>3. /\ bad(r) \in Nat /\ slow(r) \in Nat /\ dear(r) \in Nat
        /\ bad(o) \in Nat /\ slow(o) \in Nat /\ dear(o) \in Nat
    BY <1>2, <1>2a DEF Smaller, Fine
  <1>4. AtLeastAsGood(o.metrics, r.metrics) =>
          bad(o) <= bad(r) /\ slow(o) <= slow(r) /\ dear(o) <= dear(r)
    BY <1>2, <1>2a DEF Smaller, Fine, AtLeastAsGood
  <1>5. ASSUME NEW x \in {r, o}
        PROVE  Price(x, qos) = w.quality * bad(x) + w.latency * slow(x) + w.cost * dear(x)
    <2>1. /\ \A c, y \in Nat : c * 20 * y = c * (20 * y)
      OBVIOUS
    <2>2. Smaller(x.metrics.latency, 20 * Fine) \in Nat /\ Smaller(x.metrics.cost, 20 * Fine) \in Nat
      BY <1>2 DEF Smaller, Fine
    <2> HIDE DEF w
    <2>3. /\ w.latency * 20 * Smaller(x.metrics.latency, 20 * Fine) = w.latency * slow(x)
          /\ w.cost * 20 * Smaller(x.metrics.cost, 20 * Fine) = w.cost * dear(x)
      BY <1>1, <2>1, <2>2
    <2>4. Price(x, qos) = ScalarRouteCost(x.metrics, w)
      BY DEF Price, w
    <2>5. QED
      BY <2>3, <2>4 DEF ScalarRouteCost
  <1> HIDE DEF w, bad, slow, dear
  <1>6. \A c, x \in Nat : c * x \in Nat
    OBVIOUS
  <1>7. \A x \in {r, o} : w.quality * bad(x) \in Nat /\ w.latency * slow(x) \in Nat /\ w.cost * dear(x) \in Nat
    BY <1>1, <1>3, <1>6
  <1>8. Price(r, qos) \in Nat /\ Price(o, qos) \in Nat
    BY <1>5, <1>7
  <1>9. ASSUME AtLeastAsGood(o.metrics, r.metrics) PROVE Price(o, qos) <= Price(r, qos)
    <2>1. /\ w.quality * bad(o) <= w.quality * bad(r)
          /\ w.latency * slow(o) <= w.latency * slow(r)
          /\ w.cost * dear(o) <= w.cost * dear(r)
      BY <1>1, <1>3, <1>4, <1>9, TimesMonotone
    <2>2. QED
      BY <1>5, <1>7, <2>1
  <1>10. QED
    BY <1>8, <1>9

-----------------------------------------------------------------------------
(* Ranking, truncating, deduplicating                                      *)

\* What the search knows of the routes it ranks.
Priced(routes, qos) ==
    \A r \in routes : Price(r, qos) \in Nat /\ r.pattern \in Pattern

(* The k cheapest include one that is as cheap as any.                     *)
LEMMA CheapestFacts ==
  ASSUME NEW routes, IsFiniteSet(routes), NEW qos, Priced(routes, qos),
         NEW k \in Nat \ {0}, NEW chosen \in Cheapest(routes, qos, k)
  PROVE  /\ chosen \subseteq routes
         /\ \A r \in routes : \E o \in chosen : Price(o, qos) <= Price(r, qos)
  <1> DEFINE c == Smaller(k, Cardinality(routes))
             price == [r \in routes |-> Price(r, qos)]
  <1>1. /\ chosen \in SUBSET routes /\ Cardinality(chosen) = c
        /\ \A r \in chosen, o \in routes \ chosen : price[r] <= price[o]
    BY DEF Cheapest, kSubset
  <1>2. \A r \in chosen, o \in routes \ chosen : Price(r, qos) <= Price(o, qos)
    BY <1>1
  <1> HIDE DEF price
  <1>3. ASSUME NEW r \in routes PROVE \E o \in chosen : Price(o, qos) <= Price(r, qos)
    <2>1. Cardinality(routes) \in Nat \ {0}
      BY FS_CardinalityType, FS_EmptySet
    <2>2. c # 0
      BY <2>1 DEF Smaller
    <2>3. chosen # {}
      BY <1>1, <2>2, FS_EmptySet
    <2>4. CASE r \in chosen
      <3>1. Price(r, qos) \in Nat
        BY DEF Priced
      <3> DEFINE x == Price(r, qos)
      <3>2. x <= x
        BY <3>1
      <3>3. QED
        BY <2>4, <3>2
    <2>5. CASE r \notin chosen
      BY <1>2, <2>3, <2>5
    <2>6. QED
      BY <2>4, <2>5
  <1>4. QED
    BY <1>1, <1>3

\* Routes of one pattern through the same agents are the same.
Told(routes) ==
    \A r, o \in routes : r.agents = o.agents /\ r.pattern = o.pattern => r = o

(* Deduplication keeps one route for each list of agents, a cheapest. *)
LEMMA DeduplicatedFacts ==
  ASSUME NEW routes, NEW qos, Priced(routes, qos), Told(routes)
  PROVE  /\ Deduplicated(routes, qos) \subseteq routes
         /\ \A r \in routes : \E o \in Deduplicated(routes, qos) :
              Price(o, qos) <= Price(r, qos)
         /\ \A r, o \in Deduplicated(routes, qos) : r.agents = o.agents => r = o
  <1> DEFINE order == [DraftRefine |-> 1, ParallelMerge |-> 2, Cascade |-> 3,
                       Ensemble |-> 4, Pipeline |-> 5]
             precedes(r, o) ==
               \/ Price(r, qos) < Price(o, qos)
               \/ Price(r, qos) = Price(o, qos) /\ order[r.pattern] < order[o.pattern]
             kept == Deduplicated(routes, qos)
             rank(r) == 10 * Price(r, qos) + order[r.pattern]
             S == {rank(r) : r \in routes}
  <1>1. kept = {r \in routes : \A o \in routes \ {r} : o.agents = r.agents => precedes(r, o)}
    BY DEF Deduplicated
  <1>2. \A p \in Pattern : order[p] \in 1 .. 5
    BY DEF Pattern
  <1>3. \A p, q \in Pattern : order[p] = order[q] => p = q
    BY DEF Pattern
  <1> HIDE DEF order, kept
  <1>4. \A r \in routes : Price(r, qos) \in Nat /\ order[r.pattern] \in 1 .. 5
    BY <1>2 DEF Priced
  <1>5. \A r, o \in kept : r.agents = o.agents => r = o
    <2> SUFFICES ASSUME NEW r \in kept, NEW o \in kept, r.agents = o.agents, r # o
                 PROVE  FALSE
      OBVIOUS
    <2>1. r \in routes /\ o \in routes
      BY <1>1
    <2>2. precedes(r, o) /\ precedes(o, r)
      <3> HIDE DEF precedes
      <3>1. QED
        BY <1>1, <2>1
    <2>3. /\ Price(r, qos) \in Nat /\ order[r.pattern] \in 1 .. 5
          /\ Price(o, qos) \in Nat /\ order[o.pattern] \in 1 .. 5
      BY <1>4, <2>1
    <2>4. QED
      BY <2>2, <2>3
  <1>6. ASSUME NEW r \in routes PROVE \E o \in kept : Price(o, qos) <= Price(r, qos)
    <2>1. S \subseteq Nat /\ S # {}
      <3>1. \A o \in routes : rank(o) \in Nat
        BY <1>4
      <3> HIDE DEF rank
      <3>2. QED
        BY <3>1
    <2>2. PICK o \in routes : \A x \in routes : rank(o) <= rank(x)
      <3> HIDE DEF S
      <3>1. PICK n \in S : \A m \in S : n <= m
        BY <2>1, Least
      <3> HIDE DEF rank
      <3>2. QED
        BY <3>1 DEF S
    <2>3. Price(o, qos) \in Nat /\ order[o.pattern] \in 1 .. 5
      BY <1>4
    <2>4. ASSUME NEW x \in routes \ {o}, x.agents = o.agents PROVE precedes(o, x)
      <3>1. Price(x, qos) \in Nat /\ order[x.pattern] \in 1 .. 5
        BY <1>4
      <3>2. order[o.pattern] # order[x.pattern]
        <4>1. o.pattern # x.pattern
          BY <2>4 DEF Told
        <4>2. o.pattern \in Pattern /\ x.pattern \in Pattern
          BY DEF Priced
        <4>3. QED
          BY <1>3, <4>1, <4>2
      <3>3. rank(o) <= rank(x)
        BY <2>2
      <3>4. QED
        BY <2>3, <3>1, <3>2, <3>3
    <2>5. o \in kept
      <3> HIDE DEF precedes
      <3>1. QED
        BY <1>1, <2>4
    <2>6. Price(o, qos) <= Price(r, qos)
      <3>1. Price(r, qos) \in Nat /\ order[r.pattern] \in 1 .. 5
        BY <1>4
      <3>2. rank(o) <= rank(r)
        BY <2>2
      <3>3. QED
        BY <2>3, <3>1, <3>2
    <2>7. QED
      BY <2>5, <2>6
  <1>7. kept \subseteq routes
    BY <1>1
  <1>8. QED
    BY <1>5, <1>6, <1>7 DEF kept

-----------------------------------------------------------------------------
(* Sorting                                                                 *)

(* Sorting by a key, then another, then the index is a total order.        *)
LEMMA KeyOrder ==
  ASSUME NEW D, D \subseteq Nat, NEW up \in [D -> SUBSET D],
         NEW a \in [D -> Int], NEW b \in [D -> Int],
         \A i, j \in D : j \in up[i] <=>
            \/ a[j] < a[i]
            \/ a[j] = a[i] /\ (b[j] < b[i] \/ (b[j] = b[i] /\ j <= i))
  PROVE  TotalOrder(D, up)
  <1>1. \A i, j \in D : i \in up[j] \/ j \in up[i]
    OBVIOUS
  <1>2. \A i, j \in D : i \in up[j] /\ j \in up[i] => i = j
    OBVIOUS
  <1>3. \A i, j, k \in D : i \in up[j] /\ j \in up[k] => i \in up[k]
    OBVIOUS
  <1>4. QED
    BY <1>1, <1>2, <1>3 DEF TotalOrder

(* Each of the orders the patterns sort by lists the agents once each. *)
LEMMA SortedLists ==
  ASSUME NEW g, NEW agents, Skilled(g, agents)
  PROVE  /\ Lists(ByCost(g, agents), agents) /\ Lists(ByQuality(g, agents), agents)
         /\ Lists(ByQualityThenTrust(g, agents), agents)
  <1> DEFINE cost == [i \in agents |-> Cap(g, i).cost]
             lack == [i \in agents |-> 0 - Cap(g, i).quality]
             doubt == [i \in agents |-> 0 - TrustOf(g, i)]
             none == [i \in agents |-> 0]
  <1>1. IsFiniteSet(agents) /\ agents \subseteq Nat
    BY DEF Skilled
  <1>2. \A i \in agents : Cap(g, i).cost \in Int /\ Cap(g, i).quality \in Int /\ TrustOf(g, i) \in Int
    BY DEF Skilled, Capability
  <1>3. /\ cost \in [agents -> Int] /\ lack \in [agents -> Int]
        /\ doubt \in [agents -> Int] /\ none \in [agents -> Int]
    BY <1>2
  <1>4. Lists(ByCost(g, agents), agents)
    <2> DEFINE up == [i \in agents |-> {j \in agents :
                 \/ Cap(g, j).cost < Cap(g, i).cost
                 \/ Cap(g, j).cost = Cap(g, i).cost /\ j <= i}]
    <2>1. up \in [agents -> SUBSET agents]
      OBVIOUS
    <2>2. \A i, j \in agents : j \in up[i] <=>
            \/ cost[j] < cost[i]
            \/ cost[j] = cost[i] /\ (none[j] < none[i] \/ (none[j] = none[i] /\ j <= i))
      OBVIOUS
    <2> HIDE DEF up, cost, none
    <2>3. TotalOrder(agents, up)
      BY <1>1, <1>3, <2>1, <2>2, KeyOrder
    <2>4. Lists(Ranked(agents, up), agents)
      BY <1>1, <2>3, RankedLists
    <2>5. QED
      BY <2>4 DEF ByCost, up
  <1>5. Lists(ByQuality(g, agents), agents)
    <2> DEFINE up == [i \in agents |-> {j \in agents :
                 \/ Cap(g, j).quality > Cap(g, i).quality
                 \/ Cap(g, j).quality = Cap(g, i).quality /\ j <= i}]
    <2>1. up \in [agents -> SUBSET agents]
      OBVIOUS
    <2>2. \A i, j \in agents : j \in up[i] <=>
            \/ lack[j] < lack[i]
            \/ lack[j] = lack[i] /\ (none[j] < none[i] \/ (none[j] = none[i] /\ j <= i))
      BY <1>2
    <2> HIDE DEF up, lack, none
    <2>3. TotalOrder(agents, up)
      BY <1>1, <1>3, <2>1, <2>2, KeyOrder
    <2>4. Lists(Ranked(agents, up), agents)
      BY <1>1, <2>3, RankedLists
    <2>5. QED
      BY <2>4 DEF ByQuality, up
  <1>6. Lists(ByQualityThenTrust(g, agents), agents)
    <2> DEFINE up == [i \in agents |-> {j \in agents :
                 \/ Cap(g, j).quality > Cap(g, i).quality
                 \/ /\ Cap(g, j).quality = Cap(g, i).quality
                    /\ \/ TrustOf(g, j) > TrustOf(g, i)
                       \/ TrustOf(g, j) = TrustOf(g, i) /\ j <= i}]
    <2>1. up \in [agents -> SUBSET agents]
      OBVIOUS
    <2>2. \A i, j \in agents : j \in up[i] <=>
            \/ lack[j] < lack[i]
            \/ lack[j] = lack[i] /\ (doubt[j] < doubt[i] \/ (doubt[j] = doubt[i] /\ j <= i))
      BY <1>2
    <2> HIDE DEF up, lack, doubt
    <2>3. TotalOrder(agents, up)
      BY <1>1, <1>3, <2>1, <2>2, KeyOrder
    <2>4. Lists(Ranked(agents, up), agents)
      BY <1>1, <2>3, RankedLists
    <2>5. QED
      BY <2>4 DEF ByQualityThenTrust, up
  <1>7. QED
    BY <1>4, <1>5, <1>6

(* The first few of a listing are a listing. *)
LEMMA FirstFacts ==
  ASSUME NEW agents, IsFiniteSet(agents), NEW s, Lists(s, agents), NEW n \in Nat
  PROVE  /\ Len(FirstOf(s, n)) = Smaller(n, Cardinality(agents))
         /\ Len(FirstOf(s, n)) # 0 => Listing(FirstOf(s, n), agents)
  <1> DEFINE k == Cardinality(agents)
             c == Smaller(n, k)
             t == FirstOf(s, n)
  <1>1. k \in Nat
    BY FS_CardinalityType
  <1>2. s \in [1 .. k -> agents] /\ \A i, j \in 1 .. k : s[i] = s[j] => i = j
    BY DEF Lists
  <1> HIDE DEF k
  <1>3. Len(s) = k
    BY <1>1, <1>2, LenOf
  <1>4. t = [i \in 1 .. c |-> s[i]]
    BY <1>3 DEF FirstOf
  <1>5. c \in Nat /\ c <= k
    BY <1>1 DEF Smaller
  <1> HIDE DEF c, t
  <1>6. \A i \in 1 .. c : i \in 1 .. k
    BY <1>1, <1>5
  <1>7. t \in [1 .. c -> agents] /\ \A i, j \in 1 .. c : t[i] = t[j] => i = j
    BY <1>2, <1>4, <1>6
  <1>8. Len(t) = c
    BY <1>5, <1>7, LenOf
  <1>9. IsInjective(t)
    BY <1>7 DEF IsInjective
  <1>10. c # 0 => Listing(t, agents)
    BY <1>5, <1>7, <1>9 DEF Listing
  <1>11. QED
    BY <1>8, <1>10 DEF t, c, k

-----------------------------------------------------------------------------
(* The patterns' metrics                                                   *)

(* A finite set of naturals has a greatest element. *)
LEMMA MaxOf ==
  ASSUME NEW S, S \subseteq Nat, S # {}, NEW b \in Nat, \A x \in S : x <= b
  PROVE  Max(S) \in Nat
  <1> DEFINE T == {b - x : x \in S}
  <1>1. T \subseteq Nat /\ T # {}
    <2>1. \A x \in S : b - x \in Nat
      OBVIOUS
    <2>2. T # {}
      OBVIOUS
    <2>3. QED
      BY <2>1, <2>2
  <1>2. PICK n \in T : \A m \in T : n <= m
    <2> HIDE DEF T
    <2>1. QED
      BY <1>1, Least
  <1>3. PICK x \in S : n = b - x
    OBVIOUS
  <1>4. ASSUME NEW y \in S PROVE x >= y
    <2>1. b - y \in T
      OBVIOUS
    <2>2. n <= b - y
      BY <1>2, <2>1
    <2>3. QED
      BY <1>3, <2>2
  <1>5. Max(S) \in S
    BY <1>4 DEF Max
  <1>6. QED
    BY <1>5

(* Agents side by side have metrics. *)
LEMMA SideFacts ==
  ASSUME NEW g, NEW agents, Skilled(g, agents), NEW p, Listing(p, agents),
         NEW overhead \in Nat
  PROVE  SideBySide(g, p, overhead) \in Metrics
  <1>1. PICK k \in Nat \ {0} : p \in [1 .. k -> agents]
    BY DEF Listing
  <1>2. Len(p) = k /\ k \in Nat
    BY <1>1, LenOf
  <1> DEFINE q == [n \in 1 .. k |-> 10 - Cap(g, p[n]).quality]
             l == [n \in 1 .. k |-> Cap(g, p[n]).latency]
             c == [n \in 1 .. k |-> Cap(g, p[n]).cost]
             L == {Cap(g, p[n]).latency : n \in 1 .. k}
  <1>3. \A n \in 1 .. k : Cap(g, p[n]) \in Capability
    BY <1>1 DEF Skilled
  <1>4. \A n \in 1 .. k : /\ Cap(g, p[n]).quality \in 0 .. 10
                          /\ Cap(g, p[n]).latency \in Nat /\ Cap(g, p[n]).cost \in Nat
    BY <1>3 DEF Capability
  <1>5. q \in [1 .. k -> 0 .. 10] /\ l \in [1 .. k -> Nat] /\ c \in [1 .. k -> Nat]
    BY <1>4
  <1>6. SideBySide(g, p, overhead) = [quality |-> Whole - Product(q),
                                      latency |-> Fine * (Max(L) + overhead),
                                      cost |-> Fine * SumFunction(c)]
    BY <1>2 DEF SideBySide
  <1>7. L \subseteq Nat /\ L # {} /\ \A x \in L : \E n \in 1 .. k : x = l[n]
    <2>1. 1 \in 1 .. k
      BY <1>1
    <2>2. QED
      BY <1>4, <2>1
  <1> HIDE DEF q, l, c, L
  <1>8. Product(q) \in 0 .. Whole
    BY <1>2, <1>5, ProductFacts
  <1>9. SumFunction(c) \in Nat
    BY <1>2, <1>5, SumOf
  <1>10. Max(L) \in Nat
    <2>1. SumFunction(l) \in Nat /\ \A n \in 1 .. k : l[n] <= SumFunction(l)
      BY <1>2, <1>5, SumOf
    <2>2. \A x \in L : x <= SumFunction(l)
      BY <1>7, <2>1
    <2>3. QED
      BY <1>7, <2>1, <2>2, MaxOf
  <1>11. Whole \in Nat
    BY DEF Whole
  <1>12. Whole - Product(q) \in 0 .. Whole
    BY <1>8, <1>11
  <1>13. Fine * (Max(L) + overhead) \in Nat /\ Fine * SumFunction(c) \in Nat
    BY <1>9, <1>10 DEF Fine
  <1>14. QED
    BY <1>6, <1>12, <1>13 DEF Metrics

(* How confident an answer is, in twentieths. *)
LEMMA ConfidentType ==
  ASSUME NEW cap \in Capability
  PROVE  Confident(cap) \in 0 .. 20
  <1>1. cap.quality \in 0 .. 10
    BY DEF Capability
  <1>2. QED
    BY <1>1 DEF Confident

(* How often a level of a cascade hands on is a natural, in the unit of ProbReach. *)
LEMMA EscalatesType ==
  ASSUME NEW prob \in Nat, NEW cap \in Capability
  PROVE  Escalates(prob, cap) \in Nat
  <1>1. 20 - Confident(cap) \in Nat
    BY ConfidentType
  <1>2. prob * (20 - Confident(cap)) \in Nat
    <2>1. \A x, y \in Nat : x * y \in Nat
      OBVIOUS
    <2>2. QED
      BY <1>1, <2>1
  <1>3. \A x \in Nat : x \div 20 \in Nat
    OBVIOUS
  <1>4. QED
    BY <1>2, <1>3 DEF Escalates

(* So is how often a level is reached. *)
LEMMA ReachType ==
  ASSUME NEW k \in Nat, NEW caps \in [1 .. k -> Capability]
  PROVE  \A n \in 0 .. k : ProbReach(caps)[n] \in Nat
  <1>1. Len(caps) = k
    BY LenOf
  <1>2. PICK f : /\ f[0] = Certain
                 /\ \A n \in 1 .. k : f[n] = Escalates(f[n - 1], caps[n])
                 /\ ProbReach(caps) = f
    BY <1>1, ReachSteps
  <1> DEFINE S == {n \in Nat : n <= k => f[n] \in Nat}
  <1>3. 0 \in S
    BY <1>2 DEF Certain
  <1>4. ASSUME NEW n \in Nat, n \in S PROVE n + 1 \in S
    <2> SUFFICES ASSUME n + 1 <= k PROVE f[n + 1] \in Nat
      OBVIOUS
    <2>1. n + 1 \in 1 .. k /\ f[n] \in Nat /\ (n + 1) - 1 = n
      BY <1>4
    <2>2. f[n + 1] = Escalates(f[n], caps[n + 1]) /\ caps[n + 1] \in Capability
      BY <1>2, <2>1
    <2>3. QED
      BY <2>1, <2>2, EscalatesType
  <1>5. Nat \subseteq S
    <2> HIDE DEF S
    <2>1. QED
      BY <1>3, <1>4, SetInduction
  <1>6. QED
    BY <1>2, <1>5

(* A cascade has metrics. *)
LEMMA CascadeFacts ==
  ASSUME NEW g, NEW agents, Skilled(g, agents), NEW p, Listing(p, agents)
  PROVE  CascadeMetrics(g, p) \in Metrics
  <1>1. PICK k \in Nat \ {0} : p \in [1 .. k -> agents]
    BY DEF Listing
  <1>2. Len(p) = k /\ k \in Nat /\ k - 1 \in Nat /\ k \in 1 .. k /\ k \in 0 .. k
    BY <1>1, LenOf
  <1> DEFINE caps == [n \in 1 .. k |-> Cap(g, p[n])]
             reach == ProbReach(caps)
             q == [n \in 1 .. k |-> (reach[n - 1] * Confident(caps[n]) * caps[n].quality) \div 20]
             l == [n \in 1 .. k |-> (reach[n - 1] * caps[n].latency) \div 20]
             t == [n \in 1 .. k - 1 |-> (reach[n] * Transfer(g, p[n], p[n + 1])) \div 20]
             c == [n \in 1 .. k |-> (reach[n - 1] * caps[n].cost) \div 20]
  <1>3. caps \in [1 .. k -> Capability]
    BY <1>1 DEF Skilled
  <1>4. CascadeMetrics(g, p) =
          [quality |-> Smaller(Whole, SumFunction(q) + reach[k] * caps[k].quality),
           latency |-> SumFunction(l) + SumFunction(t),
           cost    |-> SumFunction(c)]
    BY <1>2 DEF CascadeMetrics
  <1> HIDE DEF caps
  <1>5. \A n \in 0 .. k : reach[n] \in Nat
    BY <1>2, <1>3, ReachType
  <1> HIDE DEF reach
  <1>6. ASSUME NEW n \in 1 .. k
        PROVE  /\ reach[n - 1] \in Nat /\ Confident(caps[n]) \in Nat
               /\ caps[n].quality \in Nat /\ caps[n].latency \in Nat /\ caps[n].cost \in Nat
    <2>1. caps[n] \in Capability /\ n - 1 \in 0 .. k
      BY <1>2, <1>3
    <2>2. Confident(caps[n]) \in 0 .. 20
      BY <2>1, ConfidentType
    <2>3. caps[n].quality \in 0 .. 10 /\ caps[n].latency \in Nat /\ caps[n].cost \in Nat
      BY <2>1 DEF Capability
    <2>4. QED
      BY <1>5, <2>1, <2>2, <2>3
  <1>7. \A n \in 1 .. k - 1 : reach[n] \in Nat /\ Transfer(g, p[n], p[n + 1]) \in Nat
    <2>1. \A n \in 1 .. k - 1 : n \in 0 .. k /\ p[n] \in agents /\ p[n + 1] \in agents
      BY <1>1
    <2>2. QED
      BY <1>5, <2>1 DEF Skilled
  <1>8. (\A x, y \in Nat : x * y \in Nat) /\ (\A x \in Nat : x \div 20 \in Nat)
    OBVIOUS
  <1>9. q \in [1 .. k -> Nat]
    <2>1. \A n \in 1 .. k : reach[n - 1] * Confident(caps[n]) * caps[n].quality \in Nat
      BY <1>6, <1>8
    <2>2. QED
      BY <1>8, <2>1
  <1>10. l \in [1 .. k -> Nat]
    <2>1. \A n \in 1 .. k : reach[n - 1] * caps[n].latency \in Nat
      BY <1>6, <1>8
    <2>2. QED
      BY <1>8, <2>1
  <1>11. t \in [1 .. k - 1 -> Nat]
    <2>1. \A n \in 1 .. k - 1 : reach[n] * Transfer(g, p[n], p[n + 1]) \in Nat
      BY <1>7, <1>8
    <2>2. QED
      BY <1>8, <2>1
  <1>12. c \in [1 .. k -> Nat]
    <2>1. \A n \in 1 .. k : reach[n - 1] * caps[n].cost \in Nat
      BY <1>6, <1>8
    <2>2. QED
      BY <1>8, <2>1
  <1> HIDE DEF q, l, t, c
  <1>13. /\ SumFunction(q) \in Nat /\ SumFunction(l) \in Nat /\ SumFunction(t) \in Nat
         /\ SumFunction(c) \in Nat
    BY <1>2, <1>9, <1>10, <1>11, <1>12, SumOf
  <1>14. reach[k] * caps[k].quality \in Nat
    BY <1>2, <1>5, <1>6, <1>8
  <1>15. Smaller(Whole, SumFunction(q) + reach[k] * caps[k].quality) \in 0 .. Whole
    <2>0. Whole \in Nat
      BY DEF Whole
    <2>1. \A x, y \in Nat : Smaller(Whole, x + y) \in 0 .. Whole
      BY <2>0 DEF Smaller
    <2>2. QED
      BY <1>13, <1>14, <2>1
  <1>16. SumFunction(l) + SumFunction(t) \in Nat
    BY <1>13
  <1>17. QED
    BY <1>4, <1>13, <1>15, <1>16 DEF Metrics

-----------------------------------------------------------------------------
(* The routes                                                              *)

\* The metrics of a pattern's route through the agents of a list.
MetricsOf(g, pattern, s) ==
    CASE pattern = "ParallelMerge" -> SideBySide(g, s, MergeOverhead)
      [] pattern = "Ensemble"      -> SideBySide(g, s, VotingOverhead)
      [] pattern = "Cascade"       -> CascadeMetrics(g, s)
      [] OTHER                     -> PathMetrics(g, s)

Proper(g, agents, r) ==
    /\ r.pattern \in Pattern /\ Listing(r.agents, agents)
    /\ r = Route(r.pattern, r.agents, MetricsOf(g, r.pattern, r.agents))

(* What a route is made of. *)
LEMMA RouteParts ==
  ASSUME NEW p, NEW s, NEW m
  PROVE  Route(p, s, m).pattern = p /\ Route(p, s, m).agents = s /\ Route(p, s, m).metrics = m
  BY DEF Route

(* A route made by a pattern from listed agents is proper. *)
LEMMA MadeProper ==
  ASSUME NEW g, NEW agents, NEW s, Listing(s, agents)
  PROVE  /\ Proper(g, agents, Route("Pipeline", s, PathMetrics(g, s)))
         /\ Proper(g, agents, Route("DraftRefine", s, PathMetrics(g, s)))
         /\ Proper(g, agents, Route("ParallelMerge", s, SideBySide(g, s, MergeOverhead)))
         /\ Proper(g, agents, Route("Ensemble", s, SideBySide(g, s, VotingOverhead)))
         /\ Proper(g, agents, Route("Cascade", s, CascadeMetrics(g, s)))
  <1>1. /\ MetricsOf(g, "Pipeline", s) = PathMetrics(g, s)
        /\ MetricsOf(g, "DraftRefine", s) = PathMetrics(g, s)
        /\ MetricsOf(g, "ParallelMerge", s) = SideBySide(g, s, MergeOverhead)
        /\ MetricsOf(g, "Ensemble", s) = SideBySide(g, s, VotingOverhead)
        /\ MetricsOf(g, "Cascade", s) = CascadeMetrics(g, s)
    BY DEF MetricsOf
  <1>2. ASSUME NEW p \in Pattern PROVE Proper(g, agents, Route(p, s, MetricsOf(g, p, s)))
    BY RouteParts DEF Proper
  <1>3. /\ "Pipeline" \in Pattern /\ "DraftRefine" \in Pattern /\ "ParallelMerge" \in Pattern
        /\ "Ensemble" \in Pattern /\ "Cascade" \in Pattern
    BY DEF Pattern
  <1>4. QED
    BY <1>1, <1>2, <1>3

(* The metrics of a proper route are numbers. *)
LEMMA ProperFacts ==
  ASSUME NEW g, NEW agents, Skilled(g, agents), NEW r, Proper(g, agents, r)
  PROVE  r.metrics \in Metrics
  <1> DEFINE s == r.agents
             p == r.pattern
  <1>1. r.metrics = MetricsOf(g, p, s) /\ p \in Pattern /\ Listing(s, agents)
    BY RouteParts DEF Proper
  <1>2. PathMetrics(g, s) \in Metrics
    BY <1>1, PathFacts DEF Listing
  <1>3. SideBySide(g, s, MergeOverhead) \in Metrics /\ SideBySide(g, s, VotingOverhead) \in Metrics
    BY <1>1, SearchAssumption, SideFacts
  <1>4. CascadeMetrics(g, s) \in Metrics
    BY <1>1, CascadeFacts
  <1>5. MetricsOf(g, p, s) \in Metrics
    BY <1>1, <1>2, <1>3, <1>4 DEF MetricsOf
  <1>6. QED
    BY <1>1, <1>5

(* Routes of one pattern through the same agents are the same.             *)
LEMMA ProperTold ==
  ASSUME NEW g, NEW agents, NEW routes, \A r \in routes : Proper(g, agents, r)
  PROVE  Told(routes)
  BY DEF Told, Proper

(* Some of the skilled agents are skilled. *)
LEMMA SkilledSubset ==
  ASSUME NEW g, NEW agents, Skilled(g, agents), NEW S \in SUBSET agents
  PROVE  Skilled(g, S)
  <1>1. IsFiniteSet(S)
    BY FS_Subset DEF Skilled
  <1>2. QED
    BY <1>1 DEF Skilled

(* The first agents in an order are listed once each. *)
LEMMA FirstOfSorted ==
  ASSUME NEW agents, IsFiniteSet(agents), agents # {}, NEW s, Lists(s, agents)
  PROVE  s[1] \in agents
  <1>1. Cardinality(agents) \in Nat \ {0}
    BY FS_CardinalityType, FS_EmptySet
  <1>2. QED
    BY <1>1 DEF Lists

\* What find_route and find_routes promise of a route.
Sound(g, agents, qos, r) == Proper(g, agents, r) /\ Satisfies(r.metrics, qos)

\* Finitely many routes, all of them sound.
AllSound(g, agents, qos, routes) ==
    IsFiniteSet(routes) /\ \A r \in routes : Sound(g, agents, qos, r)

(* A route is offered only if it satisfies the constraints. *)
LEMMA IfFeasibleFacts ==
  ASSUME NEW g, NEW agents, NEW qos, NEW r, Proper(g, agents, r)
  PROVE  AllSound(g, agents, qos, IfFeasible(r, qos))
  <1>1. CASE Satisfies(r.metrics, qos)
    BY <1>1, FS_Singleton DEF IfFeasible, AllSound, Sound
  <1>2. CASE ~Satisfies(r.metrics, qos)
    BY <1>2, FS_EmptySet DEF IfFeasible, AllSound
  <1>3. QED
    BY <1>1, <1>2

(* Where there is no route, none is unsound. *)
LEMMA NoRoute ==
  ASSUME NEW g, NEW agents, NEW qos
  PROVE  AllSound(g, agents, qos, {})
  BY FS_EmptySet DEF AllSound

(* draft_refine offers only sound routes. *)
LEMMA DraftRefineFacts ==
  ASSUME NEW g, NEW agents, Skilled(g, agents), NEW qos
  PROVE  AllSound(g, agents, qos, DraftRefine(g, agents, qos))
  <1> DEFINE k == Cardinality(agents)
             drafter == ByCost(g, agents)[1]
             others == agents \ {drafter}
             refiner == ByQuality(g, others)[1]
             path == <<drafter, refiner>>
             r == Route("DraftRefine", path, PathMetrics(g, path))
  <1>0. k \in Nat /\ IsFiniteSet(agents)
    BY FS_CardinalityType DEF Skilled
  <1>1. CASE k < 2
    <2>1. DraftRefine(g, agents, qos) = {}
      BY <1>1 DEF DraftRefine
    <2>2. QED
      BY <2>1, NoRoute
  <1>2. CASE ~(k < 2)
    <2>1. agents # {}
      BY <1>0, <1>2, FS_EmptySet
    <2>2. drafter \in agents
      BY <1>0, <2>1, SortedLists, FirstOfSorted
    <2> HIDE DEF drafter
    <2>3. IsFiniteSet(others) /\ Cardinality(others) = k - 1
      BY <1>0, <2>2, FS_RemoveElement
    <2>4. others # {}
      BY <1>0, <1>2, <2>3, FS_EmptySet
    <2>5. Skilled(g, others)
      BY SkilledSubset
    <2> HIDE DEF others
    <2>6. refiner \in others
      BY <2>3, <2>4, <2>5, SortedLists, FirstOfSorted
    <2> HIDE DEF refiner
    <2>7. refiner \in agents /\ refiner # drafter
      BY <2>6 DEF others
    <2>8. path \in [1 .. 2 -> agents] /\ IsInjective(path)
      BY <2>2, <2>7 DEF IsInjective
    <2>9. Listing(path, agents)
      BY <2>8 DEF Listing
    <2> HIDE DEF path
    <2>10. Proper(g, agents, r)
      BY <2>9, MadeProper
    <2>11. DraftRefine(g, agents, qos) = IfFeasible(r, qos)
      BY <1>2 DEF DraftRefine, drafter, others, refiner, path
    <2> HIDE DEF r
    <2>12. QED
      BY <2>10, <2>11, IfFeasibleFacts
  <1>3. QED
    BY <1>1, <1>2

(* So do parallel_merge and ensemble. *)
LEMMA SideBySideFacts ==
  ASSUME NEW g, NEW agents, Skilled(g, agents), NEW qos
  PROVE  /\ AllSound(g, agents, qos, ParallelMerge(g, agents, qos))
         /\ AllSound(g, agents, qos, Ensemble(g, agents, qos))
  <1>0. IsFiniteSet(agents) /\ Parallelism \in Nat
    BY SearchAssumption DEF Skilled
  <1>1. AllSound(g, agents, qos, ParallelMerge(g, agents, qos))
    <2> DEFINE path == FirstOf(ByQuality(g, agents), Parallelism)
               r == Route("ParallelMerge", path, SideBySide(g, path, MergeOverhead))
    <2>1. Len(path) # 0 => Listing(path, agents)
      BY <1>0, SortedLists, FirstFacts
    <2> HIDE DEF path
    <2>2. CASE Len(path) < 2
      <3>1. ParallelMerge(g, agents, qos) = {}
        BY <2>2 DEF ParallelMerge, path
      <3>2. QED
        BY <3>1, NoRoute
    <2>3. CASE ~(Len(path) < 2)
      <3>1. Listing(path, agents)
        BY <2>1, <2>3
      <3>2. Proper(g, agents, r)
        BY <3>1, MadeProper
      <3>3. ParallelMerge(g, agents, qos) = IfFeasible(r, qos)
        BY <2>3 DEF ParallelMerge, path
      <3> HIDE DEF r
      <3>4. QED
        BY <3>2, <3>3, IfFeasibleFacts
    <2>4. QED
      BY <2>2, <2>3
  <1>2. AllSound(g, agents, qos, Ensemble(g, agents, qos))
    <2> DEFINE path == FirstOf(ByQualityThenTrust(g, agents), Parallelism)
               r == Route("Ensemble", path, SideBySide(g, path, VotingOverhead))
    <2>1. Len(path) # 0 => Listing(path, agents)
      BY <1>0, SortedLists, FirstFacts
    <2> HIDE DEF path
    <2>2. CASE Len(path) < 2
      <3>1. Ensemble(g, agents, qos) = {}
        BY <2>2 DEF Ensemble, path
      <3>2. QED
        BY <3>1, NoRoute
    <2>3. CASE ~(Len(path) < 2)
      <3>1. Listing(path, agents)
        BY <2>1, <2>3
      <3>2. Proper(g, agents, r)
        BY <3>1, MadeProper
      <3>3. Ensemble(g, agents, qos) = IfFeasible(r, qos)
        BY <2>3 DEF Ensemble, path
      <3> HIDE DEF r
      <3>4. QED
        BY <3>2, <3>3, IfFeasibleFacts
    <2>4. QED
      BY <2>2, <2>3
  <1>3. QED
    BY <1>1, <1>2

(* So does cascade. *)
LEMMA CascadeSound ==
  ASSUME NEW g, NEW agents, Skilled(g, agents), NEW qos
  PROVE  AllSound(g, agents, qos, Cascade(g, agents, qos))
  <1> DEFINE chain == FirstOf(ByCost(g, agents), CascadeDepth)
             r == Route("Cascade", chain, CascadeMetrics(g, chain))
  <1>0. IsFiniteSet(agents) /\ CascadeDepth \in Nat \ {0} /\ CascadeDepth \in Nat
    BY SearchAssumption DEF Skilled
  <1>1. CASE agents = {}
    <2>1. Cascade(g, agents, qos) = {}
      BY <1>1 DEF Cascade
    <2>2. QED
      BY <2>1, NoRoute
  <1>2. CASE agents # {}
    <2>1. /\ Len(chain) = Smaller(CascadeDepth, Cardinality(agents))
          /\ Len(chain) # 0 => Listing(chain, agents)
      BY <1>0, SortedLists, FirstFacts
    <2> HIDE DEF chain
    <2>2. Cardinality(agents) \in Nat \ {0}
      BY <1>0, <1>2, FS_CardinalityType, FS_EmptySet
    <2>3. Listing(chain, agents)
      BY <1>0, <2>1, <2>2 DEF Smaller
    <2>4. Proper(g, agents, r)
      BY <2>3, MadeProper
    <2>5. Cascade(g, agents, qos) = IfFeasible(r, qos)
      BY <1>2 DEF Cascade, chain
    <2> HIDE DEF r
    <2>6. QED
      BY <2>4, <2>5, IfFeasibleFacts
  <1>3. QED
    BY <1>1, <1>2

(* So does the single agent, and it finds one whenever one will do. *)
LEMMA SingleAgentFacts ==
  ASSUME NEW g, NEW agents, Skilled(g, agents), NEW qos
  PROVE  /\ \A i \in agents : Satisfies(PathMetrics(g, <<i>>), qos) =>
              SingleAgent(g, agents, qos) # {}
         /\ \A r \in SingleAgent(g, agents, qos) : \E i \in agents :
              r = PathRoute(g, <<i>>) /\ Satisfies(r.metrics, qos)
  <1> DEFINE able == {i \in agents : Satisfies(PathMetrics(g, <<i>>), qos)}
             first == ByCost(g, able)[1]
  <1>1. CASE able = {}
    BY <1>1 DEF SingleAgent
  <1>2. CASE able # {}
    <2>1. SingleAgent(g, agents, qos) = {PathRoute(g, <<first>>)}
      BY <1>2 DEF SingleAgent
    <2>2. Skilled(g, able)
      BY SkilledSubset
    <2>3. IsFiniteSet(able)
      BY <2>2 DEF Skilled
    <2>4. first \in able
      <3> HIDE DEF able
      <3>1. QED
        BY <1>2, <2>2, <2>3, SortedLists, FirstOfSorted
    <2> HIDE DEF first
    <2>5. PathRoute(g, <<first>>).metrics = PathMetrics(g, <<first>>)
      BY RouteParts DEF PathRoute
    <2>6. QED
      BY <2>1, <2>4, <2>5
  <1>3. QED
    BY <1>1, <1>2

-----------------------------------------------------------------------------
(* find_route and find_routes                                              *)

\* The routes of all patterns, the ones Bellman-Ford's are chosen from, and the
\* last resort of auto_select_pattern.
Patterns(g, qos) == UNION {TryPattern(g, p, qos) : p \in Pattern \ {"Pipeline"}}

Base(g, qos) ==
    LET candidates == Candidates(g, CapableAgents(g, qos.min_trust))
        front      == Feasible(ParetoFront(candidates), qos)
    IN  IF front # {} THEN front ELSE Feasible(candidates, qos)

Alone(g, qos) == SingleAgent(g, CapableAgents(g, qos.min_trust), qos)

Offered(g, qos) == Patterns(g, qos) \cup Base(g, qos) \cup Alone(g, qos)

\* The graph is fit to be searched for this request.
Ready(g, qos) == qos \in QoS /\ Skilled(g, CapableAgents(g, qos.min_trust))

(* What each pattern tries. *)
LEMMA PatternSets ==
  ASSUME NEW g, NEW qos, NEW agents, agents = CapableAgents(g, qos.min_trust)
  PROVE  /\ TryPattern(g, "DraftRefine", qos) = DraftRefine(g, agents, qos)
         /\ TryPattern(g, "ParallelMerge", qos) = ParallelMerge(g, agents, qos)
         /\ TryPattern(g, "Cascade", qos) = Cascade(g, agents, qos)
         /\ TryPattern(g, "Ensemble", qos) = Ensemble(g, agents, qos)
         /\ TryPattern(g, "Pipeline", qos) = SelectTop(g, qos)
         /\ Patterns(g, qos) =
              UNION {DraftRefine(g, agents, qos), ParallelMerge(g, agents, qos),
                     Cascade(g, agents, qos), Ensemble(g, agents, qos)}
  <1>1. /\ TryPattern(g, "DraftRefine", qos) = DraftRefine(g, agents, qos)
        /\ TryPattern(g, "ParallelMerge", qos) = ParallelMerge(g, agents, qos)
        /\ TryPattern(g, "Cascade", qos) = Cascade(g, agents, qos)
        /\ TryPattern(g, "Ensemble", qos) = Ensemble(g, agents, qos)
        /\ TryPattern(g, "Pipeline", qos) = SelectTop(g, qos)
    BY DEF TryPattern
  <1>2. Pattern \ {"Pipeline"} = {"DraftRefine", "ParallelMerge", "Cascade", "Ensemble"}
    BY DEF Pattern
  <1>3. {TryPattern(g, p, qos) : p \in Pattern \ {"Pipeline"}} =
          {DraftRefine(g, agents, qos), ParallelMerge(g, agents, qos),
           Cascade(g, agents, qos), Ensemble(g, agents, qos)}
    BY <1>1, <1>2
  <1>4. QED
    BY <1>1, <1>3 DEF Patterns

(* Whatever pattern is tried, its routes are sound. *)
LEMMA PatternFacts ==
  ASSUME NEW g, NEW qos, Ready(g, qos), NEW agents, agents = CapableAgents(g, qos.min_trust)
  PROVE  AllSound(g, agents, qos, Patterns(g, qos))
  <1> DEFINE d == DraftRefine(g, agents, qos)
             p == ParallelMerge(g, agents, qos)
             c == Cascade(g, agents, qos)
             e == Ensemble(g, agents, qos)
  <1>0. Skilled(g, agents)
    BY DEF Ready
  <1>1. /\ AllSound(g, agents, qos, d) /\ AllSound(g, agents, qos, p)
        /\ AllSound(g, agents, qos, c) /\ AllSound(g, agents, qos, e)
    BY <1>0, DraftRefineFacts, SideBySideFacts, CascadeSound
  <1>2. Patterns(g, qos) = UNION {d, p, c, e}
    BY PatternSets
  <1> HIDE DEF d, p, c, e
  <1>3. IsFiniteSet(d \cup p) /\ IsFiniteSet(c \cup e)
    BY <1>1, FS_Union DEF AllSound
  <1>4. IsFiniteSet((d \cup p) \cup (c \cup e))
    BY <1>3, FS_Union
  <1>5. UNION {d, p, c, e} = (d \cup p) \cup (c \cup e)
    OBVIOUS
  <1>6. \A r \in UNION {d, p, c, e} : Sound(g, agents, qos, r)
    BY <1>1 DEF AllSound
  <1>7. QED
    BY <1>2, <1>4, <1>5, <1>6 DEF AllSound

(* Bellman-Ford's feasible routes are sound, and the front has one if there is one. *)
LEMMA BaseFacts ==
  ASSUME NEW g, NEW qos, Ready(g, qos), NEW agents, agents = CapableAgents(g, qos.min_trust)
  PROVE  /\ AllSound(g, agents, qos, Base(g, qos))
         /\ \A r \in Candidates(g, agents) : Satisfies(r.metrics, qos) =>
              /\ Feasible(ParetoFront(Candidates(g, agents)), qos) # {}
              /\ \E o \in Base(g, qos) : Price(o, qos) <= Price(r, qos)
  <1> DEFINE C == Candidates(g, agents)
             front == Feasible(ParetoFront(C), qos)
  <1>0. Skilled(g, agents) /\ qos \in QoS
    BY DEF Ready
  <1>1. /\ IsFiniteSet(C)
        /\ \A r \in C : r = PathRoute(g, r.agents) /\ Listing(r.agents, agents)
    BY <1>0, CandidateFacts
  <1>2. Base(g, qos) = IF front # {} THEN front ELSE Feasible(C, qos)
    BY DEF Base
  <1> HIDE DEF C
  <1>3. front \subseteq C /\ Feasible(C, qos) \subseteq C
    BY DEF Feasible, ParetoFront
  <1>4. Base(g, qos) \in SUBSET C
    BY <1>2, <1>3
  <1>5. \A r \in C : Proper(g, agents, r)
    <2> SUFFICES ASSUME NEW r \in C PROVE Proper(g, agents, r)
      OBVIOUS
    <2> DEFINE s == r.agents
    <2>1. r = Route("Pipeline", s, PathMetrics(g, s)) /\ Listing(s, agents)
      BY <1>1 DEF PathRoute
    <2> HIDE DEF s
    <2>2. QED
      BY <2>1, MadeProper
  <1>6. \A r \in C : r.metrics \in Metrics
    BY <1>0, <1>5, ProperFacts
  <1>7. IsFiniteSet(Base(g, qos))
    BY <1>1, <1>4, FS_Subset
  <1>8. \A r \in Base(g, qos) : Satisfies(r.metrics, qos)
    BY <1>2 DEF Feasible
  <1>9. AllSound(g, agents, qos, Base(g, qos))
    BY <1>4, <1>5, <1>7, <1>8 DEF AllSound, Sound
  <1>10. ASSUME NEW r \in C, Satisfies(r.metrics, qos)
         PROVE  front # {} /\ \E o \in Base(g, qos) : Price(o, qos) <= Price(r, qos)
    <2>1. PICK o \in ParetoFront(C) : AtLeastAsGood(o.metrics, r.metrics)
      BY <1>6, FrontFacts
    <2>2. o \in C
      BY DEF ParetoFront
    <2>3. Satisfies(o.metrics, qos)
      BY <1>0, <1>6, <1>10, <2>1, <2>2, BetterSatisfies
    <2>4. o \in front
      BY <2>3 DEF Feasible
    <2>5. o \in Base(g, qos)
      BY <1>2, <2>4
    <2>6. Price(o, qos) <= Price(r, qos)
      BY <1>0, <1>6, <2>1, <2>2, PriceFacts
    <2>7. QED
      BY <2>4, <2>5, <2>6
  <1>11. QED
    BY <1>9, <1>10 DEF C

(* select_top_routes takes the cheapest of them. *)
LEMMA TopIsOfBase ==
  ASSUME NEW g, NEW qos, NEW k
  PROVE  SelectTopRoutes(g, qos, k) = Cheapest(Base(g, qos), qos, k)
  BY DEF SelectTopRoutes, Base

(* Sound routes have prices. *)
LEMMA SoundIsPriced ==
  ASSUME NEW g, NEW qos, Ready(g, qos), NEW agents, agents = CapableAgents(g, qos.min_trust),
         NEW routes, \A r \in routes : Sound(g, agents, qos, r)
  PROVE  Priced(routes, qos) /\ Told(routes)
  <1>0. Skilled(g, agents) /\ qos \in QoS
    BY DEF Ready
  <1>1. \A r \in routes : Proper(g, agents, r)
    BY DEF Sound
  <1>2. \A r \in routes : r.metrics \in Metrics /\ r.pattern \in Pattern
    BY <1>0, <1>1, ProperFacts DEF Proper
  <1>3. \A r \in routes : Price(r, qos) \in Nat
    BY <1>0, <1>2, PriceFacts
  <1>4. QED
    BY <1>1, <1>2, <1>3, ProperTold DEF Priced

(* All that is offered is sound, and its last resort no cheaper than what  *)
(* Bellman-Ford's routes are chosen from.                                  *)
LEMMA OfferedFacts ==
  ASSUME NEW g, NEW qos, Ready(g, qos), NEW agents, agents = CapableAgents(g, qos.min_trust)
  PROVE  /\ \A r \in Offered(g, qos) : Sound(g, agents, qos, r)
         /\ \A r \in Offered(g, qos) : \E o \in Patterns(g, qos) \cup Base(g, qos) :
              Price(o, qos) <= Price(r, qos)
  <1>0. Skilled(g, agents) /\ qos \in QoS
    BY DEF Ready
  <1>1. \A r \in Alone(g, qos) : \E i \in agents :
          r = PathRoute(g, <<i>>) /\ Satisfies(r.metrics, qos)
    BY <1>0, SingleAgentFacts DEF Alone
  <1>2. \A r \in Alone(g, qos) : Sound(g, agents, qos, r)
    <2> SUFFICES ASSUME NEW r \in Alone(g, qos) PROVE Sound(g, agents, qos, r)
      OBVIOUS
    <2>1. PICK i \in agents : r = PathRoute(g, <<i>>) /\ Satisfies(r.metrics, qos)
      BY <1>1
    <2> DEFINE s == <<i>>
    <2>2. Listing(s, agents) /\ r = Route("Pipeline", s, PathMetrics(g, s))
      BY <2>1, OneListing DEF PathRoute
    <2> HIDE DEF s
    <2>3. Proper(g, agents, r)
      BY <2>2, MadeProper
    <2>4. QED
      BY <2>1, <2>3 DEF Sound
  <1>3. /\ \A r \in Patterns(g, qos) : Sound(g, agents, qos, r)
        /\ \A r \in Base(g, qos) : Sound(g, agents, qos, r)
    BY PatternFacts, BaseFacts DEF AllSound
  <1>4. \A r \in Offered(g, qos) : Sound(g, agents, qos, r)
    BY <1>2, <1>3 DEF Offered
  <1>5. ASSUME NEW r \in Alone(g, qos)
        PROVE  \E o \in Base(g, qos) : Price(o, qos) <= Price(r, qos)
    <2>1. PICK i \in agents : r = PathRoute(g, <<i>>) /\ Satisfies(r.metrics, qos)
      BY <1>1
    <2>2. r \in Candidates(g, agents)
      BY <1>0, <2>1, CandidateFacts
    <2>3. QED
      BY <2>1, <2>2, BaseFacts
  <1>6. \A r \in Offered(g, qos) : Price(r, qos) \in Nat
    BY <1>4, SoundIsPriced DEF Priced
  <1>7. \A r \in Offered(g, qos) : Price(r, qos) <= Price(r, qos)
    BY <1>6
  <1>8. QED
    BY <1>4, <1>5, <1>7 DEF Offered

(* Every list is a choice of what is offered, holds nothing twice, and     *)
(* something as cheap as any route that is offered.                        *)
LEMMA ListFacts ==
  ASSUME NEW g, NEW qos, Ready(g, qos), NEW list \in RouteLists(g, qos)
  PROVE  /\ list \subseteq Offered(g, qos)
         /\ \A r \in Offered(g, qos) : \E o \in list : Price(o, qos) <= Price(r, qos)
         /\ \A r, o \in list : r.agents = o.agents => r = o
  <1> DEFINE agents == CapableAgents(g, qos.min_trust)
             P == Patterns(g, qos)
             B == Base(g, qos)
  <1>1. PICK top \in Cheapest(B, qos, MaxRoutes) :
          list \in Cheapest(Deduplicated(P \cup top, qos), qos, MaxRoutes)
    BY TopIsOfBase DEF RouteLists, Patterns
  <1> DEFINE all == P \cup top
             kept == Deduplicated(all, qos)
  <1>2. MaxRoutes \in Nat \ {0}
    BY SearchAssumption
  <1>3. AllSound(g, agents, qos, P) /\ AllSound(g, agents, qos, B)
    BY PatternFacts, BaseFacts
  <1>4. IsFiniteSet(P) /\ IsFiniteSet(B) /\ Priced(B, qos)
    BY <1>3, SoundIsPriced DEF AllSound
  <1> HIDE DEF P, B, agents
  <1>5. /\ top \in SUBSET B
        /\ \A r \in B : \E o \in top : Price(o, qos) <= Price(r, qos)
    BY <1>1, <1>2, <1>4, CheapestFacts
  <1>6. IsFiniteSet(all)
    <2>1. IsFiniteSet(top)
      BY <1>4, <1>5, FS_Subset
    <2>2. QED
      BY <1>4, <2>1, FS_Union
  <1>7. \A r \in all : Sound(g, agents, qos, r)
    BY <1>3, <1>5 DEF AllSound
  <1>8. Priced(all, qos) /\ Told(all)
    <2> HIDE DEF all
    <2>1. QED
      BY <1>7, SoundIsPriced DEF agents
  <1>9. list \in Cheapest(kept, qos, MaxRoutes)
    BY <1>1
  <1> HIDE DEF all
  <1>10. /\ kept \in SUBSET all
         /\ \A r \in all : \E o \in kept : Price(o, qos) <= Price(r, qos)
         /\ \A r, o \in kept : r.agents = o.agents => r = o
    BY <1>8, DeduplicatedFacts
  <1>11. IsFiniteSet(kept) /\ Priced(kept, qos)
    BY <1>6, <1>8, <1>10, FS_Subset DEF Priced
  <1> HIDE DEF kept
  <1>12. /\ list \subseteq kept
         /\ \A r \in kept : \E o \in list : Price(o, qos) <= Price(r, qos)
    BY <1>2, <1>9, <1>11, CheapestFacts
  <1>13. list \subseteq Offered(g, qos)
    BY <1>5, <1>10, <1>12 DEF Offered, all, P, B
  <1>14. \A x \in Offered(g, qos) : Price(x, qos) \in Nat
    BY OfferedFacts, SoundIsPriced DEF Priced
  <1>15. ASSUME NEW r \in Offered(g, qos)
         PROVE  \E o \in list : Price(o, qos) <= Price(r, qos)
    <2>1. PICK x \in P \cup B : Price(x, qos) <= Price(r, qos)
      BY OfferedFacts DEF P, B
    <2>2. PICK y \in all : Price(y, qos) <= Price(x, qos)
      <3>1. CASE x \in B
        BY <1>5, <3>1 DEF all
      <3>2. CASE x \in P
        <4>1. x \in all /\ x \in Offered(g, qos)
          BY <3>2 DEF all, Offered, P
        <4>2. Price(x, qos) <= Price(x, qos)
          BY <1>14, <4>1
        <4>3. QED
          BY <4>1, <4>2
      <3>3. QED
        BY <3>1, <3>2
    <2>3. PICK z \in kept : Price(z, qos) <= Price(y, qos)
      BY <1>10
    <2>4. PICK o \in list : Price(o, qos) <= Price(z, qos)
      BY <1>12
    <2>5. /\ x \in Offered(g, qos) /\ y \in Offered(g, qos) /\ z \in Offered(g, qos)
          /\ o \in Offered(g, qos)
      BY <1>5, <1>10, <1>13 DEF Offered, all, P, B
    <2>6. /\ Price(r, qos) \in Nat /\ Price(x, qos) \in Nat /\ Price(y, qos) \in Nat
          /\ Price(z, qos) \in Nat /\ Price(o, qos) \in Nat
      BY <1>14, <2>5
    <2>7. Price(o, qos) <= Price(r, qos)
      BY <2>1, <2>2, <2>3, <2>4, <2>6
    <2>8. QED
      BY <2>7
  <1>16. QED
    BY <1>10, <1>12, <1>13, <1>15

(* The first attempt that finds a route is taken, and none only if all fail. *)
LEMMA FirstFoundFacts ==
  ASSUME NEW attempts, DOMAIN attempts \subseteq Nat
  PROVE  /\ \A r \in FirstFound(attempts) : \E n \in DOMAIN attempts : r \in attempts[n]
         /\ \A n \in DOMAIN attempts : attempts[n] # {} => FirstFound(attempts) # {}
  <1> DEFINE found == {n \in DOMAIN attempts : attempts[n] # {}}
  <1>1. CASE found = {}
    BY <1>1 DEF FirstFound
  <1>2. CASE found # {}
    <2>1. PICK n \in found : \A m \in found : n <= m
      <3>1. found \subseteq Nat
        OBVIOUS
      <3> HIDE DEF found
      <3>2. QED
        BY <1>2, <3>1, Least
    <2>2. Min(found) \in found
      BY <2>1 DEF Min
    <2>3. FirstFound(attempts) = attempts[Min(found)]
      BY <1>2 DEF FirstFound
    <2> DEFINE x == Min(found)
    <2>4. x \in found /\ FirstFound(attempts) = attempts[x]
      BY <2>2, <2>3
    <2> HIDE DEF x
    <2>5. QED
      BY <2>4
  <1>3. QED
    BY <1>1, <1>2

(* auto_select returns sound routes, and finds one whenever one agent will do. *)
LEMMA AutoSelectFacts ==
  ASSUME NEW g, NEW qos
  PROVE  /\ AutoSelect(g, qos) \subseteq Offered(g, qos)
         /\ Alone(g, qos) # {} /\ CapableAgents(g, qos.min_trust) # {} =>
              AutoSelect(g, qos) # {}
  <1> DEFINE agents == CapableAgents(g, qos.min_trust)
             several == Cardinality(agents) >= 2
             when(condition, routes) == IF several /\ condition THEN routes ELSE {}
             tight == 2 * qos.max_cost < 3 * MedianCost(g, agents)
             a == when(tight, Cascade(g, agents, qos))
             b == when(tight, DraftRefine(g, agents, qos))
             c == when(qos.min_quality >= 9, Ensemble(g, agents, qos))
             d == when(qos.max_latency <= TightLatency, ParallelMerge(g, agents, qos))
             e == SingleAgent(g, agents, qos)
             attempts == <<a, b, c, d, e>>
  <1>1. AutoSelect(g, qos) = IF agents = {} THEN {} ELSE FirstFound(attempts)
    BY DEF AutoSelect
  <1>2. /\ a \subseteq Cascade(g, agents, qos) /\ b \subseteq DraftRefine(g, agents, qos)
        /\ c \subseteq Ensemble(g, agents, qos) /\ d \subseteq ParallelMerge(g, agents, qos)
        /\ e = Alone(g, qos)
    BY DEF Alone
  <1> HIDE DEF a, b, c, d, e
  <1>3. \A x \in {a, b, c, d, e} : x \subseteq Offered(g, qos)
    <2>1. \A x \in {a, b, c, d} : x \subseteq Patterns(g, qos)
      BY <1>2, PatternSets
    <2>2. QED
      BY <1>2, <2>1 DEF Offered
  <1>4. DOMAIN attempts \subseteq Nat /\ 5 \in DOMAIN attempts /\ attempts[5] = e
    OBVIOUS
  <1>5. \A n \in DOMAIN attempts : attempts[n] \in {a, b, c, d, e}
    OBVIOUS
  <1> HIDE DEF attempts, agents
  <1>6. FirstFound(attempts) \subseteq Offered(g, qos)
    BY <1>3, <1>4, <1>5, FirstFoundFacts
  <1>7. e # {} => FirstFound(attempts) # {}
    BY <1>4, FirstFoundFacts
  <1>8. QED
    BY <1>1, <1>2, <1>6, <1>7 DEF agents

Preferences == {{}} \cup {{p} : p \in Pattern}

(* find_route returns sound routes, and finds one whenever one agent will do. *)
LEMMA RoutesFoundFacts ==
  ASSUME NEW g, NEW qos, NEW preferred \in Preferences
  PROVE  /\ RoutesFound(g, qos, preferred) \subseteq Offered(g, qos)
         /\ Alone(g, qos) # {} /\ CapableAgents(g, qos.min_trust) # {} =>
              RoutesFound(g, qos, preferred) # {}
  <1> DEFINE first == UNION {TryPattern(g, p, qos) : p \in preferred}
             auto == IF first # {} THEN first ELSE AutoSelect(g, qos)
  <1>1. SelectTop(g, qos) \subseteq Base(g, qos)
    <2>1. \A chosen \in Cheapest(Base(g, qos), qos, 1) : chosen \subseteq Base(g, qos)
      BY DEF Cheapest, kSubset
    <2>2. QED
      BY <2>1, TopIsOfBase DEF SelectTop
  <1>2. \A p \in Pattern : TryPattern(g, p, qos) \subseteq Offered(g, qos)
    <2> SUFFICES ASSUME NEW p \in Pattern PROVE TryPattern(g, p, qos) \subseteq Offered(g, qos)
      OBVIOUS
    <2>1. CASE p = "Pipeline"
      BY <1>1, <2>1, PatternSets DEF Offered
    <2>2. CASE p # "Pipeline"
      BY <2>2 DEF Offered, Patterns
    <2>3. QED
      BY <2>1, <2>2
  <1>3. first \subseteq Offered(g, qos)
    BY <1>2 DEF Preferences
  <1>4. RoutesFound(g, qos, preferred) = IF auto # {} THEN auto ELSE SelectTop(g, qos)
    BY DEF RoutesFound
  <1> HIDE DEF first
  <1>5. QED
    BY <1>1, <1>3, <1>4, AutoSelectFacts DEF Offered

-----------------------------------------------------------------------------
(* The invariant                                                           *)

Node == [id : AgentId, profile : Profile, available : BOOLEAN]

DistinctIds(nodes) == \A i, j \in DOMAIN nodes : nodes[i].id = nodes[j].id => i = j

Edges(adjacency, nodes) ==
    /\ DOMAIN adjacency \subseteq (DOMAIN nodes) \X (DOMAIN nodes)
    /\ \A e \in DOMAIN adjacency : adjacency[e] \in Nat

GraphOK(g) ==
    /\ g = [nodes |-> g.nodes, adjacency |-> g.adjacency]
    /\ g.nodes \in Seq(Node) /\ DistinctIds(g.nodes)
    /\ Edges(g.adjacency, g.nodes)

\* An answer is a choice of what is offered, and empty only if no agent alone
\* would have done.
AnswerOK ==
    \/ answer = NoAnswer
    \/ /\ answer.asked = TRUE /\ answer.qos \in QoS
       /\ answer.routes \subseteq Offered(graph, answer.qos)
       /\ answer.routes = {} => Alone(graph, answer.qos) = {}

IInv == GraphOK(graph) /\ AnswerOK

(* In a reachable graph the capable agents are fit to be searched. *)
LEMMA GraphIsReady ==
  ASSUME NEW g, GraphOK(g), NEW t
  PROVE  Skilled(g, CapableAgents(g, t))
  <1> DEFINE agents == CapableAgents(g, t)
             k == Len(g.nodes)
  <1>1. k \in Nat /\ DOMAIN g.nodes = 1 .. k /\ \A i \in 1 .. k : g.nodes[i] \in Node
    BY DEF GraphOK
  <1>2. agents \in SUBSET (1 .. k) /\ \A i \in agents : Cap(g, i) # NoCapability
    BY <1>1 DEF CapableAgents
  <1> HIDE DEF agents, k
  <1>3. IsFiniteSet(1 .. k)
    BY <1>1, Interval
  <1>4. IsFiniteSet(agents) /\ agents \subseteq Nat
    <2>1. IsFiniteSet(agents)
      BY <1>2, <1>3, FS_Subset
    <2>2. QED
      BY <1>2, <2>1
  <1>5. \A i \in agents : Cap(g, i) \in Capability /\ TrustOf(g, i) \in Int
    <2> SUFFICES ASSUME NEW i \in agents PROVE Cap(g, i) \in Capability /\ TrustOf(g, i) \in Int
      OBVIOUS
    <2>1. g.nodes[i] \in Node
      BY <1>1, <1>2
    <2>2. g.nodes[i].profile \in Profile
      BY <2>1 DEF Node
    <2>3. g.nodes[i].profile.trust_score \in 0 .. 10
      BY <2>2, RoutingAssumption
    <2>4. g.nodes[i].profile.capability # NoCapability
      BY <1>2 DEF Cap
    <2>5. g.nodes[i].profile.capability \in Capability
      BY <2>2, <2>4, RoutingAssumption DEF Capability
    <2>6. QED
      BY <2>3, <2>5 DEF Cap, TrustOf
  <1>6. \A e \in DOMAIN g.adjacency : g.adjacency[e] \in Nat
    BY DEF GraphOK, Edges
  <1>7. \A i, j \in agents : Transfer(g, i, j) \in Nat
    BY <1>6, SearchAssumption DEF Transfer
  <1>8. QED
    BY <1>4, <1>5, <1>6, <1>7 DEF Skilled, agents

(* An empty graph, and nothing asked. *)
LEMMA InitOK ==
  ASSUME Init
  PROVE  IInv
  <1>1. graph.nodes = <<>> /\ graph.adjacency = <<>> /\ answer = NoAnswer
        /\ graph = [nodes |-> <<>>, adjacency |-> <<>>]
    BY DEF Init
  <1>2. <<>> \in Seq(Node) /\ DOMAIN <<>> = {}
    OBVIOUS
  <1>3. GraphOK(graph)
    BY <1>1, <1>2 DEF GraphOK, DistinctIds, Edges
  <1>4. QED
    BY <1>1, <1>3 DEF IInv, AnswerOK

\* Only requests are answered; otherwise the caller has its answer.
LEMMA Idle ==
  ASSUME IInv, ~answer.asked
  PROVE  answer = NoAnswer
  BY DEF IInv, AnswerOK

(* Nodes may be added or changed, if their ids stay distinct. *)
LEMMA NodesChange ==
  ASSUME GraphOK(graph), NEW nodes, nodes \in Seq(Node), DistinctIds(nodes),
         DOMAIN graph.nodes \subseteq DOMAIN nodes,
         graph' = [graph EXCEPT !.nodes = nodes]
  PROVE  GraphOK(graph')
  <1>1. graph' = [nodes |-> nodes, adjacency |-> graph.adjacency]
    BY DEF GraphOK
  <1>2. graph'.nodes = nodes /\ graph'.adjacency = graph.adjacency
    BY <1>1
  <1>3. Edges(graph.adjacency, nodes)
    <2>1. Edges(graph.adjacency, graph.nodes)
      BY DEF GraphOK
    <2>2. QED
      BY <2>1 DEF Edges
  <1>4. QED
    BY <1>1, <1>2, <1>3 DEF GraphOK

(* add_agent adds a node, or replaces the one of the same id. *)
LEMMA AddAgentStep ==
  ASSUME IInv, NEW id \in AgentId, NEW profile \in Profile, AddAgent(id, profile)
  PROVE  IInv'
  <1> DEFINE node == [id |-> id, profile |-> profile, available |-> TRUE]
             k == Len(graph.nodes)
             known == IndexOf(id)
  <1>1. answer' = NoAnswer
    BY Idle DEF AddAgent
  <1>2. GraphOK(graph) /\ graph.nodes \in Seq(Node) /\ DistinctIds(graph.nodes)
    BY DEF IInv, GraphOK
  <1>3. k \in Nat /\ DOMAIN graph.nodes = 1 .. k /\ \A i \in 1 .. k : graph.nodes[i] \in Node
    BY <1>2
  <1>4. node \in Node /\ node.id = id
    BY DEF Node
  <1>5. \A i \in 1 .. k : i \in known <=> graph.nodes[i].id = id
    BY <1>3 DEF IndexOf
  <1>6. GraphOK(graph')
    <2>1. CASE known = {}
      <3> DEFINE nodes == Append(graph.nodes, node)
      <3>1. graph' = [graph EXCEPT !.nodes = nodes]
        BY <2>1 DEF AddAgent
      <3> HIDE DEF node, known
      <3>2. /\ nodes \in Seq(Node) /\ DOMAIN nodes = 1 .. k + 1 /\ nodes[k + 1] = node
            /\ \A i \in 1 .. k : nodes[i] = graph.nodes[i]
        BY <1>2, <1>3, <1>4
      <3> HIDE DEF nodes
      <3>3. \A i \in 1 .. k : graph.nodes[i].id # id
        BY <1>5, <2>1
      <3>4. DistinctIds(nodes)
        <4> SUFFICES ASSUME NEW i \in 1 .. k + 1, NEW j \in 1 .. k + 1,
                            nodes[i].id = nodes[j].id
                     PROVE  i = j
          BY <3>2 DEF DistinctIds
        <4> HIDE DEF k
        <4>1. CASE i \in 1 .. k /\ j \in 1 .. k
          BY <1>2, <1>3, <3>2, <4>1 DEF DistinctIds
        <4>2. CASE i = k + 1 /\ j \in 1 .. k
          BY <1>4, <3>2, <3>3, <4>2
        <4>3. CASE i \in 1 .. k /\ j = k + 1
          BY <1>4, <3>2, <3>3, <4>3
        <4>4. QED
          BY <1>3, <4>1, <4>2, <4>3
      <3>5. DOMAIN graph.nodes \subseteq DOMAIN nodes
        BY <1>3, <3>2
      <3>6. QED
        BY <1>2, <3>1, <3>2, <3>4, <3>5, NodesChange
    <2>2. CASE known # {}
      <3> DEFINE nodes == [i \in DOMAIN graph.nodes |->
                             IF i \in known THEN node ELSE graph.nodes[i]]
      <3>1. graph' = [graph EXCEPT !.nodes = nodes]
        BY <2>2 DEF AddAgent
      <3> HIDE DEF node, known
      <3>2. nodes \in [1 .. k -> Node]
        BY <1>3, <1>4
      <3>3. nodes \in Seq(Node)
        BY <1>3, <3>2, LenOf
      <3>4. \A i \in 1 .. k : nodes[i].id = graph.nodes[i].id
        BY <1>3, <1>4, <1>5
      <3>5. DOMAIN nodes = DOMAIN graph.nodes
        OBVIOUS
      <3> HIDE DEF nodes
      <3>6. DistinctIds(nodes)
        BY <1>2, <1>3, <3>4, <3>5 DEF DistinctIds
      <3>7. QED
        BY <1>2, <3>1, <3>3, <3>5, <3>6, NodesChange
    <2>3. QED
      BY <2>1, <2>2
  <1>7. QED
    BY <1>1, <1>6 DEF IInv, AnswerOK

(* remove_agent and restore_agent mark a node and keep its edges. *)
LEMMA SetAvailableStep ==
  ASSUME IInv, NEW id, NEW available \in BOOLEAN, SetAvailable(id, available)
  PROVE  IInv'
  <1> DEFINE k == Len(graph.nodes)
             known == IndexOf(id)
             nodes == [i \in DOMAIN graph.nodes |->
                         IF i \in known THEN [graph.nodes[i] EXCEPT !.available = available]
                         ELSE graph.nodes[i]]
  <1>1. answer' = NoAnswer /\ graph' = [graph EXCEPT !.nodes = nodes]
    BY Idle DEF SetAvailable
  <1>2. GraphOK(graph) /\ graph.nodes \in Seq(Node) /\ DistinctIds(graph.nodes)
    BY DEF IInv, GraphOK
  <1>3. k \in Nat /\ DOMAIN graph.nodes = 1 .. k /\ \A i \in 1 .. k : graph.nodes[i] \in Node
    BY <1>2
  <1> HIDE DEF known
  <1>4. \A n \in Node : /\ [n EXCEPT !.available = available] \in Node
                        /\ [n EXCEPT !.available = available].id = n.id
    BY DEF Node
  <1>5. nodes \in [1 .. k -> Node]
    BY <1>3, <1>4
  <1>6. nodes \in Seq(Node)
    BY <1>3, <1>5, LenOf
  <1>7. \A i \in 1 .. k : nodes[i].id = graph.nodes[i].id
    BY <1>3, <1>4
  <1>8. DOMAIN nodes = DOMAIN graph.nodes
    OBVIOUS
  <1> HIDE DEF nodes
  <1>9. DistinctIds(nodes)
    BY <1>2, <1>3, <1>7, <1>8 DEF DistinctIds
  <1>10. GraphOK(graph')
    BY <1>1, <1>2, <1>6, <1>8, <1>9, NodesChange
  <1>11. QED
    BY <1>1, <1>10 DEF IInv, AnswerOK

(* connect and fully_connect add edges between nodes. *)
LEMMA AddEdgesStep ==
  ASSUME IInv, NEW edges, edges \subseteq (DOMAIN graph.nodes) \X (DOMAIN graph.nodes),
         NEW latency \in Latency, AddEdges(edges, latency)
  PROVE  IInv'
  <1> DEFINE old == graph.adjacency
             new == [e \in DOMAIN old \cup edges |-> IF e \in DOMAIN old THEN old[e] ELSE latency]
  <1>1. answer' = NoAnswer /\ graph' = [graph EXCEPT !.adjacency = new]
    BY Idle DEF AddEdges
  <1>2. GraphOK(graph) /\ Edges(old, graph.nodes) /\ latency \in Nat
    BY RoutingAssumption DEF IInv, GraphOK
  <1>3. Edges(new, graph.nodes)
    BY <1>2 DEF Edges
  <1> HIDE DEF new, old
  <1>4. graph' = [nodes |-> graph.nodes, adjacency |-> new]
    BY <1>1, <1>2 DEF GraphOK
  <1>5. graph'.nodes = graph.nodes /\ graph'.adjacency = new
    BY <1>4
  <1>6. GraphOK(graph')
    BY <1>2, <1>3, <1>4, <1>5 DEF GraphOK
  <1>7. QED
    BY <1>1, <1>6 DEF IInv, AnswerOK

\* Where an agent alone will do there are agents.
LEMMA AloneHasAgents ==
  ASSUME NEW g, GraphOK(g), NEW qos
  PROVE  Alone(g, qos) # {} => CapableAgents(g, qos.min_trust) # {}
  BY GraphIsReady, SingleAgentFacts DEF Alone

(* So every request meets a graph fit to be searched for it. *)
LEMMA RequestReady ==
  ASSUME NEW g, GraphOK(g), NEW qos \in QoS
  PROVE  Ready(g, qos)
  BY GraphIsReady DEF Ready

(* An answer taken from what is offered is in order. *)
LEMMA AnswerStep ==
  ASSUME IInv, NEW qos \in QoS, NEW routes, answer' = Answer(qos, routes),
         UNCHANGED graph, routes \subseteq Offered(graph, qos),
         routes = {} => Alone(graph, qos) = {}
  PROVE  IInv'
  <1>1. answer'.asked = TRUE /\ answer'.qos = qos /\ answer'.routes = routes
    BY DEF Answer
  <1>2. GraphOK(graph')
    BY DEF IInv
  <1>3. QED
    BY <1>1, <1>2 DEF IInv, AnswerOK

(* find_route answers with one such route, or none. *)
LEMMA FindRouteStep ==
  ASSUME IInv, NEW qos \in QoS, NEW preferred \in Preferences, FindRoute(qos, preferred)
  PROVE  IInv'
  <1> DEFINE found == RoutesFound(graph, qos, preferred)
  <1>1. PICK routes \in IF found = {} THEN {{}} ELSE {{r} : r \in found} :
          answer' = Answer(qos, routes)
    BY DEF FindRoute
  <1>2. /\ found \subseteq Offered(graph, qos)
        /\ Alone(graph, qos) # {} => found # {}
    BY RoutesFoundFacts, AloneHasAgents DEF IInv
  <1> HIDE DEF found
  <1>3. routes \subseteq Offered(graph, qos) /\ (routes = {} => Alone(graph, qos) = {})
    BY <1>1, <1>2
  <1>4. UNCHANGED graph
    BY DEF FindRoute
  <1>5. QED
    BY <1>1, <1>3, <1>4, AnswerStep

(* find_routes answers with a list of them. *)
LEMMA FindRoutesStep ==
  ASSUME IInv, NEW qos \in QoS, FindRoutes(qos)
  PROVE  IInv'
  <1>1. PICK routes \in RouteLists(graph, qos) : answer' = Answer(qos, routes)
    BY DEF FindRoutes
  <1>2. Ready(graph, qos)
    BY RequestReady DEF IInv
  <1>3. /\ routes \subseteq Offered(graph, qos)
        /\ \A r \in Offered(graph, qos) : \E o \in routes : Price(o, qos) <= Price(r, qos)
    BY <1>2, ListFacts
  <1>4. routes = {} => Alone(graph, qos) = {}
    BY <1>3 DEF Offered
  <1>5. UNCHANGED graph
    BY DEF FindRoutes
  <1>6. QED
    BY <1>1, <1>3, <1>4, <1>5, AnswerStep

(* Every step keeps the invariant. *)
LEMMA NextStep ==
  ASSUME IInv, [Next]_vars
  PROVE  IInv'
  <1>1. CASE UNCHANGED vars
    BY <1>1 DEF vars, IInv, AnswerOK
  <1>2. ASSUME NEW id \in AgentId, NEW profile \in Profile, AddAgent(id, profile)
        PROVE  IInv'
    BY <1>2, AddAgentStep
  <1>3. ASSUME NEW a \in AgentId, NEW b \in AgentId, NEW l \in Latency, Connect(a, b, l)
        PROVE  IInv'
    <2> DEFINE edges == (IndexOf(a) \X IndexOf(b)) \cup (IndexOf(b) \X IndexOf(a))
    <2>1. edges \subseteq (DOMAIN graph.nodes) \X (DOMAIN graph.nodes)
      BY DEF IndexOf
    <2>2. AddEdges(edges, l)
      BY <1>3 DEF Connect
    <2> HIDE DEF edges
    <2>3. QED
      BY <2>1, <2>2, AddEdgesStep
  <1>4. ASSUME NEW l \in Latency, FullyConnect(l)
        PROVE  IInv'
    <2> DEFINE edges == {e \in (DOMAIN graph.nodes) \X (DOMAIN graph.nodes) : e[1] # e[2]}
    <2>1. edges \subseteq (DOMAIN graph.nodes) \X (DOMAIN graph.nodes)
      OBVIOUS
    <2>2. AddEdges(edges, l)
      BY <1>4 DEF FullyConnect
    <2> HIDE DEF edges
    <2>3. QED
      BY <2>1, <2>2, AddEdgesStep
  <1>5. ASSUME NEW id \in AgentId, RemoveAgent(id) \/ RestoreAgent(id)
        PROVE  IInv'
    BY <1>5, SetAvailableStep DEF RemoveAgent, RestoreAgent
  <1>6. ASSUME NEW qos \in QoS, NEW preferred \in Preferences, FindRoute(qos, preferred)
        PROVE  IInv'
    BY <1>6, FindRouteStep
  <1>7. ASSUME NEW qos \in QoS, FindRoutes(qos)
        PROVE  IInv'
    BY <1>7, FindRoutesStep
  <1>8. CASE TakeAnswer
    BY <1>8 DEF TakeAnswer, IInv, AnswerOK
  <1>9. QED
    BY <1>1, <1>2, <1>3, <1>4, <1>5, <1>6, <1>7, <1>8 DEF Next, Preferences

-----------------------------------------------------------------------------
(* The properties                                                          *)

(* Sound routes, and agents of distinct ids. *)
LEMMA SoundFollows ==
  ASSUME IInv
  PROVE  RouteIsSound
  <1> SUFFICES ASSUME answer.asked, NEW r \in answer.routes
               PROVE  /\ Satisfies(r.metrics, answer.qos)
                      /\ IsInjective([n \in DOMAIN r.agents |-> graph.nodes[r.agents[n]].id])
                      /\ Range(r.agents) \subseteq Usable(answer.qos)
    BY DEF RouteIsSound
  <1> DEFINE qos == answer.qos
             agents == CapableAgents(graph, qos.min_trust)
  <1>1. GraphOK(graph) /\ qos \in QoS /\ r \in Offered(graph, qos)
    BY DEF IInv, AnswerOK, NoAnswer
  <1> HIDE DEF qos
  <1>2. Ready(graph, qos)
    BY <1>1, RequestReady
  <1>3. Sound(graph, agents, qos, r)
    BY <1>1, <1>2, OfferedFacts
  <1>4. agents = Usable(qos) /\ agents \subseteq DOMAIN graph.nodes
    BY DEF Usable, CapableAgents
  <1> HIDE DEF agents
  <1>5. Satisfies(r.metrics, qos) /\ Listing(r.agents, agents)
    BY <1>3 DEF Sound, Proper
  <1> DEFINE s == r.agents
  <1>6. PICK k \in Nat \ {0} : s \in [1 .. k -> agents] /\ IsInjective(s)
    BY <1>5 DEF Listing
  <1> HIDE DEF s
  <1>7. Range(s) \subseteq agents
    BY <1>6 DEF Range
  <1>8. IsInjective([n \in DOMAIN s |-> graph.nodes[s[n]].id])
    <2>1. \A i, j \in 1 .. k : s[i] = s[j] => i = j
      BY <1>6 DEF IsInjective
    <2>2. \A i \in 1 .. k : s[i] \in DOMAIN graph.nodes
      BY <1>4, <1>6
    <2>3. \A i, j \in 1 .. k : graph.nodes[s[i]].id = graph.nodes[s[j]].id => i = j
      BY <1>1, <2>1, <2>2 DEF GraphOK, DistinctIds
    <2>4. DOMAIN s = 1 .. k
      BY <1>6
    <2>5. QED
      BY <2>3, <2>4 DEF IsInjective
  <1>9. QED
    BY <1>4, <1>5, <1>7, <1>8 DEF s, qos

(* A path is no better than its first agent, which alone would have done. *)
LEMMA FinalFollows ==
  ASSUME IInv
  PROVE  FailureIsFinal
  <1> DEFINE qos == answer.qos
             agents == CapableAgents(graph, qos.min_trust)
  <1> SUFFICES ASSUME answer.asked, answer.routes = {},
                      NEW p \in SimplePaths(graph, Usable(qos)),
                      Satisfies(PathMetrics(graph, p), qos)
               PROVE  FALSE
    BY DEF FailureIsFinal
  <1>1. GraphOK(graph) /\ qos \in QoS /\ Alone(graph, qos) = {}
    BY DEF IInv, AnswerOK, NoAnswer
  <1>2. agents = Usable(qos)
    BY DEF Usable, CapableAgents
  <1> HIDE DEF qos
  <1>3. Skilled(graph, agents)
    BY <1>1, GraphIsReady
  <1> HIDE DEF agents
  <1>4. PICK n \in 1 .. Cardinality(agents) : p \in [1 .. n -> agents]
    BY <1>2 DEF SimplePaths
  <1>5. Cardinality(agents) \in Nat
    BY <1>3, FS_CardinalityType DEF Skilled
  <1>6. n \in Nat \ {0} /\ p[1] \in agents
    BY <1>4, <1>5
  <1> DEFINE m == PathMetrics(graph, p)
             one == PathMetrics(graph, <<p[1]>>)
  <1>7. m \in Metrics /\ AtLeastAsGood(one, m)
    <2>1. /\ m \in Metrics /\ m.quality <= one.quality /\ m.latency >= one.latency
          /\ m.cost >= one.cost
      BY <1>3, <1>4, <1>6, PathFacts
    <2>2. one \in Metrics
      <3>1. Listing(<<p[1]>>, agents)
        BY <1>6, OneListing
      <3>2. QED
        BY <1>3, <3>1, PathFacts DEF Listing
    <2> HIDE DEF m, one
    <2>3. /\ m.quality \in Int /\ m.latency \in Int /\ m.cost \in Int
          /\ one.quality \in Int /\ one.latency \in Int /\ one.cost \in Int
      BY <2>1, <2>2 DEF Metrics
    <2>4. QED
      BY <2>1, <2>3 DEF AtLeastAsGood
  <1>8. one \in Metrics
    <2>1. Listing(<<p[1]>>, agents)
      BY <1>6, OneListing
    <2>2. QED
      BY <1>3, <2>1, PathFacts DEF Listing
  <1>9. Satisfies(one, qos)
    <2>1. Satisfies(m, qos)
      OBVIOUS
    <2> HIDE DEF m, one
    <2>2. QED
      BY <1>1, <1>7, <1>8, <2>1, BetterSatisfies
  <1>10. SingleAgent(graph, agents, qos) # {}
    BY <1>3, <1>6, <1>9, SingleAgentFacts
  <1>11. QED
    BY <1>1, <1>10 DEF Alone, agents

(* The front has a feasible route if there is one. *)
LEMMA FrontFollows ==
  ASSUME IInv
  PROVE  FrontSuffices
  <1> SUFFICES ASSUME NEW qos \in QoS,
                      Feasible(Candidates(graph, CapableAgents(graph, qos.min_trust)), qos) # {}
               PROVE  Feasible(ParetoFront(Candidates(graph, CapableAgents(graph, qos.min_trust))), qos) # {}
    BY DEF FrontSuffices
  <1>1. Ready(graph, qos)
    BY RequestReady DEF IInv
  <1> DEFINE agents == CapableAgents(graph, qos.min_trust)
  <1>2. PICK r \in Candidates(graph, agents) : Satisfies(r.metrics, qos)
    BY DEF Feasible
  <1>3. QED
    BY <1>1, <1>2, BaseFacts

(* A list holds something as cheap as any answer. *)
LEMMA ListFollows ==
  ASSUME IInv
  PROVE  ListHoldsTheBest
  <1> DEFINE qos == answer.qos
  <1> SUFFICES ASSUME answer.asked, NEW list \in RouteLists(graph, qos)
               PROVE  /\ \A r \in answer.routes : \E o \in list : Price(o, qos) <= Price(r, qos)
                      /\ \A r, o \in list : r.agents = o.agents => r = o
    BY DEF ListHoldsTheBest
  <1>1. GraphOK(graph) /\ qos \in QoS /\ answer.routes \subseteq Offered(graph, qos)
    BY DEF IInv, AnswerOK, NoAnswer
  <1> HIDE DEF qos
  <1>2. Ready(graph, qos)
    BY <1>1, RequestReady
  <1>3. QED
    BY <1>1, <1>2, ListFacts

(* The graph is one Bellman-Ford is exact on. *)
LEMMA ExactFollows ==
  ASSUME IInv
  PROVE  BellmanFordIsExact
  BY GraphIsReady, Exact DEF IInv

(* In every reachable state the graph is well formed, with distinct ids and edges
   between its nodes, and an answer is a choice of the routes offered, empty only
   if no capable agent alone would have satisfied the request. *)
THEOREM Invariance == Spec => []IInv
  <1>1. Init => IInv
    BY InitOK
  <1>2. IInv /\ [Next]_vars => IInv'
    BY NextStep
  <1>3. QED
    BY <1>1, <1>2, PTL DEF Spec

(* find_route and find_routes return only routes that satisfy the constraints, through
   agents that are available, capable and trusted enough, none of them twice. *)
THEOREM SoundRoutes == Spec => []RouteIsSound
  <1>1. IInv => RouteIsSound
    BY SoundFollows
  <1>2. QED
    BY <1>1, Invariance, PTL

(* When routing fails, no simple path of any length through usable agents would have
   satisfied the constraints: the bounded search of bellman_ford gives up nothing. *)
THEOREM FinalFailures == Spec => []FailureIsFinal
  <1>1. IInv => FailureIsFinal
    BY FinalFollows
  <1>2. QED
    BY <1>1, Invariance, PTL

(* On every reachable graph the distances of bellman_ford_single are those of the
   shortest simple paths, and the paths it reads off the predecessors have that
   length, for any number of agents and any edge costs. *)
THEOREM ExactDistances == Spec => []BellmanFordIsExact
  <1>1. IInv => BellmanFordIsExact
    BY ExactFollows
  <1>2. QED
    BY <1>1, Invariance, PTL

(* Keeping only the Pareto front never loses the last feasible candidate: if some
   candidate satisfies the constraints, one on the front does. *)
THEOREM SufficientFront == Spec => []FrontSuffices
  <1>1. IInv => FrontSuffices
    BY FrontFollows
  <1>2. QED
    BY <1>1, Invariance, PTL

(* Deduplicating and truncating the list of find_routes never drops the best: any
   list it may return has no two routes through the same agents, and one as
   cheap as any route that a request is answered with. *)
THEOREM BestOfList == Spec => []ListHoldsTheBest
  <1>1. IInv => ListHoldsTheBest
    BY ListFollows
  <1>2. QED
    BY <1>1, Invariance, PTL
================================================================================
