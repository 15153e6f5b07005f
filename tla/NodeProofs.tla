------------------------------ MODULE NodeProofs ------------------------------
(* Theorems about Node, for every set of agents, profiles, constraints and *)
(* reports, and any number of inputs.                                      *)
EXTENDS Node, SumTheorems, SequenceTheorems

(* The shape of the state that the theorems rest on.                       *)
RegistryOK ==
  /\ registry = [t \in TaskType |-> registry[t]]
  /\ \A t \in TaskType : \A e \in registry[t] :
       e = [agent_id |-> e.agent_id, capability |-> e.capability,
            trust_score |-> e.trust_score]

ProfilesOK ==
  /\ \A a \in DOMAIN identities : identities[a] \in Profiles
  /\ \A a \in DOMAIN nodes : nodes[a].caps \in Profiles
  /\ complete \subseteq DOMAIN identities
  /\ \A p \in current : p = <<p[1], p[2]>> /\ p[2] \in TaskType

(* A suspended registration: its agent is not yet complete, and when only  *)
(* the links are missing the graph already has its capabilities.           *)
CallOK ==
  \/ call = NoCall
  \/ /\ call.pc \in {"file", "connect"}
     /\ call = [pc |-> call.pc, agent |-> call.agent, caps |-> call.caps]
     /\ call.caps \in Profiles
     /\ call.agent \notin complete
     /\ call.pc = "connect" =>
          call.agent \in DOMAIN nodes /\ nodes[call.agent].caps = call.caps
  \/ /\ call.pc \in {"record", "update"}
     /\ call = [pc |-> call.pc, agent |-> call.agent, task_type |-> call.task_type,
                quality |-> call.quality]
     /\ call.task_type \in TaskType

(* The inductive invariant.                                                *)
Shape == RegistryOK /\ ProfilesOK /\ CallOK
IInv == Shape /\ RoutedIsRegistered /\ LayersAgree /\ TrustIsCurrent

-----------------------------------------------------------------------------
(* A profile is a list, and its capabilities have known task types.        *)
LEMMA ProfileTypes ==
  ASSUME NEW p \in Profiles
  PROVE  /\ Len(p) \in Nat /\ DOMAIN p = 1..Len(p)
         /\ \A c \in Listed(p) : c.task_type \in TaskType /\ c \in Capability
         /\ \A i \in 1..Len(p) : p[i] \in Listed(p) /\ p[i].task_type \in TaskType
  <1>1. p \in Seq(Listed(p))
    BY NodeAssumption
  <1>2. Len(p) \in Nat /\ DOMAIN p = 1..Len(p)
    BY <1>1
  <1>3. Listed(p) \subseteq Capability
    BY DEF Capability
  <1>4. \A c \in Listed(p) : c.task_type \in TaskType
    BY <1>3, NodeAssumption
  <1>5. \A i \in 1..Len(p) : p[i] \in Listed(p)
    BY <1>2 DEF Listed
  <1>6. QED
    BY <1>2, <1>3, <1>4, <1>5

(* A list has a last capability of every type it names.                    *)
LEMMA LastOfType ==
  ASSUME NEW p \in Profiles, NEW i \in 1..Len(p)
  PROVE  \E j \in i..Len(p) :
           /\ p[j].task_type = p[i].task_type
           /\ \A k \in (j + 1)..Len(p) : p[k].task_type # p[j].task_type
  <1> DEFINE ty(k) == p[k].task_type
             n == Len(p)
             S == {n - k : k \in {m \in i..n : ty(m) = ty(i)}}
  <1>1. n \in Nat /\ i \in 1..n
    BY ProfileTypes
  <1> HIDE DEF ty, n
  <1>2. S \subseteq Nat /\ S # {}
    <2>1. n - i \in S
      BY <1>1
    <2>2. QED
      BY <1>1, <2>1
  <1>3. PICK s \in S : \A m \in S : s <= m
    BY <1>2, Least
  <1>4. PICK j \in i..n : ty(j) = ty(i) /\ s = n - j
    BY <1>3
  <1>5. ASSUME NEW k \in (j + 1)..n, ty(k) = ty(j) PROVE FALSE
    <2>1. n - k \in S
      BY <1>1, <1>4, <1>5
    <2>2. n - k < s
      BY <1>1, <1>4, <1>5
    <2>3. s \in Int /\ n - k \in Int
      BY <1>1, <1>4
    <2> HIDE DEF S
    <2>4. s <= n - k
      BY <1>3, <2>1
    <2>5. QED
      BY <2>2, <2>3, <2>4
  <1>6. \E l \in i..n : ty(l) = ty(i) /\ \A k \in (l + 1)..n : ty(k) # ty(l)
    BY <1>4, <1>5
  <1>7. QED
    BY <1>6 DEF ty, n

(* What Kept holds: at most one capability per type, of that type, and one *)
(* for each type the list names.                                           *)
LEMMA KeptFacts ==
  ASSUME NEW p \in Profiles, NEW t
  PROVE  /\ \A c \in Kept(p, t) : c \in Listed(p) /\ c.task_type = t
         /\ \A c, d \in Kept(p, t) : c = d
         /\ \A j \in 1..Len(p) :
              p[j].task_type = t /\ (\A k \in (j + 1)..Len(p) : p[k].task_type # t)
                => p[j] \in Kept(p, t)
         /\ Kept(p, t) = {} => \A c \in Listed(p) : c.task_type # t
  <1> DEFINE n == Len(p)
             ty(k) == p[k].task_type
             Last(j) == j \in 1..n /\ ty(j) = t /\ \A k \in 1..n : k > j => ty(k) # t
  <1>1. n \in Nat /\ DOMAIN p = 1..n
    BY ProfileTypes
  <1>2. \A c : c \in Kept(p, t) <=> \E j : Last(j) /\ c = p[j]
    BY <1>1 DEF Kept
  <1>3. \A c \in Kept(p, t) : c \in Listed(p) /\ c.task_type = t
    BY <1>1, <1>2 DEF Listed
  <1>4. \A c, d \in Kept(p, t) : c = d
    <2>1. ASSUME NEW j, NEW k, Last(j), Last(k) PROVE j = k
      <3> HIDE DEF n, ty
      <3>1. QED
        BY <1>1, <2>1
    <2>2. QED
      BY <1>2, <2>1
  <1>5. ASSUME NEW j \in 1..n, ty(j) = t, \A k \in (j + 1)..n : ty(k) # t
        PROVE  p[j] \in Kept(p, t)
    <2>1. Last(j)
      <3> HIDE DEF n, ty
      <3>1. QED
        BY <1>1, <1>5
    <2>2. QED
      BY <1>2, <2>1
  <1>6. ASSUME NEW c \in Listed(p), c.task_type = t PROVE Kept(p, t) # {}
    <2>1. PICK i \in 1..n : c = p[i]
      BY <1>1 DEF Listed
    <2>2. PICK j \in i..n : ty(j) = t /\ \A k \in (j + 1)..n : ty(k) # t
      BY <1>6, <2>1, LastOfType
    <2>3. j \in 1..n
      BY <1>1, <2>1, <2>2
    <2>4. QED
      BY <1>5, <2>2, <2>3
  <1>7. QED
    BY <1>3, <1>4, <1>5, <1>6

(* Negotiable, of a given registry.                                        *)
NegotiableIn(R, a, caps) ==
  \A i \in DOMAIN caps : \E j \in i..Len(caps) :
    /\ caps[j].task_type = caps[i].task_type
    /\ \A k \in (j + 1)..Len(caps) : caps[k].task_type # caps[j].task_type
    /\ \E e \in R[caps[j].task_type] : e.agent_id = a /\ e.capability = caps[j]

LEMMA RoutedIn ==
  /\ RoutedIsRegistered <=> \A a \in DOMAIN nodes : NegotiableIn(registry, a, nodes[a].caps)
  /\ RoutedIsRegistered' <=>
       \A a \in DOMAIN nodes' : NegotiableIn(registry', a, nodes'[a].caps)
  BY Zenon DEF RoutedIsRegistered, Negotiable, NegotiableIn, Offers

LEMMA LayersIn ==
  /\ LayersAgree <=>
       \A a \in complete :
         /\ a \in DOMAIN nodes /\ nodes[a].caps = identities[a]
         /\ NegotiableIn(registry, a, identities[a])
         /\ \A b \in complete \ {a} : <<a, b>> \in edges
  /\ LayersAgree' <=>
       \A a \in complete' :
         /\ a \in DOMAIN nodes' /\ nodes'[a].caps = identities'[a]
         /\ NegotiableIn(registry', a, identities'[a])
         /\ \A b \in complete' \ {a} : <<a, b>> \in edges'
  BY Zenon DEF LayersAgree, Negotiable, NegotiableIn, Offers

(* An agent that the registry has with the kept capability of every type   *)
(* its list names can be negotiated with for all of them.                  *)
LEMMA KeptNegotiable ==
  ASSUME NEW p \in Profiles, NEW R, NEW a,
         \A t \in TaskType : \A c \in Kept(p, t) :
           \E e \in R[t] : e.agent_id = a /\ e.capability = c
  PROVE  NegotiableIn(R, a, p)
  <1> SUFFICES ASSUME NEW i \in DOMAIN p
               PROVE  \E j \in i..Len(p) :
                        /\ p[j].task_type = p[i].task_type
                        /\ \A k \in (j + 1)..Len(p) : p[k].task_type # p[j].task_type
                        /\ \E e \in R[p[j].task_type] : e.agent_id = a /\ e.capability = p[j]
    BY DEF NegotiableIn
  <1>1. i \in 1..Len(p) /\ Len(p) \in Nat
    BY ProfileTypes
  <1>2. PICK j \in i..Len(p) :
               /\ p[j].task_type = p[i].task_type
               /\ \A k \in (j + 1)..Len(p) : p[k].task_type # p[j].task_type
    BY <1>1, LastOfType
  <1>3. j \in 1..Len(p)
    BY <1>1, <1>2
  <1>4. p[j].task_type \in TaskType
    BY <1>3, ProfileTypes
  <1>5. p[j] \in Kept(p, p[j].task_type)
    BY <1>2, <1>3, KeptFacts
  <1>6. QED
    BY <1>2, <1>4, <1>5

(* An agent stays negotiable while it keeps a capability of each type.     *)
LEMMA NegotiableStays ==
  ASSUME NEW b, NEW p \in Profiles, NEW R, NEW Q, NegotiableIn(R, b, p),
         \A t \in TaskType : \A e \in R[t] : e.agent_id = b =>
           \E f \in Q[t] : f.agent_id = b /\ f.capability = e.capability
  PROVE  NegotiableIn(Q, b, p)
  <1> SUFFICES ASSUME NEW i \in DOMAIN p
               PROVE  \E j \in i..Len(p) :
                        /\ p[j].task_type = p[i].task_type
                        /\ \A k \in (j + 1)..Len(p) : p[k].task_type # p[j].task_type
                        /\ \E e \in Q[p[j].task_type] : e.agent_id = b /\ e.capability = p[j]
    BY DEF NegotiableIn
  <1>1. i \in 1..Len(p) /\ Len(p) \in Nat
    BY ProfileTypes
  <1>2. PICK j \in i..Len(p) :
               /\ p[j].task_type = p[i].task_type
               /\ \A k \in (j + 1)..Len(p) : p[k].task_type # p[j].task_type
               /\ \E e \in R[p[j].task_type] : e.agent_id = b /\ e.capability = p[j]
    BY DEF NegotiableIn
  <1>3. j \in 1..Len(p)
    BY <1>1, <1>2
  <1>4. p[j].task_type \in TaskType
    BY <1>3, ProfileTypes
  <1>5. QED
    BY <1>2, <1>4

(* An agent's aggregate depends on the records about it only.              *)
LEMMA SameRecords ==
  ASSUME NEW R, NEW Q, NEW a, About(a, R) = About(a, Q)
  PROVE  AggregateTrust(a, R) = AggregateTrust(a, Q)
  BY DEF AggregateTrust

(* update_trust clamps a trust that is in range already.                   *)
LEMMA ClampedAlready ==
  ASSUME NEW a, NEW R
  PROVE  H!Clamp(AggregateTrust(a, R)) = AggregateTrust(a, R)
  <1> DEFINE x == Numerator(About(a, R)) \div Denominator(About(a, R))
  <1>1. AggregateTrust(a, R) \in {Prior, Percent(x)}
    BY DEF AggregateTrust
  <1> HIDE DEF x
  <1>2. H!Clamp(Prior) = Prior /\ H!Clamp(0) = 0 /\ H!Clamp(100) = 100
    BY DEF H!Clamp, H!Unit, Prior
  <1>3. H!Clamp(Percent(x)) = Percent(x)
    BY <1>2 DEF H!Clamp, H!Unit, Percent
  <1>4. QED
    BY <1>1, <1>2, <1>3

(* A record about another agent leaves an agent's records as they are.     *)
LEMMA OthersRecords ==
  ASSUME NEW a, NEW r, r.subject # a
  PROVE  About(a, WithRecord(r)) = About(a, records)
  BY DEF About, Selected, WithRecord

-----------------------------------------------------------------------------
(* A step that leaves registry, graph and trust alone, and takes nobody    *)
(* into `complete` or `current`.                                           *)
LEMMA LayersAlone ==
  ASSUME IInv, UNCHANGED <<registry, nodes, edges>>,
         complete' \subseteq complete, current' \subseteq current,
         \A a \in complete' : a \in DOMAIN identities' /\ identities'[a] = identities[a],
         \A p \in current' : About(p[1], records') = About(p[1], records)
  PROVE  RoutedIsRegistered' /\ LayersAgree' /\ TrustIsCurrent'
  <1>1. RoutedIsRegistered' /\ LayersAgree'
    BY RoutedIn, LayersIn DEF IInv
  <1>2. \A p \in current' : AggregateTrust(p[1], records') = AggregateTrust(p[1], records)
    BY SameRecords
  <1>3. TrustIsCurrent'
    BY <1>2 DEF IInv, TrustIsCurrent
  <1>4. QED
    BY <1>1, <1>3

(* An entry that register_agent files.                                     *)
NewEntry(a, c, trust) == [agent_id |-> a, capability |-> c, trust_score |-> trust]

(* What Registered leaves of an agent's entries: the new ones under the    *)
(* task types of the profile, and the others as they were.                 *)
LEMMA RegisteredEntries ==
  ASSUME NEW a, NEW caps \in Profiles, NEW trust,
         NEW R, R = Registered(a, caps, trust)
  PROVE  /\ R = [t \in TaskType |-> R[t]]
         /\ \A t \in TaskType : \A e \in R[t] :
              \/ e \in registry[t] /\ (e.agent_id = a => Kept(caps, t) = {})
              \/ \E c \in Kept(caps, t) : e = NewEntry(a, c, trust)
         /\ \A t \in TaskType : \A c \in Kept(caps, t) : NewEntry(a, c, trust) \in R[t]
         /\ \A t \in TaskType : \A e \in registry[t] : e.agent_id # a => e \in R[t]
  <1> DEFINE N(t) == {NewEntry(a, c, trust) : c \in Kept(caps, t)}
  <1>1. R = [t \in TaskType |->
               IF N(t) = {} THEN registry[t]
               ELSE {e \in registry[t] : e.agent_id # a} \cup N(t)]
    BY DEF Registered, H!Without, NewEntry
  <1>3. \A t : \A e : e \in N(t) <=> \E c \in Kept(caps, t) : e = NewEntry(a, c, trust)
    OBVIOUS
  <1> HIDE DEF N
  <1>4. R = [t \in TaskType |-> R[t]]
    BY <1>1
  <1>5. ASSUME NEW t \in TaskType
        PROVE  /\ \A e \in R[t] :
                    \/ e \in registry[t] /\ (e.agent_id = a => Kept(caps, t) = {})
                    \/ \E c \in Kept(caps, t) : e = NewEntry(a, c, trust)
               /\ \A e \in N(t) : e \in R[t]
               /\ \A e \in registry[t] : e.agent_id # a => e \in R[t]
    <2>1. CASE N(t) = {}
      <3>1. R[t] = registry[t]
        BY <1>1, <2>1
      <3>2. Kept(caps, t) = {}
        BY <1>3, <2>1
      <3>3. QED
        BY <2>1, <3>1, <3>2
    <2>2. CASE N(t) # {}
      <3>1. R[t] = {e \in registry[t] : e.agent_id # a} \cup N(t)
        BY <1>1, <2>2
      <3>2. QED
        BY <1>3, <3>1
    <2>3. QED
      BY <2>1, <2>2
  <1>6. \A t \in TaskType : \A c \in Kept(caps, t) : NewEntry(a, c, trust) \in R[t]
    BY <1>3, <1>5
  <1>7. QED
    BY <1>4, <1>5, <1>6

(* aggregate_trust, registry and graph of register_agent.                  *)
LEMMA FileStep ==
  ASSUME IInv, FileCapabilities
  PROVE  IInv'
  <1> DEFINE a == call.agent
             caps == call.caps
             trust == AggregateTrust(a, records)
             new(c) == NewEntry(a, c, trust)
  <1>1. /\ RegistryOK /\ ProfilesOK /\ RoutedIsRegistered /\ LayersAgree /\ TrustIsCurrent
        /\ call = [pc |-> "file", agent |-> a, caps |-> caps]
        /\ caps \in Profiles /\ a \notin complete
    BY DEF IInv, Shape, CallOK, FileCapabilities, NoCall
  <1>2. /\ registry' = Registered(a, caps, trust)
        /\ nodes' = [b \in DOMAIN nodes \cup {a} |->
                       IF b = a THEN [caps |-> caps, trust |-> trust] ELSE nodes[b]]
        /\ current' = current \cup {<<a, c.task_type>> : c \in Listed(caps)}
        /\ call' = [call EXCEPT !.pc = "connect"]
        /\ UNCHANGED <<identities, records, edges, complete>>
    BY DEF FileCapabilities, store
  <1>3. /\ registry' = [t \in TaskType |-> registry'[t]]
        /\ \A t \in TaskType : \A e \in registry'[t] :
             \/ e \in registry[t] /\ (e.agent_id = a => Kept(caps, t) = {})
             \/ \E c \in Kept(caps, t) : e = new(c)
        /\ \A t \in TaskType : \A c \in Kept(caps, t) : new(c) \in registry'[t]
        /\ \A t \in TaskType : \A e \in registry[t] : e.agent_id # a => e \in registry'[t]
    <2> HIDE DEF a, caps, trust
    <2>1. QED
      BY <1>1, <1>2, RegisteredEntries, SMTT(30)
  <1>4. \A c \in Listed(caps) : c.task_type \in TaskType
    BY <1>1, ProfileTypes
  <1>5. \A c : new(c).agent_id = a /\ new(c).capability = c /\ new(c).trust_score = trust
    BY DEF NewEntry
  <1>6. call' = [pc |-> "connect", agent |-> a, caps |-> caps]
    BY <1>1, <1>2
  <1> HIDE DEF a, caps, trust
  <1>7. RegistryOK'
    BY <1>1, <1>3 DEF RegistryOK, NewEntry
  <1>8. ProfilesOK'
    BY <1>1, <1>2, <1>4 DEF ProfilesOK
  <1>9. CallOK'
    BY <1>1, <1>2, <1>6 DEF CallOK
  <1>10. \A b \in DOMAIN nodes' : NegotiableIn(registry', b, nodes'[b].caps)
    <2>1. ASSUME NEW b \in DOMAIN nodes, b # a
          PROVE  NegotiableIn(registry', b, nodes[b].caps)
      <3>1. nodes[b].caps \in Profiles /\ NegotiableIn(registry, b, nodes[b].caps)
        BY <1>1, RoutedIn DEF ProfilesOK
      <3>2. \A t \in TaskType : \A e \in registry[t] : e.agent_id = b =>
              \E f \in registry'[t] : f.agent_id = b /\ f.capability = e.capability
        BY <1>3, <2>1
      <3>3. QED
        BY <3>1, <3>2, NegotiableStays
    <2>2. NegotiableIn(registry', a, caps)
      <3>1. \A t \in TaskType : \A c \in Kept(caps, t) :
              \E e \in registry'[t] : e.agent_id = a /\ e.capability = c
        BY <1>3, <1>5
      <3>2. QED
        BY <1>1, <3>1, KeptNegotiable
    <2>3. QED
      BY <1>2, <2>1, <2>2
  <1>11. RoutedIsRegistered' /\ LayersAgree'
    <2>1. ASSUME NEW b \in complete
          PROVE  /\ b \in DOMAIN nodes' /\ nodes'[b].caps = identities'[b]
                 /\ \A d \in complete \ {b} : <<b, d>> \in edges'
      BY <1>1, <1>2, LayersIn
    <2>2. \A b \in complete : NegotiableIn(registry', b, identities'[b])
      BY <1>10, <2>1
    <2>3. LayersAgree'
      BY <1>2, <2>1, <2>2, LayersIn
    <2>4. QED
      BY <1>10, <2>3, RoutedIn
  <1>12. TrustIsCurrent'
    <2>1. ASSUME NEW p \in current', NEW e \in registry'[p[2]], e.agent_id = p[1]
          PROVE  e.trust_score = AggregateTrust(p[1], records)
      <3>1. p = <<p[1], p[2]>> /\ p[2] \in TaskType
        BY <1>8, <2>1 DEF ProfilesOK
      <3>2. CASE \E c \in Kept(caps, p[2]) : e = new(c)
        BY <1>5, <2>1, <3>2 DEF trust
      <3>3. CASE e \in registry[p[2]] /\ (e.agent_id = a => Kept(caps, p[2]) = {})
        <4>1. e.agent_id = a => \A c \in Listed(caps) : c.task_type # p[2]
          BY <1>1, <3>3, KeptFacts
        <4>2. p \in current
          BY <1>2, <2>1, <3>1, <4>1
        <4>3. QED
          BY <1>1, <2>1, <3>3, <4>2 DEF TrustIsCurrent
      <3>4. QED
        BY <1>3, <2>1, <3>1, <3>2, <3>3
    <2>2. QED
      BY <1>2, <2>1 DEF TrustIsCurrent
  <1>13. QED
    BY <1>7, <1>8, <1>9, <1>11, <1>12 DEF IInv, Shape

(* list_agents and the links of register_agent.                            *)
LEMMA ConnectStep ==
  ASSUME IInv, ConnectAgent
  PROVE  IInv'
  <1> DEFINE a == call.agent
             others == (DOMAIN identities \ {a}) \cap DOMAIN nodes
  <1>1. /\ RegistryOK /\ ProfilesOK /\ RoutedIsRegistered /\ LayersAgree /\ TrustIsCurrent
        /\ a \in DOMAIN nodes /\ nodes[a].caps = call.caps
    BY DEF IInv, Shape, CallOK, ConnectAgent, NoCall
  <1>2. /\ edges' = edges \cup {<<a, b>> : b \in others} \cup {<<b, a>> : b \in others}
        /\ complete' = IF a \in DOMAIN identities /\ identities[a] = call.caps
                       THEN complete \cup {a} ELSE complete
        /\ call' = NoCall
        /\ UNCHANGED <<identities, records, registry, nodes, current>>
    BY DEF ConnectAgent, BothWays, store
  <1>3. Shape'
    BY <1>1, <1>2 DEF Shape, RegistryOK, ProfilesOK, CallOK, NoCall
  <1>4. RoutedIsRegistered' /\ TrustIsCurrent'
    BY <1>1, <1>2, RoutedIn DEF TrustIsCurrent
  <1>5. \A b \in complete' : /\ b \in DOMAIN nodes /\ b \in DOMAIN identities
                             /\ nodes[b].caps = identities[b]
    BY <1>1, <1>2 DEF LayersAgree, ProfilesOK
  <1>6. \A b \in complete' : NegotiableIn(registry, b, identities[b])
    BY <1>1, <1>5, RoutedIn
  <1>7. \A b \in complete' : \A d \in complete' \ {b} : <<b, d>> \in edges'
    <2>1. \A b \in complete' \ {a} : b \in others /\ b \in complete
      BY <1>2, <1>5
    <2>2. \A b \in others : <<a, b>> \in edges' /\ <<b, a>> \in edges'
      BY <1>2
    <2>3. \A b \in complete : \A d \in complete \ {b} : <<b, d>> \in edges'
      BY <1>1, <1>2 DEF LayersAgree
    <2> HIDE DEF a, others
    <2>4. QED
      BY <2>1, <2>2, <2>3
  <1>8. LayersAgree'
    BY <1>2, <1>5, <1>6, <1>7, LayersIn
  <1>9. QED
    BY <1>3, <1>4, <1>8 DEF IInv

(* The new trust of execute_task.                                          *)
LEMMA UpdateStep ==
  ASSUME IInv, UpdateTrust
  PROVE  IInv'
  <1> DEFINE a == call.agent
             t == call.task_type
             trust == AggregateTrust(a, records)
             upd(e) == IF e.agent_id = a THEN [e EXCEPT !.trust_score = trust] ELSE e
  <1>1. /\ RegistryOK /\ ProfilesOK /\ RoutedIsRegistered /\ LayersAgree /\ TrustIsCurrent
        /\ t \in TaskType
    BY DEF IInv, Shape, CallOK, UpdateTrust, NoCall
  <1>2. H!Clamp(trust) = trust
    BY ClampedAlready
  <1>3. /\ registry' = [registry EXCEPT ![t] = {upd(e) : e \in @}]
        /\ current' = current \cup {<<a, t>>}
        /\ call' = NoCall
        /\ UNCHANGED <<identities, records, nodes, edges, complete>>
    BY <1>2 DEF UpdateTrust, store, router
  <1>4. ASSUME NEW e \in registry[t]
        PROVE  /\ upd(e) = [agent_id |-> upd(e).agent_id, capability |-> upd(e).capability,
                            trust_score |-> upd(e).trust_score]
               /\ upd(e).agent_id = e.agent_id /\ upd(e).capability = e.capability
               /\ e.agent_id = a => upd(e).trust_score = trust
               /\ e.agent_id # a => upd(e) = e
    <2>1. e = [agent_id |-> e.agent_id, capability |-> e.capability,
               trust_score |-> e.trust_score]
      BY <1>1, <1>4 DEF RegistryOK
    <2>2. QED
      BY <2>1
  <1> HIDE DEF upd, a, t, trust
  <1>5. /\ registry'[t] = {upd(e) : e \in registry[t]}
        /\ \A u \in TaskType : u # t => registry'[u] = registry[u]
        /\ registry' = [u \in TaskType |-> registry'[u]]
    BY <1>1, <1>3 DEF RegistryOK
  <1>6. RegistryOK'
    BY <1>1, <1>4, <1>5 DEF RegistryOK
  <1>7. ProfilesOK' /\ CallOK'
    BY <1>1, <1>3 DEF ProfilesOK, CallOK
  <1>8. \A b : \A u \in TaskType : \A e \in registry[u] : e.agent_id = b =>
          \E f \in registry'[u] : f.agent_id = b /\ f.capability = e.capability
    BY <1>4, <1>5
  <1>9. \A b \in DOMAIN nodes : NegotiableIn(registry', b, nodes[b].caps)
    <2>1. ASSUME NEW b \in DOMAIN nodes PROVE NegotiableIn(registry', b, nodes[b].caps)
      <3>1. nodes[b].caps \in Profiles /\ NegotiableIn(registry, b, nodes[b].caps)
        BY <1>1, RoutedIn DEF ProfilesOK
      <3>2. QED
        BY <1>8, <3>1, NegotiableStays
    <2>2. QED
      BY <2>1
  <1>10. RoutedIsRegistered' /\ LayersAgree'
    <2>1. RoutedIsRegistered'
      BY <1>3, <1>9, RoutedIn
    <2>2. LayersAgree'
      BY <1>1, <1>3, <1>9, LayersIn
    <2>3. QED
      BY <2>1, <2>2
  <1>11. TrustIsCurrent'
    <2>1. ASSUME NEW p \in current', NEW e \in registry'[p[2]], e.agent_id = p[1]
          PROVE  e.trust_score = AggregateTrust(p[1], records)
      <3>1. p = <<p[1], p[2]>> /\ p[2] \in TaskType
        BY <1>7, <2>1 DEF ProfilesOK
      <3>2. CASE p[1] = a /\ p[2] = t
        BY <1>4, <1>5, <2>1, <3>2 DEF trust
      <3>3. CASE ~(p[1] = a /\ p[2] = t)
        <4>1. p \in current
          BY <1>3, <3>1, <3>3
        <4>2. e \in registry[p[2]]
          BY <1>4, <1>5, <2>1, <3>1, <3>3
        <4>3. QED
          BY <1>1, <2>1, <4>1, <4>2 DEF TrustIsCurrent
      <3>4. QED
        BY <3>2, <3>3
    <2>2. QED
      BY <1>3, <2>1 DEF TrustIsCurrent
  <1>12. QED
    BY <1>6, <1>7, <1>10, <1>11 DEF IInv, Shape

-----------------------------------------------------------------------------
(* Every other action leaves the registry and the graph alone.  First an   *)
(* identity is written.                                                    *)
LEMMA StoreSteps ==
  ASSUME IInv, NEW a, NEW caps \in Profiles, StoreRegister(a, caps) \/ RegisterIdentity(a, caps)
  PROVE  IInv'
  <1>1. /\ RegistryOK /\ ProfilesOK /\ CallOK
    BY DEF IInv, Shape
  <1>2. /\ identities' = WithIdentity(a, caps)
        /\ complete' = complete \ {a}
        /\ UNCHANGED <<records, registry, nodes, edges, current>>
        /\ \/ call' = call
           \/ call' = [pc |-> "file", agent |-> a, caps |-> caps]
    BY DEF StoreRegister, RegisterIdentity, router
  <1>3. /\ DOMAIN identities' = DOMAIN identities \cup {a}
        /\ \A b \in DOMAIN identities' : identities'[b] = IF b = a THEN caps ELSE identities[b]
    BY <1>2 DEF WithIdentity
  <1>4. ProfilesOK' /\ RegistryOK'
    BY <1>1, <1>2, <1>3 DEF ProfilesOK, RegistryOK
  <1>5. CallOK'
    BY <1>1, <1>2 DEF CallOK
  <1>6. RoutedIsRegistered' /\ LayersAgree' /\ TrustIsCurrent'
    <2>1. \A b \in complete' : b \in DOMAIN identities' /\ identities'[b] = identities[b]
      BY <1>1, <1>2, <1>3 DEF ProfilesOK
    <2>2. QED
      BY <1>2, <2>1, LayersAlone
  <1>7. QED
    BY <1>4, <1>5, <1>6 DEF IInv, Shape

(* An identity and its records are removed.                                *)
LEMMA RemoveStep ==
  ASSUME IInv, NEW a, StoreRemove(a)
  PROVE  IInv'
  <1>1. /\ RegistryOK /\ ProfilesOK /\ CallOK
    BY DEF IInv, Shape
  <1>2. /\ identities' = [b \in DOMAIN identities \ {a} |-> identities[b]]
        /\ records' = Selected(records, LAMBDA r : r.subject # a)
        /\ complete' = complete \ {a}
        /\ current' = {e \in current : e[1] # a}
        /\ UNCHANGED <<registry, nodes, edges, call>>
    BY DEF StoreRemove, Dated, router
  <1>3. Shape'
    BY <1>1, <1>2 DEF Shape, ProfilesOK, RegistryOK, CallOK, NoCall
  <1>4. \A b \in complete' : b \in DOMAIN identities' /\ identities'[b] = identities[b]
    BY <1>1, <1>2 DEF ProfilesOK
  <1>5. \A p \in current' : About(p[1], records') = About(p[1], records)
    BY <1>2 DEF About, Selected
  <1>6. RoutedIsRegistered' /\ LayersAgree' /\ TrustIsCurrent'
    BY <1>2, <1>4, <1>5, LayersAlone
  <1>7. QED
    BY <1>3, <1>6 DEF IInv

(* A record is added, by a suspended call or by a message.                 *)
LEMMA RecordStep ==
  ASSUME IInv, NEW r, AddInteraction(r), CallOK',
         UNCHANGED <<identities, registry, nodes, edges, complete>>
  PROVE  IInv'
  <1>1. /\ RegistryOK /\ ProfilesOK /\ CallOK
    BY DEF IInv, Shape
  <1>2. /\ records' = WithRecord(r)
        /\ current' = {e \in current : e[1] # r.subject}
    BY DEF AddInteraction, Dated
  <1>3. RegistryOK' /\ ProfilesOK'
    BY <1>1, <1>2 DEF ProfilesOK, RegistryOK
  <1>4. \A p \in current' : About(p[1], records') = About(p[1], records)
    BY <1>2, OthersRecords
  <1>5. \A b \in complete' : b \in DOMAIN identities' /\ identities'[b] = identities[b]
    BY <1>1 DEF ProfilesOK
  <1>6. RoutedIsRegistered' /\ LayersAgree' /\ TrustIsCurrent'
    BY <1>2, <1>4, <1>5, LayersAlone
  <1>7. QED
    BY <1>3, <1>6 DEF IInv, Shape

(* The store and the layers stay as they are, or only time passes.         *)
LEMMA QuietStep ==
  ASSUME IInv, CallOK', current' \subseteq current,
         current' = {} \/ records' = records,
         UNCHANGED <<identities, registry, nodes, edges, complete>>
  PROVE  IInv'
  <1>1. /\ RegistryOK /\ ProfilesOK /\ CallOK
    BY DEF IInv, Shape
  <1>2. RegistryOK' /\ ProfilesOK'
    BY <1>1 DEF ProfilesOK, RegistryOK
  <1>3. \A p \in current' : About(p[1], records') = About(p[1], records)
    OBVIOUS
  <1>4. \A b \in complete' : b \in DOMAIN identities' /\ identities'[b] = identities[b]
    BY <1>1 DEF ProfilesOK
  <1>5. RoutedIsRegistered' /\ LayersAgree' /\ TrustIsCurrent'
    BY <1>3, <1>4, LayersAlone
  <1>6. QED
    BY <1>2, <1>5 DEF IInv, Shape

(* Nothing is registered yet.                                              *)
LEMMA InvInit == Init => IInv
  <1> SUFFICES ASSUME Init PROVE IInv
    OBVIOUS
  <1>1. Shape
    BY DEF Init, Shape, RegistryOK, ProfilesOK, CallOK
  <1>2. RoutedIsRegistered /\ LayersAgree /\ TrustIsCurrent
    BY DEF Init, RoutedIsRegistered, LayersAgree, TrustIsCurrent
  <1>3. QED
    BY <1>1, <1>2 DEF IInv

(* Every call, message and use of the store preserves the invariant.       *)
LEMMA InvStep == IInv /\ [Next]_vars => IInv'
  <1> SUFFICES ASSUME IInv, [Next]_vars PROVE IInv'
    OBVIOUS
  <1>0. CallOK
    BY DEF IInv, Shape
  <1>1. ASSUME NEW a \in Peer, NEW caps \in Profiles, RegisterIdentity(a, caps) PROVE IInv'
    BY <1>1, StoreSteps
  <1>2. ASSUME NEW t \in TaskType, NEW e, ExecuteTask(t, e) PROVE IInv'
    <2>1. CallOK'
      BY <1>2 DEF CallOK, ExecuteTask
    <2>2. QED
      BY <1>2, <2>1, QuietStep DEF ExecuteTask, store, router
  <1>3. CASE FileCapabilities
    BY <1>3, FileStep
  <1>4. CASE ConnectAgent
    BY <1>4, ConnectStep
  <1>5. CASE RecordInteraction
    <2>1. CallOK'
      BY <1>0, <1>5 DEF CallOK, RecordInteraction, NoCall
    <2>2. QED
      BY <1>5, <2>1, RecordStep DEF RecordInteraction, router
  <1>6. CASE UpdateTrust
    BY <1>6, UpdateStep
  <1>7. CASE Cancel
    <2>1. CallOK'
      BY <1>7 DEF CallOK, Cancel
    <2>2. QED
      BY <1>7, <2>1, QuietStep DEF Cancel, store, router
  <1>8. ASSUME NEW a \in Peer, NEW q \in Reports, TaskResult(a, q) PROVE IInv'
    <2>1. CallOK'
      BY <1>0, <1>8 DEF CallOK, TaskResult, NoCall, router
    <2>2. QED
      BY <1>8, <2>1, QuietStep DEF TaskResult, store, router
  <1>9. ASSUME NEW r \in handling, TaskResultRecorded(r) PROVE IInv'
    <2>1. CallOK'
      BY <1>0, <1>9 DEF CallOK, TaskResultRecorded, NoCall, router
    <2>2. QED
      BY <1>9, <2>1, RecordStep DEF TaskResultRecorded, router
  <1>10. ASSUME NEW r \in handling, TaskResultDropped(r) PROVE IInv'
    <2>1. CallOK'
      BY <1>0, <1>10 DEF CallOK, TaskResultDropped, NoCall, router
    <2>2. QED
      BY <1>10, <2>1, QuietStep DEF TaskResultDropped, store, router
  <1>11. ASSUME NEW a \in Peer, NEW caps \in Profiles, StoreRegister(a, caps) PROVE IInv'
    BY <1>11, StoreSteps
  <1>12. ASSUME NEW a \in Peer, StoreRemove(a) PROVE IInv'
    BY <1>12, RemoveStep
  <1>13. ASSUME NEW v, NEW a, NEW t, NEW q, NEW age, InteractionProof(v, a, t, q, age) PROVE IInv'
    <2>1. CallOK'
      BY <1>0, <1>13 DEF CallOK, InteractionProof, NoCall, router
    <2>2. QED
      BY <1>13, <2>1, RecordStep DEF InteractionProof, router
  <1>14. CASE Day
    <2>1. CallOK'
      BY <1>0, <1>14 DEF CallOK, Day, NoCall, router
    <2>2. QED
      BY <1>14, <2>1, QuietStep DEF Day, router
  <1>15. CASE UNCHANGED vars
    <2>1. CallOK'
      BY <1>0, <1>15 DEF CallOK, vars, NoCall
    <2>2. QED
      BY <1>15, <2>1, QuietStep DEF vars
  <1>16. QED
    BY <1>1, <1>2, <1>3, <1>4, <1>5, <1>6, <1>7, <1>8, <1>9, <1>10, <1>11, <1>12,
       <1>13, <1>14, <1>15 DEF Next, CallStep, Message, StoreStep

(* The invariant holds in every state of a node.                           *)
THEOREM Invariance == Spec => []IInv
  BY InvInit, InvStep, PTL DEF Spec

(* An agent is never routed for a task type it cannot be contracted for,   *)
(* not even after a registration was dropped half way: register_agent      *)
(* writes the registry before the graph.  The contract is with the last    *)
(* capability its list names for the type, however many it names.          *)
THEOREM RoutesOnlyRegistered == Spec => []RoutedIsRegistered
  <1>1. IInv => RoutedIsRegistered
    BY DEF IInv
  <1>2. QED
    BY <1>1, Invariance, PTL

(* Of every agent whose registration has returned, the store and the graph *)
(* hold the same list and the registry its last capability of each type,   *)
(* and any two such agents are linked.                                     *)
THEOREM LayersStayInAgreement == Spec => []LayersAgree
  <1>1. IInv => LayersAgree
    BY DEF IInv
  <1>2. QED
    BY <1>1, Invariance, PTL

(* The trust that register_agent and execute_task filed is the aggregate   *)
(* over the agent's records, until another record or another day.          *)
THEOREM FiledTrustIsCurrent == Spec => []TrustIsCurrent
  <1>1. IInv => TrustIsCurrent
    BY DEF IInv
  <1>2. QED
    BY <1>1, Invariance, PTL

-----------------------------------------------------------------------------
(* The scores of layer 1, for any records the store may hold.              *)

(* Records as the store holds them: finitely many, each a number of times. *)
RecordsOK(R) == IsABag(R) /\ DOMAIN R \subseteq Records /\ IsFiniteSet(DOMAIN R)

LEMMA SelectionOK ==
  ASSUME NEW R, RecordsOK(R), NEW S \in SUBSET DOMAIN R
  PROVE  RecordsOK([r \in S |-> R[r]])
  <1>1. IsFiniteSet(S)
    BY FS_Subset DEF RecordsOK
  <1>2. QED
    BY <1>1 DEF RecordsOK, IsABag

LEMMA AboutOK ==
  ASSUME NEW R, RecordsOK(R), NEW a
  PROVE  RecordsOK(About(a, R))
  BY SelectionOK DEF About, Selected

(* What a voucher has reported.                                            *)
ReportedBy(R, v) == Selected(R, LAMBDA r : r.evaluator = v)

LEMMA ReportedByOK ==
  ASSUME NEW R, RecordsOK(R), NEW v
  PROVE  RecordsOK(ReportedBy(R, v))
  BY SelectionOK DEF ReportedBy, Selected

LEMMA WeightNat ==
  ASSUME NEW r \in Records
  PROVE  Weight(r) \in Nat /\ r.quality \in Int
  <1>1. r.age \in -1..MaxAge /\ r.task_type \in DOMAIN ComplexityWeight /\ r.quality \in Int
    BY NodeAssumption DEF Records
  <1>2. MaxAge = Len(Decay) - 1 /\ Decay \in Seq(Nat) /\ Len(Decay) \in Nat /\ Len(Decay) > 0
    BY TrustAssumption DEF MaxAge
  <1>3. DaysSince(r) + 1 \in 1..Len(Decay)
    BY <1>1, <1>2 DEF DaysSince
  <1>4. Decay[DaysSince(r) + 1] \in Nat
    BY <1>2, <1>3
  <1>5. ComplexityWeight[r.task_type] \in Nat
    BY <1>1 DEF ComplexityWeight
  <1>6. QED
    BY <1>1, <1>4, <1>5 DEF Weight

(* What the sums of weighted_average add up.                               *)
Top(R) == [r \in DOMAIN R |-> R[r] * (r.quality * Weight(r))]
Bottom(R) == [r \in DOMAIN R |-> R[r] * Weight(r)]

LEMMA SumsOf ==
  ASSUME NEW R
  PROVE  /\ Numerator(R) = SumFunctionOnSet(Top(R), DOMAIN R)
         /\ Denominator(R) = SumFunctionOnSet(Bottom(R), DOMAIN R)
         /\ Count(R) = SumFunctionOnSet(R, DOMAIN R)
  BY DEF Numerator, Denominator, SumOver, SumFunction, Top, Bottom, Count

LEMMA TermFacts ==
  ASSUME NEW R, RecordsOK(R), NEW r \in DOMAIN R
  PROVE  /\ R[r] \in Nat /\ R[r] > 0
         /\ Top(R)[r] \in Int /\ Bottom(R)[r] \in Nat
         /\ Bottom(R)[r] = 0 => Top(R)[r] = 0
  <1>1. R[r] \in Nat /\ R[r] > 0
    BY DEF RecordsOK, IsABag
  <1>2. Weight(r) \in Nat /\ r.quality \in Int
    BY WeightNat DEF RecordsOK
  <1>3. Top(R)[r] = R[r] * (r.quality * Weight(r)) /\ Bottom(R)[r] = R[r] * Weight(r)
    BY DEF Top, Bottom
  <1>4. Top(R)[r] \in Int /\ Bottom(R)[r] \in Nat
    BY <1>1, <1>2, <1>3
  <1>5. ASSUME Bottom(R)[r] = 0 PROVE Top(R)[r] = 0
    <2>1. Weight(r) = 0
      BY <1>1, <1>2, <1>3, <1>5
    <2>2. QED
      BY <1>1, <1>2, <1>3, <2>1
  <1>6. QED
    BY <1>1, <1>4, <1>5

LEMMA SumFacts ==
  ASSUME NEW R, RecordsOK(R)
  PROVE  /\ Numerator(R) \in Int /\ Denominator(R) \in Nat /\ Count(R) \in Nat
         /\ Denominator(R) = 0 => Numerator(R) = 0
         /\ DOMAIN R # {} => Count(R) > 0
         /\ DOMAIN R = {} => Denominator(R) = 0
  <1>1. IsFiniteSet(DOMAIN R)
    BY DEF RecordsOK
  <1>2. IntOn(Top(R), DOMAIN R) /\ NatOn(Bottom(R), DOMAIN R) /\ NatOn(R, DOMAIN R)
    BY TermFacts DEF IntOn, NatOn
  <1>3. Numerator(R) \in Int
    BY <1>1, <1>2, SumsOf, SumType
  <1>4. /\ Denominator(R) \in Nat
        /\ \A r \in DOMAIN R : Bottom(R)[r] <= Denominator(R)
    BY <1>1, <1>2, SumsOf, SumNat
  <1>5. Count(R) \in Nat /\ \A r \in DOMAIN R : R[r] <= Count(R)
    BY <1>1, <1>2, SumsOf, SumNat
  <1>6. ASSUME Denominator(R) = 0 PROVE Numerator(R) = 0
    <2>1. \A r \in DOMAIN R : Bottom(R)[r] = 0
      BY <1>2, <1>4, <1>6 DEF NatOn
    <2>2. \A r \in DOMAIN R : Top(R)[r] = 0
      BY <2>1, TermFacts
    <2>3. QED
      BY <1>1, <2>2, SumsOf, SumZero
  <1>7. ASSUME DOMAIN R # {} PROVE Count(R) > 0
    <2>1. PICK r \in DOMAIN R : TRUE
      BY <1>7
    <2>2. R[r] \in Nat /\ R[r] > 0 /\ R[r] <= Count(R)
      BY <1>5, TermFacts
    <2>3. QED
      BY <1>5, <2>2
  <1>8. ASSUME DOMAIN R = {} PROVE Denominator(R) = 0
    BY <1>8, SumsOf, SumEmpty
  <1>9. QED
    BY <1>3, <1>4, <1>5, <1>6, <1>7, <1>8

LEMMA PercentFacts ==
  /\ \A x \in Int : Percent(x) \in 0..100 /\ Percent(x) <= 100
  /\ \A x, y \in Int : x <= y => Percent(x) <= Percent(y)
  /\ \A x \in 0..100 : Percent(x) = x
  BY DEF Percent

(* An agent's trust is a share, whatever qualities were reported.          *)
LEMMA AggregateIsShare ==
  ASSUME NEW R, RecordsOK(R), NEW a
  PROVE  AggregateTrust(a, R) \in 0..100
  <1> DEFINE N == Numerator(About(a, R))
             D == Denominator(About(a, R))
  <1>1. N \in Int /\ D \in Nat
    BY AboutOK, SumFacts
  <1>2. AggregateTrust(a, R) = IF D = 0 THEN Prior ELSE Percent(N \div D)
    BY DEF AggregateTrust
  <1> HIDE DEF N, D
  <1>3. CASE D = 0
    BY <1>2, <1>3 DEF Prior
  <1>4. CASE D # 0
    <2>1. N \div D \in Int
      BY <1>1, <1>4
    <2>2. QED
      BY <1>2, <1>4, <2>1, PercentFacts
  <1>5. QED
    BY <1>3, <1>4

Types == {"CodeGeneration", "Analysis", "CreativeWriting", "DataProcessing"}

(* The records of a task type.                                             *)
Part(R, t) == {r \in DOMAIN R : r.task_type = t}

LEMMA SumByType ==
  ASSUME NEW f, NEW R, RecordsOK(R), IntOn(f, DOMAIN R)
  PROVE  /\ \A t : SumFunctionOnSet(f, Part(R, t)) \in Int
         /\ SumFunctionOnSet(f, DOMAIN R)
              = SumFunctionOnSet(f, Part(R, "CodeGeneration"))
                + (SumFunctionOnSet(f, Part(R, "Analysis"))
                + (SumFunctionOnSet(f, Part(R, "CreativeWriting"))
                + SumFunctionOnSet(f, Part(R, "DataProcessing"))))
  <1> DEFINE A == Part(R, "CodeGeneration")
             B == Part(R, "Analysis")
             C == Part(R, "CreativeWriting")
             D == Part(R, "DataProcessing")
  <1>1. IsFiniteSet(DOMAIN R)
    BY DEF RecordsOK
  <1>2. \A r \in DOMAIN R : r.task_type \in Types
    BY NodeAssumption DEF RecordsOK, Records, Types, ComplexityWeight
  <1>3. /\ DOMAIN R = A \cup (B \cup (C \cup D))
        /\ A \cap (B \cup (C \cup D)) = {} /\ B \cap (C \cup D) = {} /\ C \cap D = {}
    BY <1>2 DEF Part, Types
  <1>4. \A t : IsFiniteSet(Part(R, t)) /\ IntOn(f, Part(R, t))
    BY <1>1, FS_Subset DEF Part, IntOn
  <1>5. \A t : SumFunctionOnSet(f, Part(R, t)) \in Int
    BY <1>4, SumType
  <1>6. IsFiniteSet(A) /\ IsFiniteSet(B) /\ IsFiniteSet(C) /\ IsFiniteSet(D)
    BY <1>4
  <1> HIDE DEF A, B, C, D
  <1>7. IsFiniteSet(C \cup D) /\ IsFiniteSet(B \cup (C \cup D))
    BY <1>6, FS_Union
  <1>8. IntOn(f, C \cup D) /\ IntOn(f, B \cup (C \cup D)) /\ IntOn(f, A \cup (B \cup (C \cup D)))
    BY <1>3 DEF IntOn
  <1>9. /\ SumFunctionOnSet(f, C \cup D) = SumFunctionOnSet(f, C) + SumFunctionOnSet(f, D)
        /\ SumFunctionOnSet(f, B \cup (C \cup D))
             = SumFunctionOnSet(f, B) + SumFunctionOnSet(f, C \cup D)
        /\ SumFunctionOnSet(f, A \cup (B \cup (C \cup D)))
             = SumFunctionOnSet(f, A) + SumFunctionOnSet(f, B \cup (C \cup D))
    BY <1>3, <1>6, <1>7, <1>8, SumSplit
  <1>10. SumFunctionOnSet(f, DOMAIN R)
           = SumFunctionOnSet(f, A) + (SumFunctionOnSet(f, B)
               + (SumFunctionOnSet(f, C) + SumFunctionOnSet(f, D)))
    BY <1>3, <1>9
  <1>11. QED
    BY <1>5, <1>10 DEF A, B, C, D

OfType(R, t) == Selected(R, LAMBDA r : r.task_type = t)

LEMMA OfTypeSums ==
  ASSUME NEW R, RecordsOK(R), NEW t
  PROVE  /\ RecordsOK(OfType(R, t))
         /\ Numerator(OfType(R, t)) = SumFunctionOnSet(Top(R), Part(R, t))
         /\ Denominator(OfType(R, t)) = SumFunctionOnSet(Bottom(R), Part(R, t))
  <1> DEFINE Q == OfType(R, t)
  <1>1. RecordsOK(Q)
    BY SelectionOK DEF OfType, Selected
  <1>2. DOMAIN Q = Part(R, t) /\ \A r \in DOMAIN Q : r \in DOMAIN R /\ Q[r] = R[r]
    BY DEF OfType, Selected, Part
  <1> HIDE DEF Q
  <1>3. IsFiniteSet(DOMAIN Q)
    BY <1>1 DEF RecordsOK
  <1>4. \A r \in DOMAIN Q : Top(Q)[r] = Top(R)[r] /\ Bottom(Q)[r] = Bottom(R)[r]
    BY <1>2 DEF Top, Bottom
  <1>5. /\ Numerator(Q) = SumFunctionOnSet(Top(R), DOMAIN Q)
        /\ Denominator(Q) = SumFunctionOnSet(Bottom(R), DOMAIN Q)
    BY <1>3, <1>4, SumsOf, SumSame
  <1>6. QED
    BY <1>1, <1>2, <1>5 DEF Q

(* A quotient rounded down is at least m when the numerator is m times the *)
(* denominator.                                                            *)
LEMMA QuotientAtLeast ==
  ASSUME NEW n \in Int, NEW d \in Nat, d > 0, NEW m \in Int
  PROVE  n \div d \in Int /\ (m <= n \div d <=> m * d <= n)
  <1> DEFINE q == n \div d
  <1>1. q \in Int /\ q * d <= n /\ n < q * d + d
    OBVIOUS
  <1> HIDE DEF q
  <1>2. ASSUME m <= q PROVE m * d <= n
    <2>1. m * d <= q * d
      BY <1>1, <1>2
    <2>2. QED
      BY <1>1, <2>1
  <1>3. ASSUME ~(m <= q) PROVE ~(m * d <= n)
    <2>1. q + 1 <= m
      BY <1>1, <1>3
    <2>2. (q + 1) * d <= m * d
      BY <1>1, <2>1
    <2>3. (q + 1) * d = q * d + d
      BY <1>1
    <2>4. q * d \in Int /\ m * d \in Int
      BY <1>1
    <2>5. QED
      BY <1>1, <2>2, <2>3, <2>4
  <1>4. QED
    BY <1>1, <1>2, <1>3 DEF q

LEMMA FourTimes ==
  ASSUME NEW k \in Int, NEW x \in Int, NEW y \in Int, NEW z \in Int, NEW w \in Int
  PROVE  k * (x + (y + (z + w))) = k * x + (k * y + (k * z + k * w))
  OBVIOUS

(* The mean over all records lies between the means by task type.          *)
LEMMA BetweenParts ==
  ASSUME NEW R, RecordsOK(R), Denominator(R) # 0, NEW m \in 0..100, NEW M \in 0..100,
         \A t \in Types : Denominator(OfType(R, t)) # 0 =>
           /\ m <= Percent(Numerator(OfType(R, t)) \div Denominator(OfType(R, t)))
           /\ Percent(Numerator(OfType(R, t)) \div Denominator(OfType(R, t))) <= M
  PROVE  /\ m <= Percent(Numerator(R) \div Denominator(R))
         /\ Percent(Numerator(R) \div Denominator(R)) <= M
  <1> DEFINE N(t) == Numerator(OfType(R, t))
             D(t) == Denominator(OfType(R, t))
             n == Numerator(R)
             d == Denominator(R)
  <1>1. n \in Int /\ d \in Nat /\ d > 0
    BY SumFacts
  <1>2. \A t \in Types : N(t) \in Int /\ D(t) \in Nat /\ (D(t) = 0 => N(t) = 0)
    BY OfTypeSums, SumFacts
  <1>3. /\ n = N("CodeGeneration") + (N("Analysis") + (N("CreativeWriting") + N("DataProcessing")))
        /\ d = D("CodeGeneration") + (D("Analysis") + (D("CreativeWriting") + D("DataProcessing")))
    <2>1. IntOn(Top(R), DOMAIN R) /\ IntOn(Bottom(R), DOMAIN R)
      BY TermFacts DEF IntOn
    <2>2. /\ \A t : N(t) = SumFunctionOnSet(Top(R), Part(R, t))
          /\ \A t : D(t) = SumFunctionOnSet(Bottom(R), Part(R, t))
      BY OfTypeSums
    <2>3. n = SumFunctionOnSet(Top(R), DOMAIN R) /\ d = SumFunctionOnSet(Bottom(R), DOMAIN R)
      BY SumsOf
    <2> HIDE DEF N, D, n, d
    <2>4. QED
      BY <2>1, <2>2, <2>3, SumByType
  <1>4. \A t \in Types : D(t) # 0 => m <= Percent(N(t) \div D(t)) /\ Percent(N(t) \div D(t)) <= M
    OBVIOUS
  <1> HIDE DEF N, D, n, d
  <1>5. n \div d \in Int
    BY <1>1, QuotientAtLeast
  <1>6. m <= Percent(n \div d)
    <2>1. CASE m = 0
      BY <1>5, <2>1, PercentFacts
    <2>2. CASE m # 0
      <3>1. ASSUME NEW t \in Types PROVE m * D(t) <= N(t) /\ m * D(t) \in Int
        <4>1. CASE D(t) = 0
          BY <1>2, <4>1
        <4>2. CASE D(t) # 0
          <5>1. N(t) \in Int /\ D(t) \in Nat /\ D(t) > 0
            BY <1>2, <4>2
          <5>2. N(t) \div D(t) \in Int
            BY <5>1, QuotientAtLeast
          <5>3. m <= N(t) \div D(t)
            <6>1. m <= Percent(N(t) \div D(t))
              BY <1>4, <4>2
            <6>2. QED
              BY <2>2, <5>2, <6>1 DEF Percent
          <5>4. QED
            BY <5>1, <5>3, QuotientAtLeast
        <4>3. QED
          BY <4>1, <4>2
      <3>2. m * d = m * D("CodeGeneration") + (m * D("Analysis")
                      + (m * D("CreativeWriting") + m * D("DataProcessing")))
        <4>1. \A t \in Types : D(t) \in Int
          BY <1>2
        <4>2. \A x, y, z, w \in Int : m * (x + (y + (z + w))) = m * x + (m * y + (m * z + m * w))
          OBVIOUS
        <4>3. QED
          BY <1>3, <4>1, <4>2 DEF Types
      <3>3. m * d <= n
        BY <1>2, <1>3, <3>1, <3>2 DEF Types
      <3>4. m <= n \div d
        BY <1>1, <3>3, QuotientAtLeast
      <3>5. QED
        BY <1>5, <3>4, PercentFacts DEF Percent
    <2>3. QED
      BY <2>1, <2>2
  <1>7. Percent(n \div d) <= M
    <2>1. CASE M = 100
      BY <1>5, <2>1, PercentFacts
    <2>2. CASE M # 100
      <3> DEFINE k == M + 1
      <3>1. ASSUME NEW t \in Types
            PROVE  k * D(t) \in Int /\ N(t) <= k * D(t) /\ (D(t) # 0 => N(t) < k * D(t))
        <4>1. CASE D(t) = 0
          BY <1>2, <4>1
        <4>2. CASE D(t) # 0
          <5>1. N(t) \in Int /\ D(t) \in Nat /\ D(t) > 0
            BY <1>2, <4>2
          <5>2. N(t) \div D(t) \in Int
            BY <5>1, QuotientAtLeast
          <5>3. ~(k <= N(t) \div D(t))
            <6>1. Percent(N(t) \div D(t)) <= M
              BY <1>4, <4>2
            <6>2. QED
              BY <2>2, <5>2, <6>1 DEF Percent
          <5>4. ~(k * D(t) <= N(t))
            BY <5>1, <5>3, QuotientAtLeast
          <5>5. k * D(t) \in Int
            BY <5>1
          <5> HIDE DEF k
          <5>6. QED
            BY <5>1, <5>4, <5>5
        <4>3. QED
          BY <4>1, <4>2
      <3>2. k \in Int
        OBVIOUS
      <3> HIDE DEF k
      <3>3. k * d = k * D("CodeGeneration") + (k * D("Analysis")
                      + (k * D("CreativeWriting") + k * D("DataProcessing")))
        <4>1. \A t \in Types : D(t) \in Int
          BY <1>2
        <4>2. /\ D("CodeGeneration") \in Int /\ D("Analysis") \in Int
              /\ D("CreativeWriting") \in Int /\ D("DataProcessing") \in Int
          BY <4>1 DEF Types
        <4>3. k * (D("CodeGeneration") + (D("Analysis")
                     + (D("CreativeWriting") + D("DataProcessing"))))
                = k * D("CodeGeneration") + (k * D("Analysis")
                    + (k * D("CreativeWriting") + k * D("DataProcessing")))
          BY <3>2, <4>2, FourTimes
        <4>4. QED
          BY <1>3, <4>3, Zenon
      <3>4. n < k * d
        <4>1. \/ D("CodeGeneration") # 0 \/ D("Analysis") # 0
              \/ D("CreativeWriting") # 0 \/ D("DataProcessing") # 0
          BY <1>1, <1>3
        <4>2. \A n1, n2, n3, n4, d1, d2, d3, d4 \in Int :
                /\ n1 <= d1 /\ n2 <= d2 /\ n3 <= d3 /\ n4 <= d4
                /\ n1 < d1 \/ n2 < d2 \/ n3 < d3 \/ n4 < d4
                => n1 + (n2 + (n3 + n4)) < d1 + (d2 + (d3 + d4))
          OBVIOUS
        <4>3. \A t \in Types : /\ N(t) \in Int /\ k * D(t) \in Int
                              /\ N(t) <= k * D(t) /\ (D(t) # 0 => N(t) < k * D(t))
          BY <1>2, <3>1
        <4>4. {"CodeGeneration", "Analysis", "CreativeWriting", "DataProcessing"} = Types
          BY DEF Types
        <4>5. QED
          BY <1>3, <3>3, <4>1, <4>2, <4>3, <4>4
      <3>5. ~(k * d <= n)
        <4>1. k * d \in Int
          BY <1>1, <3>2
        <4>2. QED
          BY <1>1, <3>4, <4>1
      <3>6. ~(k <= n \div d)
        BY <1>1, <3>2, <3>5, QuotientAtLeast
      <3>7. QED
        BY <1>5, <3>6, PercentFacts DEF Percent, k
    <2>3. QED
      BY <2>1, <2>2
  <1>8. QED
    BY <1>6, <1>7 DEF n, d

LEMMA MinMaxFacts ==
  ASSUME NEW S, S \subseteq 0..100, S # {}
  PROVE  /\ Min(S) \in S /\ \A x \in S : Min(S) <= x
         /\ Max(S) \in S /\ \A x \in S : x <= Max(S)
  <1>1. \E x \in S : \A y \in S : x <= y
    <2>1. S \subseteq Nat
      OBVIOUS
    <2>2. QED
      BY <2>1, Least
  <1>2. \E x \in S : \A y \in S : y <= x
    <2> DEFINE T == {100 - x : x \in S}
    <2>1. T \subseteq Nat /\ T # {}
      <3>1. \A x \in S : 100 - x \in Nat
        OBVIOUS
      <3>2. QED
        BY <3>1
    <2>2. PICK z \in T : \A w \in T : z <= w
      BY <2>1, Least
    <2>3. PICK x \in S : z = 100 - x
      OBVIOUS
    <2>4. ASSUME NEW y \in S PROVE y <= x
      <3>1. 100 - x <= 100 - y
        BY <2>2, <2>3
      <3>2. QED
        BY <3>1
    <2>5. QED
      BY <2>4
  <1>3. QED
    BY <1>1, <1>2 DEF Min, Max

(* compute_aggregate_trust and weighted_average agree.                     *)
LEMMA AggregateIsWithin ==
  ASSUME RecordsOK(records)
  PROVE  AggregateWithinScores
  <1> SUFFICES ASSUME NEW a \in Agent
               PROVE  LET all    == AggregateTrust(a, records)
                          scores == {TrustScore(a, t, records) : t \in TaskType}
                          known  == {s.score : s \in {u \in scores : u.sample_count > 0}}
                      IN IF known = {} THEN all = Prior
                         ELSE Min(known) <= all /\ all <= Max(known)
    BY DEF AggregateWithinScores
  <1> DEFINE R == About(a, records)
             N(t) == Numerator(OfType(R, t))
             D(t) == Denominator(OfType(R, t))
             mean(t) == Percent(N(t) \div D(t))
             scores == {TrustScore(a, t, records) : t \in TaskType}
             known == {s.score : s \in {u \in scores : u.sample_count > 0}}
             means == {mean(t) : t \in {u \in TaskType : D(u) # 0}}
  <1>1. RecordsOK(R)
    BY AboutOK
  <1>2. ASSUME NEW t
        PROVE  /\ RecordsOK(OfType(R, t)) /\ N(t) \in Int /\ D(t) \in Nat
               /\ D(t) # 0 => mean(t) \in 0..100 /\ Count(OfType(R, t)) > 0
    <2>1. RecordsOK(OfType(R, t))
      BY <1>1, OfTypeSums
    <2>2. N(t) \in Int /\ D(t) \in Nat /\ (D(t) # 0 => Count(OfType(R, t)) > 0)
      BY <2>1, SumFacts
    <2>3. D(t) # 0 => mean(t) \in 0..100
      <3>1. D(t) # 0 => N(t) \div D(t) \in Int
        BY <2>2
      <3>2. QED
        BY <3>1, PercentFacts
    <2>4. QED
      BY <2>1, <2>2, <2>3
  <1>3. \A t : TrustScore(a, t, records) =
                 [score |-> IF D(t) = 0 THEN Prior ELSE mean(t),
                  sample_count |-> IF D(t) = 0 THEN 0 ELSE Count(OfType(R, t))]
    BY DEF TrustScore, WeightedAverage, OfType
  <1>4. AggregateTrust(a, records)
          = IF Denominator(R) = 0 THEN Prior ELSE Percent(Numerator(R) \div Denominator(R))
    BY DEF AggregateTrust
  <1>5. known = means
    <2>1. \A t : TrustScore(a, t, records).sample_count > 0 <=> D(t) # 0
      BY <1>2, <1>3
    <2>2. \A t : D(t) # 0 => TrustScore(a, t, records).score = mean(t)
      BY <1>3
    <2>3. known = {TrustScore(a, t, records).score :
                     t \in {u \in TaskType : TrustScore(a, u, records).sample_count > 0}}
      OBVIOUS
    <2> HIDE DEF D, mean
    <2>4. QED
      BY <2>1, <2>2, <2>3
  <1>6. \A t \in Types \ TaskType : D(t) = 0
    <2>1. \A t \in Types \ TaskType : Part(R, t) = {}
      BY <1>1 DEF RecordsOK, Records, Part
    <2>2. QED
      BY <1>1, <2>1, OfTypeSums, SumEmpty
  <1>7. CASE means = {}
    <2>1. \A t \in Types : D(t) = 0
      BY <1>6, <1>7
    <2>2. /\ Denominator(R) = D("CodeGeneration") + (D("Analysis")
                                + (D("CreativeWriting") + D("DataProcessing")))
      <3>1. IntOn(Bottom(R), DOMAIN R)
        BY <1>1, TermFacts DEF IntOn
      <3>2. \A t : D(t) = SumFunctionOnSet(Bottom(R), Part(R, t))
        BY <1>1, OfTypeSums
      <3>3. Denominator(R) = SumFunctionOnSet(Bottom(R), DOMAIN R)
        BY SumsOf
      <3> HIDE DEF D, R
      <3>4. QED
        BY <1>1, <3>1, <3>2, <3>3, SumByType
    <2> HIDE DEF D, R
    <2>3. Denominator(R) = 0
      BY <2>1, <2>2 DEF Types
    <2>4. QED
      BY <1>4, <1>5, <1>7, <2>3
  <1>8. CASE means # {}
    <2>1. means \subseteq 0..100
      <3> HIDE DEF D, mean
      <3>1. \A t : D(t) # 0 => mean(t) \in 0..100
        BY <1>2, Zenon
      <3>2. QED
        BY <3>1
    <2>2. PICK m \in 0..100, M \in 0..100 :
                 m = Min(means) /\ M = Max(means) /\ \A x \in means : m <= x /\ x <= M
      <3> HIDE DEF means
      <3>1. QED
        BY <1>8, <2>1, MinMaxFacts
    <2>3. \A t \in Types : D(t) # 0 => m <= mean(t) /\ mean(t) <= M
      <3> HIDE DEF mean, D
      <3>1. QED
        BY <1>6, <2>2
    <2>4. Denominator(R) # 0
      <3>1. PICK t \in TaskType : D(t) # 0
        BY <1>8
      <3>2. D(t) = SumFunctionOnSet(Bottom(R), Part(R, t))
        BY <1>1, OfTypeSums
      <3>3. PICK r \in Part(R, t) : Bottom(R)[r] # 0
        <4>1. IsFiniteSet(Part(R, t))
          BY <1>1, FS_Subset DEF RecordsOK, Part
        <4>2. QED
          BY <3>1, <3>2, <4>1, SumZero
      <3>4. r \in DOMAIN R /\ Bottom(R)[r] \in Nat /\ Bottom(R)[r] > 0
        <4>1. r \in DOMAIN R
          BY <3>3 DEF Part
        <4>2. Bottom(R)[r] \in Nat
          BY <1>1, <4>1, TermFacts
        <4>3. QED
          BY <3>3, <4>1, <4>2
      <3>5. Bottom(R)[r] <= Denominator(R) /\ Denominator(R) \in Nat
        <4>1. NatOn(Bottom(R), DOMAIN R) /\ IsFiniteSet(DOMAIN R)
          BY <1>1, TermFacts DEF NatOn, RecordsOK
        <4>2. QED
          BY <3>4, <4>1, SumsOf, SumNat
      <3>6. QED
        BY <3>4, <3>5
    <2>5. m <= AggregateTrust(a, records) /\ AggregateTrust(a, records) <= M
      <3>1. /\ m <= Percent(Numerator(R) \div Denominator(R))
            /\ Percent(Numerator(R) \div Denominator(R)) <= M
        <4> HIDE DEF R
        <4>1. QED
          BY <1>1, <2>3, <2>4, BetweenParts, Zenon
      <3> HIDE DEF R
      <3>2. QED
        BY <1>4, <2>4, <3>1
    <2>6. Min(known) <= AggregateTrust(a, records) /\ AggregateTrust(a, records) <= Max(known)
      <3> HIDE DEF known, means
      <3>1. QED
        BY <1>5, <2>2, <2>5
    <2>7. known # {}
      BY <1>5, <1>8
    <2> HIDE DEF known
    <2>8. QED
      BY <2>6, <2>7 DEF known
  <1>9. QED
    BY <1>7, <1>8

(* alpha^k is positive: 2^k counts the subsets of 1..k.                    *)
LEMMA PowerPositive ==
  ASSUME NEW k \in Nat
  PROVE  2^k \in Nat /\ 2^k > 0
  <1>1. IsFiniteSet(1..k) /\ Cardinality(1..k) = k
    BY FS_Interval
  <1>2. IsFiniteSet(SUBSET (1..k)) /\ Cardinality(SUBSET (1..k)) = 2^k
    BY <1>1, FS_SUBSET
  <1>3. Cardinality(SUBSET (1..k)) \in Nat
    BY <1>2, FS_CardinalityType
  <1>4. Cardinality(SUBSET (1..k)) # 0
    <2>1. SUBSET (1..k) # {}
      OBVIOUS
    <2>2. QED
      BY <1>2, <2>1, FS_EmptySet
  <1>5. QED
    BY <1>2, <1>3, <1>4

LEMMA VouchNat ==
  ASSUME RecordsOK(records), NEW k \in Nat, NEW v, NEW a
  PROVE  Vouch(k, v, a, records) \in Nat
  <1> DEFINE x == AggregateTrust(v, records)
             y == Attestation(v, a, records)
             p == 2^k
  <1>1. x \in 0..100 /\ y \in 0..100
    <2>1. y = AggregateTrust(a, ReportedBy(records, v))
      BY DEF Attestation, ReportedBy
    <2>2. RecordsOK(ReportedBy(records, v))
      BY ReportedByOK
    <2> HIDE DEF y
    <2>3. QED
      BY <2>1, <2>2, AggregateIsShare
  <1>2. p \in Nat /\ p > 0
    BY PowerPositive
  <1>3. Vouch(k, v, a, records) = (x * y) \div (100 * p)
    BY DEF Vouch
  <1> HIDE DEF x, y, p
  <1>4. x * y \in Nat /\ 100 * p \in Nat /\ 100 * p > 0
    BY <1>1, <1>2
  <1> DEFINE n == x * y
             d == 100 * p
  <1>5. n \in Nat /\ d \in Nat /\ d > 0
    BY <1>4
  <1> HIDE DEF n, d
  <1>6. n \div d \in Nat
    BY <1>5
  <1>7. QED
    BY <1>3, <1>6 DEF n, d

LEMMA LesserOf ==
  ASSUME NEW x \in Nat, NEW y \in Nat
  PROVE  Min({x, y}) = IF x <= y THEN x ELSE y
  BY DEF Min

(* Vouchers only add to a trust.                                           *)
LEMMA VouchersAdd ==
  ASSUME RecordsOK(records)
  PROVE  VouchersOnlyAdd
  <1> SUFFICES ASSUME NEW a \in Peer, NEW v \in Peer, NEW l \in 0..MaxDepth,
                      NEW chain \in [1..l -> Peer]
               PROVE  LET shorter == ChainTrust(a, chain, records)
                          longer  == ChainTrust(a, Append(chain, v), records)
                      IN /\ shorter <= longer /\ longer <= 100
                         /\ chain = <<>> /\ MaxDepth > 0 =>
                              longer = TransitiveTrust(a, v, records)
                         /\ Len(chain) = MaxDepth => longer = shorter
    BY DEF VouchersOnlyAdd
  <1> DEFINE long == Append(chain, v)
             direct == AggregateTrust(a, records)
             depth(c) == Min({Len(c), MaxDepth})
             term(c) == [k \in 1..depth(c) |-> Vouch(k, c[k], a, records)]
             sum(c) == SumFunctionOnSet(term(c), 1..depth(c))
  <1>1. MaxDepth \in Nat /\ l \in Nat /\ l <= MaxDepth
    BY TrustAssumption
  <1>2. chain \in Seq(Peer) /\ Len(chain) = l
    BY <1>1
  <1>3. /\ long \in Seq(Peer) /\ Len(long) = l + 1
        /\ long[l + 1] = v /\ \A k \in 1..l : long[k] = chain[k]
    BY <1>1, <1>2
  <1>4. \A c : ChainTrust(a, c, records) = Percent(direct + sum(c))
    BY DEF ChainTrust, SumFunction
  <1>5. depth(chain) = l /\ depth(long) = IF l < MaxDepth THEN l + 1 ELSE l
    <2>1. depth(chain) = IF l <= MaxDepth THEN l ELSE MaxDepth
      BY <1>1, <1>2, LesserOf
    <2>2. depth(long) = IF l + 1 <= MaxDepth THEN l + 1 ELSE MaxDepth
      <3>1. l + 1 \in Nat
        BY <1>1
      <3> HIDE DEF long
      <3>2. QED
        BY <1>1, <1>3, <3>1, LesserOf
    <2> HIDE DEF depth, long
    <2>3. QED
      BY <1>1, <2>1, <2>2
  <1>6. direct \in 0..100
    BY AggregateIsShare
  <1> HIDE DEF depth, direct, long
  <1>7. /\ IsFiniteSet(1..depth(chain)) /\ IsFiniteSet(1..depth(long))
        /\ NatOn(term(chain), 1..depth(chain)) /\ NatOn(term(long), 1..depth(long))
    <2>1. depth(chain) \in Nat /\ depth(long) \in Nat
      BY <1>1, <1>5
    <2>2. IsFiniteSet(1..depth(chain)) /\ IsFiniteSet(1..depth(long))
      BY <2>1, FS_Interval
    <2>3. \A c, k : k \in 1..depth(c) /\ depth(c) \in Nat => term(c)[k] \in Nat
      BY VouchNat
    <2> HIDE DEF term
    <2>4. QED
      BY <2>1, <2>2, <2>3 DEF NatOn
  <1>8. sum(chain) \in Nat /\ sum(long) \in Nat
    <2> HIDE DEF term
    <2>1. QED
      BY <1>7, SumNat
  <1>9. CASE l < MaxDepth
    <2>1. 1..depth(chain) = (1..depth(long)) \ {l + 1} /\ l + 1 \in 1..depth(long)
      BY <1>1, <1>5, <1>9
    <2>2. \A k \in 1..depth(chain) : term(chain)[k] = term(long)[k]
      <3>1. \A k \in 1..depth(chain) : k \in 1..depth(long) /\ long[k] = chain[k]
        BY <1>1, <1>3, <1>5, <2>1
      <3>2. QED
        BY <3>1
    <2>3. term(long)[l + 1] = Vouch(l + 1, v, a, records)
      BY <1>3, <2>1
    <2> HIDE DEF term
    <2>4. sum(chain) = SumFunctionOnSet(term(long), 1..depth(chain))
      BY <1>7, <2>2, SumSame
    <2>5. sum(long) = term(long)[l + 1] + SumFunctionOnSet(term(long), (1..depth(long)) \ {l + 1})
      <3> DEFINE S == 1..depth(long)
                 f == term(long)
      <3>1. IsFiniteSet(S) /\ IntOn(f, S) /\ l + 1 \in S
        BY <1>7, <2>1 DEF IntOn, NatOn
      <3> HIDE DEF S, f
      <3>2. SumFunctionOnSet(f, S) = f[l + 1] + SumFunctionOnSet(f, S \ {l + 1})
        BY <3>1, SumTakeOut
      <3>3. QED
        BY <3>2 DEF S, f
    <2>6. sum(long) = Vouch(l + 1, v, a, records) + sum(chain)
      BY <2>1, <2>3, <2>4, <2>5
    <2>7. Vouch(l + 1, v, a, records) \in Nat
      BY <1>1, VouchNat
    <2> HIDE DEF sum
    <2>8. direct + sum(chain) <= direct + sum(long)
      BY <1>6, <1>8, <2>6, <2>7
    <2>9. ASSUME chain = <<>> PROVE direct + sum(long) = direct + Vouch(1, v, a, records)
      <3>1. l = 0 /\ depth(chain) = 0
        BY <1>2, <1>5, <2>9
      <3>2. sum(chain) = 0
        <4>1. 1..depth(chain) = {}
          BY <3>1
        <4>2. QED
          BY <4>1, SumEmpty DEF sum
      <3>3. sum(long) = Vouch(1, v, a, records)
        BY <2>6, <2>7, <3>1, <3>2
      <3>4. QED
        BY <3>3
    <2>10. Percent(direct + sum(chain)) <= Percent(direct + sum(long))
      <3>1. direct + sum(chain) \in Int /\ direct + sum(long) \in Int
        BY <1>6, <1>8
      <3>2. QED
        BY <2>8, <3>1, PercentFacts
    <2>11. Percent(direct + sum(long)) <= 100
      <3>1. direct + sum(long) \in Int
        BY <1>6, <1>8
      <3>2. QED
        BY <3>1, PercentFacts
    <2>12. Len(chain) # MaxDepth
      BY <1>1, <1>2, <1>9
    <2>13. TransitiveTrust(a, v, records) = Percent(direct + Vouch(1, v, a, records))
      BY DEF TransitiveTrust, direct
    <2>14. QED
      BY <1>4, <2>9, <2>10, <2>11, <2>12, <2>13 DEF long
  <1>10. CASE ~(l < MaxDepth)
    <2>1. depth(chain) = l /\ depth(long) = l /\ l = MaxDepth
      BY <1>1, <1>5, <1>10
    <2>2. \A k \in 1..l : term(chain)[k] = term(long)[k]
      BY <1>3, <2>1
    <2> HIDE DEF term
    <2>3. sum(chain) = sum(long)
      BY <1>7, <2>1, <2>2, SumSame
    <2> HIDE DEF sum
    <2>4. /\ Percent(direct + sum(long)) <= Percent(direct + sum(long))
          /\ Percent(direct + sum(long)) <= 100
      <3> DEFINE x == direct + sum(long)
      <3>1. x \in Int /\ x <= x
        BY <1>6, <1>8
      <3> HIDE DEF x
      <3>2. Percent(x) <= Percent(x) /\ Percent(x) <= 100
        BY <3>1, PercentFacts
      <3>3. QED
        BY <3>2 DEF x
    <2>5. ~(chain = <<>> /\ MaxDepth > 0)
      BY <1>2, <2>1
    <2>6. /\ ChainTrust(a, chain, records) = Percent(direct + sum(long))
          /\ ChainTrust(a, Append(chain, v), records) = Percent(direct + sum(long))
      BY <1>4, <2>3 DEF long
    <2>7. QED
      BY <2>4, <2>5, <2>6
  <1>11. QED
    BY <1>9, <1>10

(* A larger denominator makes no larger quotient.                          *)
LEMMA QuotientFalls ==
  ASSUME NEW n \in Nat, NEW c \in Nat, NEW d \in Nat, c > 0, c <= d
  PROVE  n \div d \in Int /\ n \div c \in Int /\ n \div d <= n \div c
  <1> DEFINE q == n \div d
  <1>1. d > 0
    OBVIOUS
  <1>2. q \in Int /\ q \in Nat
    BY <1>1
  <1>3. q * d <= n
    BY <1>1, <1>2, QuotientAtLeast
  <1> HIDE DEF q
  <1>4. q * c <= q * d /\ q * c \in Int /\ q * d \in Int
    BY <1>2
  <1>5. q * c <= n
    BY <1>3, <1>4
  <1>6. q <= n \div c /\ n \div c \in Int
    BY <1>2, <1>5, QuotientAtLeast
  <1>7. QED
    BY <1>2, <1>6 DEF q

Suspicion(v, d) ==
  IF d \in 1..2 /\ 10 * v > 8 * d THEN Percent((100 * v) \div d)
  ELSE Percent((1000 * v) \div (d * (10 + d)))

LEMMA MoreRecordsCalm ==
  ASSUME NEW v \in Nat, v > 0, NEW d \in Nat, d > 0
  PROVE  Suspicion(v, d + 1) <= Suspicion(v, d)
  <1> DEFINE n == 1000 * v
             c == d * (10 + d)
             e == (d + 1) * (10 + (d + 1))
  <1>1. n \in Nat /\ c \in Nat /\ e \in Nat /\ c > 0 /\ c <= e
    <2>1. e = c + (11 + 2 * d) /\ c = d * d + 10 * d
      OBVIOUS
    <2>2. d * d \in Nat
      OBVIOUS
    <2>3. QED
      BY <2>1, <2>2
  <1> HIDE DEF n, c, e
  <1>2. CASE d \in 1..2 /\ 10 * v > 8 * d
    <2>1. Suspicion(v, d) = Percent((100 * v) \div d)
      BY <1>2 DEF Suspicion
    <2>2. (100 * v) \div d \in Int /\ 100 <= (100 * v) \div d
      <3>1. CASE d = 1
        BY <3>1
      <3>2. CASE d = 2
        <4>1. v >= 2
          BY <1>2, <3>2
        <4>2. QED
          BY <3>2, <4>1
      <3>3. QED
        BY <1>2, <3>1, <3>2
    <2>3. Suspicion(v, d) = 100
      BY <2>1, <2>2 DEF Percent
    <2>4. Suspicion(v, d + 1) <= 100
      <3>1. (100 * v) \div (d + 1) \in Int
        OBVIOUS
      <3>2. n \div e \in Int
        BY <1>1
      <3>3. Suspicion(v, d + 1) \in {Percent((100 * v) \div (d + 1)), Percent(n \div e)}
        BY DEF Suspicion, n, e
      <3>4. QED
        BY <3>1, <3>2, <3>3, PercentFacts
    <2>5. QED
      BY <2>3, <2>4
  <1>3. CASE ~(d \in 1..2 /\ 10 * v > 8 * d)
    <2>1. d # 1
      BY <1>3
    <2>2. d + 1 \notin 1..2
      BY <2>1
    <2>3. Suspicion(v, d) = Percent(n \div c) /\ Suspicion(v, d + 1) = Percent(n \div e)
      BY <1>3, <2>2 DEF Suspicion, n, c, e
    <2>4. n \div e \in Int /\ n \div c \in Int /\ n \div e <= n \div c
      BY <1>1, QuotientFalls
    <2>5. QED
      BY <2>3, <2>4, PercentFacts
  <1>4. QED
    BY <1>2, <1>3

Evaluators(R) == {r.evaluator : r \in DOMAIN R}

LEMMA SuspicionOf ==
  ASSUME NEW R, NEW a, RecordsOK(About(a, R)), DOMAIN About(a, R) # {}
  PROVE  /\ Cardinality(Evaluators(About(a, R))) \in Nat
         /\ Cardinality(Evaluators(About(a, R))) > 0
         /\ SybilSuspicion(a, R) = Suspicion(Cardinality(Evaluators(About(a, R))),
                                             Count(About(a, R)))
  <1> DEFINE B == About(a, R)
             E == Evaluators(B)
             v == Cardinality(E)
             d == Count(B)
  <1>1. IsFiniteSet(E) /\ E # {}
    <2> DEFINE f == [r \in DOMAIN B |-> r.evaluator]
    <2>1. f \in Surjection(DOMAIN B, E)
      BY DEF Surjection, Evaluators
    <2>2. IsFiniteSet(DOMAIN B)
      BY DEF RecordsOK
    <2>3. E # {}
      BY DEF Evaluators
    <2> HIDE DEF B, E, f
    <2>4. QED
      BY <2>1, <2>2, <2>3, FS_Surjection
  <1>2. v \in Nat /\ v > 0
    <2> HIDE DEF E
    <2>1. v \in Nat /\ v # 0
      BY <1>1, FS_CardinalityType, FS_EmptySet
    <2>2. QED
      BY <2>1
  <1>3. d \in Nat
    BY SumFacts
  <1>4. SybilSuspicion(a, R) =
          CASE v = 0 -> 0
            [] d \in 1..2 /\ 10 * v > 8 * d -> Percent((100 * v) \div d)
            [] OTHER -> Percent((1000 * v) \div (d * (10 + d)))
    BY DEF SybilSuspicion, Evaluators
  <1> HIDE DEF v, d
  <1>5. SybilSuspicion(a, R) = Suspicion(v, d)
    BY <1>2, <1>3, <1>4 DEF Suspicion
  <1>6. QED
    BY <1>2, <1>5 DEF v, d

(* A repeated report calms the suspicion of a sybil.                       *)
LEMMA RepeatsDoCalm ==
  ASSUME RecordsOK(records)
  PROVE  RepeatsCalm
  <1> SUFFICES ASSUME NEW r \in DOMAIN records
               PROVE  SybilSuspicion(r.subject, WithRecord(r))
                        <= SybilSuspicion(r.subject, records)
    BY DEF RepeatsCalm
  <1> DEFINE a == r.subject
             B == About(a, records)
             C == About(a, WithRecord(r))
             v == Cardinality(Evaluators(B))
  <1>1. RecordsOK(B)
    BY AboutOK
  <1>2. /\ DOMAIN C = DOMAIN B /\ r \in DOMAIN B
        /\ C[r] = B[r] + 1 /\ \A q \in DOMAIN B \ {r} : C[q] = B[q]
        /\ C = [q \in DOMAIN C |-> C[q]]
    BY DEF About, Selected, WithRecord
  <1>3. IsFiniteSet(DOMAIN B) /\ \A q \in DOMAIN B : B[q] \in Nat /\ B[q] > 0
    BY <1>1, TermFacts DEF RecordsOK
  <1>4. DOMAIN B \subseteq Records
    BY <1>1 DEF RecordsOK
  <1> HIDE DEF B, C
  <1>5. \A q \in DOMAIN C : C[q] \in Nat /\ C[q] > 0
    BY <1>2, <1>3
  <1>6. RecordsOK(C)
    BY <1>2, <1>3, <1>4, <1>5 DEF RecordsOK, IsABag
  <1>7. Count(C) = Count(B) + 1 /\ Count(B) \in Nat /\ Count(B) > 0
    <2> DEFINE S == DOMAIN B
               rest == SumFunctionOnSet(B, S \ {r})
    <2>1. IntOn(B, S) /\ IntOn(C, S) /\ NatOn(B, S \ {r})
      BY <1>2, <1>3, <1>5 DEF IntOn, NatOn
    <2>2. IsFiniteSet(S \ {r})
      BY <1>3, FS_Subset
    <2>3. Count(B) = B[r] + rest
      BY <1>2, <1>3, <2>1, SumsOf, SumTakeOut
    <2>4. Count(C) = C[r] + SumFunctionOnSet(C, S \ {r})
      BY <1>2, <1>3, <2>1, SumsOf, SumTakeOut
    <2>5. SumFunctionOnSet(C, S \ {r}) = rest
      BY <1>2, <2>2, SumSame
    <2>6. rest \in Nat
      BY <2>1, <2>2, SumNat
    <2>7. B[r] \in Nat /\ B[r] > 0
      BY <1>2, <1>3
    <2> HIDE DEF rest
    <2>8. QED
      BY <1>2, <2>3, <2>4, <2>5, <2>6, <2>7
  <1>8. Evaluators(C) = Evaluators(B)
    BY <1>2 DEF Evaluators
  <1>9. v \in Nat /\ v > 0 /\ SybilSuspicion(a, records) = Suspicion(v, Count(B))
    BY <1>1, <1>2, SuspicionOf DEF B
  <1>10. SybilSuspicion(a, WithRecord(r)) = Suspicion(v, Count(B) + 1)
    BY <1>2, <1>6, <1>7, <1>8, SuspicionOf DEF C
  <1> HIDE DEF v
  <1>11. QED
    BY <1>7, <1>9, <1>10, MoreRecordsCalm
-----------------------------------------------------------------------------
(* The type invariant.  An aggregate must be a share for the registry to   *)
(* be well-formed, so the records must be finitely many.                   *)
StoreTyped ==
  /\ DOMAIN identities \subseteq Agent
  /\ \A a \in DOMAIN identities : identities[a] \in Profiles
  /\ RecordsOK(records)
  /\ handling \subseteq Records
  /\ complete \subseteq DOMAIN identities

RegistryTyped ==
  /\ registry \in [TaskType -> SUBSET H!Entry]
  /\ \A t \in TaskType : \A e, f \in registry[t] :
       /\ e.capability.task_type = t
       /\ e.agent_id = f.agent_id => e = f
  /\ current \subseteq Agent \X TaskType

GraphTyped ==
  /\ DOMAIN nodes \subseteq Agent
  /\ \A a \in DOMAIN nodes : nodes[a] \in [caps : Profiles, trust : 0..100]
  /\ edges \subseteq (DOMAIN nodes) \X (DOMAIN nodes)

CallTyped == call \in Calls /\ inputs \in 0..MaxInputs

Typed == StoreTyped /\ RegistryTyped /\ GraphTyped /\ CallTyped

LEMMA WithRecordOK ==
  ASSUME RecordsOK(records), NEW r \in Records
  PROVE  RecordsOK(WithRecord(r))
  <1>1. DOMAIN WithRecord(r) = DOMAIN records \cup {r}
    BY DEF WithRecord
  <1>2. IsFiniteSet(DOMAIN records \cup {r})
    BY FS_AddElement DEF RecordsOK
  <1>3. \A q \in DOMAIN records : records[q] \in Nat /\ records[q] > 0
    BY DEF RecordsOK, IsABag
  <1>4. \A q \in DOMAIN records \cup {r} : WithRecord(r)[q] \in {n \in Nat : n > 0}
    BY <1>3 DEF WithRecord
  <1>5. WithRecord(r) \in [DOMAIN records \cup {r} -> {n \in Nat : n > 0}]
    BY <1>4 DEF WithRecord
  <1>6. QED
    BY <1>1, <1>2, <1>5 DEF RecordsOK, IsABag

(* Records one day older, those that become alike added up.                *)
LEMMA DayOK ==
  ASSUME RecordsOK(records), Day
  PROVE  RecordsOK(records')
  <1> DEFINE older(q) == [q EXCEPT !.age = Min({@ + 1, MaxAge})]
             D == {older(q) : q \in DOMAIN records}
             S(r) == {q \in DOMAIN records : older(q) = r}
             B(r) == [q \in S(r) |-> records[q]]
  <1>1. records' = [r \in D |-> Count(B(r))]
    BY DEF Day, Selected
  <1>2. ASSUME NEW q \in Records PROVE older(q) \in Records
    <2>1. MaxAge \in Nat
      BY TrustAssumption DEF MaxAge
    <2>2. q.age + 1 \in Nat
      BY DEF Records
    <2>3. Min({q.age + 1, MaxAge}) \in -1..MaxAge
      BY <2>1, <2>2, LesserOf
    <2>4. older(q) = [q EXCEPT !.age = Min({q.age + 1, MaxAge})]
      OBVIOUS
    <2> HIDE DEF older
    <2>5. QED
      BY <2>3, <2>4 DEF Records
  <1>3. D \subseteq Records
    <2> HIDE DEF older
    <2>1. QED
      BY <1>2 DEF RecordsOK
  <1>4. IsFiniteSet(D)
    <2> DEFINE f == [q \in DOMAIN records |-> older(q)]
    <2> HIDE DEF older
    <2>1. f \in Surjection(DOMAIN records, D)
      BY DEF Surjection
    <2>2. IsFiniteSet(DOMAIN records)
      BY DEF RecordsOK
    <2> HIDE DEF f, D
    <2>3. QED
      BY <2>1, <2>2, FS_Surjection
  <1>5. ASSUME NEW r \in D PROVE Count(B(r)) \in {n \in Nat : n > 0}
    <2>1. S(r) \in SUBSET DOMAIN records /\ S(r) # {}
      OBVIOUS
    <2>2. DOMAIN B(r) = S(r)
      OBVIOUS
    <2>3. RecordsOK(B(r))
      <3> HIDE DEF S
      <3>1. QED
        BY <2>1, SelectionOK
    <2> HIDE DEF B, S
    <2>4. Count(B(r)) \in Nat /\ Count(B(r)) > 0
      BY <2>1, <2>2, <2>3, SumFacts
    <2>5. QED
      BY <2>4
  <1> HIDE DEF D, B
  <1>6. records' \in [D -> {n \in Nat : n > 0}] /\ DOMAIN records' = D
    BY <1>1, <1>5
  <1>7. QED
    BY <1>3, <1>4, <1>6 DEF RecordsOK, IsABag

(* aggregate_trust, registry and graph of register_agent.                  *)
LEMMA FileTyped ==
  ASSUME Typed, FileCapabilities
  PROVE  Typed'
  <1> DEFINE a == call.agent
             caps == call.caps
             trust == AggregateTrust(a, records)
  <1>1. a \in Agent /\ caps \in Profiles /\ call = [pc |-> "file", agent |-> a, caps |-> caps]
    BY DEF Typed, CallTyped, Calls, FileCapabilities, NoCall
  <1>2. trust \in 0..100
    BY AggregateIsShare DEF Typed, StoreTyped
  <1>3. /\ registry' = Registered(a, caps, trust)
        /\ nodes' = [b \in DOMAIN nodes \cup {a} |->
                       IF b = a THEN [caps |-> caps, trust |-> trust] ELSE nodes[b]]
        /\ current' = current \cup {<<a, c.task_type>> : c \in Listed(caps)}
        /\ call' = [call EXCEPT !.pc = "connect"]
        /\ UNCHANGED <<identities, records, edges, handling, complete, inputs>>
    BY DEF FileCapabilities, store
  <1>4. call' = [pc |-> "connect", agent |-> a, caps |-> caps]
    BY <1>1, <1>3
  <1>5. \A c \in Listed(caps) : c.task_type \in TaskType /\ c \in Capability
    BY <1>1, ProfileTypes
  <1> HIDE DEF a, caps, trust
  <1>6. /\ registry' = [t \in TaskType |-> registry'[t]]
        /\ \A t \in TaskType : \A e \in registry'[t] :
             \/ e \in registry[t] /\ (e.agent_id = a => Kept(caps, t) = {})
             \/ \E c \in Kept(caps, t) : e = NewEntry(a, c, trust)
    BY <1>1, <1>3, RegisteredEntries, SMTT(30)
  <1>7. \A t \in TaskType : \A c \in Kept(caps, t) :
           /\ NewEntry(a, c, trust) \in H!Entry
           /\ NewEntry(a, c, trust).agent_id = a
           /\ NewEntry(a, c, trust).capability = c /\ c.task_type = t
    BY <1>1, <1>2, <1>5, KeptFacts DEF NewEntry, H!Entry, H!Unit
  <1>8. RegistryTyped'
    <2>1. RegistryTyped
      BY DEF Typed
    <2>2. ASSUME NEW t \in TaskType PROVE registry'[t] \subseteq H!Entry
      BY <1>6, <1>7, <2>1 DEF RegistryTyped
    <2>3. ASSUME NEW t \in TaskType, NEW e \in registry'[t], NEW f \in registry'[t]
          PROVE  /\ e.capability.task_type = t
                 /\ e.agent_id = f.agent_id => e = f
      <3>1. \A c, d \in Kept(caps, t) : c = d
        BY <1>1, KeptFacts
      <3>2. e.capability.task_type = t
        BY <1>6, <1>7, <2>1, <2>3 DEF RegistryTyped
      <3>3. ASSUME e.agent_id = f.agent_id PROVE e = f
        <4>1. CASE e \in registry[t] /\ f \in registry[t]
          BY <2>1, <3>3, <4>1 DEF RegistryTyped
        <4>2. CASE \E c \in Kept(caps, t) : e = NewEntry(a, c, trust)
          <5>1. \E c \in Kept(caps, t) : f = NewEntry(a, c, trust)
            BY <1>6, <1>7, <2>3, <3>3, <4>2
          <5>2. QED
            BY <3>1, <4>2, <5>1
        <4>3. CASE \E c \in Kept(caps, t) : f = NewEntry(a, c, trust)
          <5>1. \E c \in Kept(caps, t) : e = NewEntry(a, c, trust)
            BY <1>6, <1>7, <2>3, <3>3, <4>3
          <5>2. QED
            BY <3>1, <4>3, <5>1
        <4>4. QED
          BY <1>6, <2>3, <4>1, <4>2, <4>3
      <3>4. QED
        BY <3>2, <3>3
    <2>4. current' \subseteq Agent \X TaskType
      BY <1>1, <1>3, <1>5, <2>1 DEF RegistryTyped
    <2>5. registry' \in [TaskType -> SUBSET H!Entry]
      BY <1>6, <2>2
    <2>6. QED
      BY <2>3, <2>4, <2>5 DEF RegistryTyped
  <1>9. GraphTyped'
    BY <1>1, <1>2, <1>3 DEF Typed, GraphTyped
  <1>10. StoreTyped'
    BY <1>3 DEF Typed, StoreTyped
  <1>11. CallTyped'
    BY <1>1, <1>3, <1>4 DEF Typed, CallTyped, Calls
  <1>12. QED
    BY <1>8, <1>9, <1>10, <1>11 DEF Typed

(* The new trust of execute_task.                                          *)
LEMMA UpdateTyped ==
  ASSUME Typed, UpdateTrust
  PROVE  Typed'
  <1> DEFINE a == call.agent
             t == call.task_type
             trust == AggregateTrust(a, records)
             upd(e) == IF e.agent_id = a THEN [e EXCEPT !.trust_score = trust] ELSE e
  <1>1. a \in Agent /\ t \in TaskType
    BY DEF Typed, CallTyped, Calls, UpdateTrust, NoCall
  <1>2. trust \in 0..100
    BY AggregateIsShare DEF Typed, StoreTyped
  <1>3. H!Clamp(trust) = trust
    BY ClampedAlready
  <1>4. /\ registry' = [registry EXCEPT ![t] = {upd(e) : e \in @}]
        /\ current' = current \cup {<<a, t>>}
        /\ call' = NoCall
        /\ UNCHANGED <<identities, records, nodes, edges, handling, complete, inputs>>
    BY <1>3 DEF UpdateTrust, store, router
  <1>5. ASSUME NEW e \in H!Entry
        PROVE  /\ upd(e) \in H!Entry /\ upd(e).agent_id = e.agent_id
               /\ upd(e).capability = e.capability
    BY <1>2 DEF H!Entry, H!Unit
  <1> HIDE DEF upd, a, t, trust
  <1>6. RegistryTyped
    BY DEF Typed
  <1>7. /\ registry'[t] = {upd(e) : e \in registry[t]}
        /\ \A u \in TaskType : u # t => registry'[u] = registry[u]
        /\ registry' = [u \in TaskType |-> registry'[u]]
    BY <1>1, <1>4, <1>6 DEF RegistryTyped
  <1>8. \A u \in TaskType : registry[u] \subseteq H!Entry
    BY <1>6 DEF RegistryTyped
  <1>9. ASSUME NEW u \in TaskType
        PROVE  /\ registry'[u] \subseteq H!Entry
               /\ \A e, f \in registry'[u] :
                    /\ e.capability.task_type = u
                    /\ e.agent_id = f.agent_id => e = f
    <2>1. CASE u # t
      BY <1>6, <1>7, <1>8, <2>1 DEF RegistryTyped
    <2>2. CASE u = t
      <3>1. registry'[u] \subseteq H!Entry
        BY <1>1, <1>5, <1>7, <1>8, <2>2
      <3>2. ASSUME NEW e \in registry[t], NEW f \in registry[t]
            PROVE  /\ upd(e).capability.task_type = t
                   /\ upd(e).agent_id = upd(f).agent_id => upd(e) = upd(f)
        <4>1. /\ e.capability.task_type = t
              /\ e.agent_id = f.agent_id => e = f
          BY <1>1, <1>6, <3>2 DEF RegistryTyped
        <4>2. e \in H!Entry /\ f \in H!Entry
          BY <1>1, <1>8, <3>2
        <4>3. QED
          BY <1>5, <4>1, <4>2
      <3>3. QED
        BY <1>7, <2>2, <3>1, <3>2
    <2>3. QED
      BY <2>1, <2>2
  <1>10. RegistryTyped'
    <2>1. current' \subseteq Agent \X TaskType
      BY <1>1, <1>4, <1>6 DEF RegistryTyped
    <2>2. registry' \in [TaskType -> SUBSET H!Entry]
      BY <1>7, <1>9
    <2>3. QED
      BY <1>9, <2>1, <2>2 DEF RegistryTyped
  <1>11. QED
    BY <1>4, <1>10 DEF Typed, StoreTyped, GraphTyped, CallTyped, Calls

(* Nothing but the store, the calls and the age of the filed trust.        *)
LEMMA LayersTyped ==
  ASSUME Typed, StoreTyped', CallTyped', UNCHANGED <<registry, nodes, edges>>,
         current' \subseteq current
  PROVE  Typed'
  BY DEF Typed, RegistryTyped, GraphTyped

(* list_agents and the links of register_agent: both ends have a node.     *)
LEMMA ConnectTyped ==
  ASSUME IInv, Typed, ConnectAgent
  PROVE  Typed'
  <1> DEFINE a == call.agent
             others == (DOMAIN identities \ {a}) \cap DOMAIN nodes
  <1>1. a \in DOMAIN nodes
    BY DEF IInv, Shape, CallOK, ConnectAgent, NoCall
  <1>2. /\ edges' = edges \cup {<<a, b>> : b \in others} \cup {<<b, a>> : b \in others}
        /\ complete' \subseteq complete \cup (DOMAIN identities \cap {a})
        /\ call' = NoCall
        /\ UNCHANGED <<identities, records, registry, nodes, handling, current, inputs>>
    BY DEF ConnectAgent, BothWays, store
  <1>3. others \subseteq DOMAIN nodes
    OBVIOUS
  <1> HIDE DEF a, others
  <1>4. GraphTyped'
    BY <1>1, <1>2, <1>3 DEF Typed, GraphTyped
  <1>5. StoreTyped' /\ RegistryTyped' /\ CallTyped'
    BY <1>2 DEF Typed, StoreTyped, RegistryTyped, CallTyped, Calls
  <1>6. QED
    BY <1>4, <1>5 DEF Typed

(* An entry that execute_task contracts is one of the registry's.          *)
LEMMA ContractedEntry ==
  ASSUME Typed, NEW t \in TaskType, NEW qos, NEW e \in Contractable(t, qos)
  PROVE  e.agent_id \in Agent /\ e.capability.quality \in 0..100
  <1>1. e \in registry[t]
    BY DEF Contractable, H!FindCapable
  <1>2. e \in H!Entry
    BY <1>1 DEF Typed, RegistryTyped
  <1>3. e.agent_id \in Agent /\ e.capability \in Capability
    BY <1>2 DEF H!Entry
  <1>4. QED
    BY <1>3, NodeAssumption

LEMMA TypedInit == Init => Typed
  <1> SUFFICES ASSUME Init PROVE Typed
    OBVIOUS
  <1>1. RecordsOK(records)
    <2>1. DOMAIN records = {} /\ records = [r \in {} |-> 1]
      BY DEF Init, EmptyBag, SetToBag
    <2>2. IsABag(records)
      BY <2>1 DEF IsABag
    <2>3. QED
      BY <2>1, <2>2, FS_EmptySet DEF RecordsOK
  <1>2. StoreTyped
    BY <1>1 DEF Init, StoreTyped
  <1>3. RegistryTyped /\ GraphTyped
    BY DEF Init, RegistryTyped, GraphTyped
  <1>4. CallTyped
    BY NodeAssumption DEF Init, CallTyped, Calls
  <1>5. QED
    BY <1>2, <1>3, <1>4 DEF Typed

(* An identity is written.                                                 *)
LEMMA IdentityTyped ==
  ASSUME Typed, NEW a \in Peer, NEW caps \in Profiles,
         StoreRegister(a, caps) \/ RegisterIdentity(a, caps)
  PROVE  Typed'
  <1>1. /\ identities' = WithIdentity(a, caps)
        /\ complete' = complete \ {a}
        /\ inputs < MaxInputs /\ inputs' = inputs + 1
        /\ UNCHANGED <<records, registry, nodes, edges, current, handling>>
        /\ call' = call \/ call' = [pc |-> "file", agent |-> a, caps |-> caps]
    BY DEF StoreRegister, RegisterIdentity, router, Input
  <1>2. a \in Agent
    BY DEF Peer
  <1>3. StoreTyped'
    BY <1>1, <1>2 DEF Typed, StoreTyped, WithIdentity
  <1>4. CallTyped'
    BY <1>1, <1>2, NodeAssumption DEF Typed, CallTyped, Calls
  <1>5. QED
    BY <1>1, <1>3, <1>4, LayersTyped

(* A record is added.                                                      *)
LEMMA AddedTyped ==
  ASSUME Typed, NEW r \in Records, AddInteraction(r), CallTyped',
         UNCHANGED <<identities, registry, nodes, edges, complete>>,
         handling' \subseteq handling
  PROVE  Typed'
  <1>1. records' = WithRecord(r) /\ current' \subseteq current
    BY DEF AddInteraction, Dated
  <1>2. RecordsOK(records')
    BY <1>1, WithRecordOK DEF Typed, StoreTyped
  <1>3. StoreTyped'
    BY <1>2 DEF Typed, StoreTyped
  <1>4. QED
    BY <1>1, <1>3, LayersTyped

LEMMA RecordType ==
  ASSUME NEW v \in Agent, NEW a \in Agent, NEW t \in TaskType, NEW q \in Int,
         NEW age \in -1..MaxAge
  PROVE  Record(v, a, t, q, age) \in Records
  BY DEF Record, Records

LEMMA TypedStep == IInv /\ Typed /\ [Next]_vars => Typed'
  <1> SUFFICES ASSUME IInv, Typed, [Next]_vars PROVE Typed'
    OBVIOUS
  <1>0. /\ StoreTyped /\ CallTyped
        /\ 0 \in -1..MaxAge /\ Self \in Agent /\ Peer \subseteq Agent
        /\ "CodeGeneration" \in TaskType /\ Reports \subseteq Int /\ Stamps \subseteq -1..MaxAge
    BY NodeAssumption, TrustAssumption DEF Typed, Peer, MaxAge
  <1>1. ASSUME NEW a \in Peer, NEW caps \in Profiles, RegisterIdentity(a, caps) PROVE Typed'
    BY <1>1, IdentityTyped
  <1>2. ASSUME NEW t \in TaskType, NEW qos \in QoS, NEW e \in Contractable(t, qos),
               ExecuteTask(t, e)
        PROVE  Typed'
    <2>1. e.agent_id \in Agent /\ e.capability.quality \in 0..100
      BY <1>2, ContractedEntry
    <2>2. CallTyped'
      BY <1>0, <1>2, <2>1, NodeAssumption DEF CallTyped, Calls, ExecuteTask, Input
    <2>3. StoreTyped'
      BY <1>0, <1>2 DEF StoreTyped, ExecuteTask, store
    <2>4. QED
      BY <1>2, <2>2, <2>3, LayersTyped DEF ExecuteTask, router
  <1>3. CASE FileCapabilities
    BY <1>3, FileTyped
  <1>4. CASE ConnectAgent
    BY <1>4, ConnectTyped
  <1>5. CASE RecordInteraction
    <2> DEFINE r == Record(Self, call.agent, call.task_type, call.quality, 0)
    <2>1. /\ call.agent \in Agent /\ call.task_type \in TaskType /\ call.quality \in Int
          /\ [call EXCEPT !.pc = "update"] \in Calls
      BY <1>0, <1>5 DEF CallTyped, Calls, RecordInteraction, NoCall
    <2>2. r \in Records
      BY <1>0, <2>1, RecordType
    <2>3. CallTyped'
      BY <1>0, <1>5, <2>1 DEF CallTyped, RecordInteraction
    <2>4. QED
      BY <1>5, <2>2, <2>3, AddedTyped DEF RecordInteraction, router
  <1>6. CASE UpdateTrust
    BY <1>6, UpdateTyped
  <1>7. CASE Cancel
    <2>1. CallTyped' /\ StoreTyped'
      BY <1>0, <1>7 DEF CallTyped, Calls, StoreTyped, Cancel, store
    <2>2. QED
      BY <1>7, <2>1, LayersTyped DEF Cancel, router
  <1>8. ASSUME NEW a \in Peer, NEW q \in Reports, TaskResult(a, q) PROVE Typed'
    <2> DEFINE r == Record(Self, a, "CodeGeneration", q, 0)
    <2>1. r \in Records
      BY <1>0, RecordType
    <2>2. /\ handling' = handling \cup {r} /\ inputs < MaxInputs /\ inputs' = inputs + 1
          /\ UNCHANGED <<identities, records, registry, nodes, edges, call, complete, current>>
      BY <1>8 DEF TaskResult, Input, store, router
    <2> HIDE DEF r
    <2>3. StoreTyped' /\ CallTyped'
      BY <1>0, <2>1, <2>2, NodeAssumption DEF StoreTyped, CallTyped
    <2>4. QED
      BY <2>2, <2>3, LayersTyped
  <1>9. ASSUME NEW r \in handling, TaskResultRecorded(r) PROVE Typed'
    <2>1. r \in Records
      BY <1>0 DEF StoreTyped
    <2>2. CallTyped'
      BY <1>0, <1>9 DEF CallTyped, TaskResultRecorded
    <2>3. QED
      BY <1>9, <2>1, <2>2, AddedTyped DEF TaskResultRecorded, router
  <1>10. ASSUME NEW r \in handling, TaskResultDropped(r) PROVE Typed'
    <2>1. CallTyped' /\ StoreTyped'
      BY <1>0, <1>10 DEF CallTyped, StoreTyped, TaskResultDropped, store
    <2>2. QED
      BY <1>10, <2>1, LayersTyped DEF TaskResultDropped, router
  <1>11. ASSUME NEW a \in Peer, NEW caps \in Profiles, StoreRegister(a, caps) PROVE Typed'
    BY <1>11, IdentityTyped
  <1>12. ASSUME NEW a \in Peer, StoreRemove(a) PROVE Typed'
    <2>1. /\ identities' = [b \in DOMAIN identities \ {a} |-> identities[b]]
          /\ records' = [r \in {q \in DOMAIN records : q.subject # a} |-> records[r]]
          /\ complete' = complete \ {a} /\ current' \subseteq current
          /\ inputs < MaxInputs /\ inputs' = inputs + 1
          /\ UNCHANGED <<registry, nodes, edges, call, handling>>
      BY <1>12 DEF StoreRemove, Selected, Dated, Input, router
    <2>2. RecordsOK(records')
      <3> DEFINE S == {q \in DOMAIN records : q.subject # a}
      <3>1. S \in SUBSET DOMAIN records
        OBVIOUS
      <3> HIDE DEF S
      <3>2. RecordsOK([r \in S |-> records[r]])
        BY <1>0, <3>1, SelectionOK DEF StoreTyped
      <3>3. QED
        BY <2>1, <3>2 DEF S
    <2>3. StoreTyped' /\ CallTyped'
      BY <1>0, <2>1, <2>2, NodeAssumption DEF StoreTyped, CallTyped
    <2>4. QED
      BY <2>1, <2>3, LayersTyped
  <1>13. ASSUME NEW a \in Peer, NEW v \in Peer, NEW t \in TaskType, NEW q \in Reports,
                NEW age \in Stamps, InteractionProof(v, a, t, q, age)
         PROVE  Typed'
    <2>1. Record(v, a, t, q, age) \in Records
      BY <1>0, RecordType
    <2>2. CallTyped'
      BY <1>0, <1>13, NodeAssumption DEF CallTyped, InteractionProof, Input
    <2>3. QED
      BY <1>13, <2>1, <2>2, AddedTyped DEF InteractionProof, router
  <1>14. CASE Day
    <2>1. RecordsOK(records')
      BY <1>0, <1>14, DayOK DEF StoreTyped
    <2>2. CallTyped' /\ StoreTyped'
      BY <1>0, <1>14, <2>1 DEF CallTyped, StoreTyped, Day
    <2>3. QED
      BY <1>14, <2>2, LayersTyped DEF Day, router
  <1>15. CASE UNCHANGED vars
    BY <1>15 DEF vars, Typed, StoreTyped, RegistryTyped, GraphTyped, CallTyped
  <1>16. QED
    BY <1>1, <1>2, <1>3, <1>4, <1>5, <1>6, <1>7, <1>8, <1>9, <1>10, <1>11, <1>12,
       <1>13, <1>14, <1>15 DEF Next, CallStep, Message, StoreStep

(* What the layers hold is well-formed (TypeOK): however the calls         *)
(* interleave and are dropped and whatever qualities are reported, the     *)
(* registry has one entry per agent under its own task type, with a trust  *)
(* between 0 and 1, and every link joins two agents of the graph.          *)
THEOREM TypeCorrect == Spec => []TypeOK
  <1>1. Spec => []Typed
    BY TypedInit, TypedStep, Invariance, PTL DEF Spec
  <1>2. Typed => TypeOK
    BY DEF Typed, StoreTyped, RegistryTyped, GraphTyped, CallTyped, RecordsOK, TypeOK
  <1>3. QED
    BY <1>1, <1>2, PTL

(* The scores that layer 1 derives from the records are consistent         *)
(* (ScoresSound): compute_aggregate_trust is a mean of the scores by task  *)
(* type, a voucher never costs trust, and a repeated report never raises   *)
(* the suspicion of a sybil.                                               *)
THEOREM ScoresAreSound == Spec => []ScoresSound
  <1>1. Spec => []Typed
    BY TypedInit, TypedStep, Invariance, PTL DEF Spec
  <1>2. Typed => ScoresSound
    BY AggregateIsWithin, VouchersAdd, RepeatsDoCalm DEF Typed, StoreTyped, ScoresSound
  <1>3. QED
    BY <1>1, <1>2, PTL
=============================================================================
