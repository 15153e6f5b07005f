-------------------------------- MODULE Node --------------------------------
(***************************************************************************)
(* AtpNode (crates/atp-node): the calls that drive the layers together.    *)
(* register_agent and execute_task borrow the node exclusively and suspend *)
(* at every access to the identity store, where the caller may drop them;  *)
(* between those points they run to completion.  The store itself is       *)
(* shared: whoever holds a clone of it writes to it at any time.           *)
(*                                                                         *)
(* Each layer appears as what its own module shows of it: the registry is  *)
(* the primary index of Handshake, a negotiation contracts any entry that  *)
(* meets the constraints relaxed so far (other offers may have expired),   *)
(* the graph is Routing's.  The breaker may admit or reject any request    *)
(* (CircuitBreaker has the messages that only touch it).  A checkpoint     *)
(* lives between two suspensions only, and a non-empty payload always      *)
(* compresses, so neither leaves a trace here; find_route's answer is only *)
(* logged.  A call that fails changes nothing.                             *)
(***************************************************************************)
EXTENDS Trust

CONSTANTS
  Agent,        \* agents, this node among them
  Self,         \* AtpNode.agent_id
  TaskType,     \* task categories
  Profiles,     \* the capability lists an identity may carry
  QoS,          \* constraints execute_task is called with
  Reports,      \* qualities that messages report
  RelaxPct,     \* HandshakeConfig.relaxation_factor, in percent
  MaxRetries,   \* HandshakeConfig.max_retries
  Stamps,       \* ages, in days, of the records that messages bring
  MaxInputs     \* bound on the calls, messages and writes to the store

Peer == Agent \ {Self}

(* The capabilities a list names; it may name several of one task type.    *)
Listed(caps) == {caps[i] : i \in DOMAIN caps}

Capability == UNION {Listed(p) : p \in Profiles}

ASSUME NodeAssumption ==
  /\ Self \in Agent
  /\ "CodeGeneration" \in TaskType /\ TaskType \subseteq DOMAIN ComplexityWeight
  /\ \A c \in Capability : c.task_type \in TaskType /\ c.quality \in 0..100
  /\ \A p \in Profiles : p \in Seq(Listed(p))
  /\ Reports \subseteq Int /\ Stamps \subseteq -1..MaxAge /\ MaxInputs \in Nat

VARIABLES
  identities,   \* IdentityStore: agent id -> capabilities of its identity
  records,      \* IdentityStore: the bag of interaction records
  registry,     \* CapabilityRegistry: task type -> entries
  nodes,        \* EconomicRouter: agent id -> capabilities and trust
  edges,        \* EconomicRouter: pairs of connected agent ids
  call,         \* the suspended register_agent or execute_task
  handling,     \* records of the task results being handled
  complete,     \* history: identities as a finished register_agent left them
  current,      \* history: entries whose trust no later record contradicts
  inputs        \* calls, messages and writes so far, up to MaxInputs

vars == <<identities, records, registry, nodes, edges, call, handling,
          complete, current, inputs>>
store == <<identities, records>>
router == <<nodes, edges>>

(* The registry's own module.                                              *)
H == INSTANCE Handshake WITH
       by_task_type <- registry, by_agent <- {}, machine <- {}, call <- {},
       outcome <- {}, Trust <- 0..100, RawTrust <- {}

-----------------------------------------------------------------------------
(* The identity store.                                                     *)

NoCall == [pc |-> "none"]

Idle == call = NoCall /\ handling = {}

WithIdentity(a, caps) ==
  [b \in DOMAIN identities \cup {a} |-> IF b = a THEN caps ELSE identities[b]]

WithRecord(r) ==
  [q \in DOMAIN records \cup {r} |->
     IF q # r THEN records[q]
     ELSE IF r \in DOMAIN records THEN records[r] + 1 ELSE 1]

Input == inputs < MaxInputs /\ inputs' = inputs + 1

(* Every change of an agent's records dates the trust filed for it.        *)
Dated(a) == current' = {e \in current : e[1] # a}

Record(evaluator, a, t, quality, age) ==
  [evaluator |-> evaluator, subject |-> a, task_type |-> t,
   quality |-> quality, age |-> age]

AddInteraction(r) ==
  /\ records' = WithRecord(r)
  /\ Dated(r.subject)

-----------------------------------------------------------------------------
(* register_agent.                                                         *)

(* Slip: the agent is routable at once.                                    *)
RoutedTooEarly(a, caps) ==
  /\ Idle /\ Input
  /\ identities' = WithIdentity(a, caps)
  /\ nodes' = [b \in DOMAIN nodes \cup {a} |->
                 IF b = a THEN [caps |-> caps, trust |-> Prior] ELSE nodes[b]]
  /\ call' = [pc |-> "file", agent |-> a, caps |-> caps]
  /\ complete' = complete \ {a}
  /\ UNCHANGED <<records, registry, edges, handling, current>>

RegisterIdentity(a, caps) ==
  /\ Idle /\ Input
  /\ identities' = WithIdentity(a, caps)
  /\ call' = [pc |-> "file", agent |-> a, caps |-> caps]
  /\ complete' = complete \ {a}
  /\ UNCHANGED <<records, registry, router, handling, current>>

(* register() is called for every capability in turn and replaces the      *)
(* agent's entry of the same task type: the last of a type stays.          *)
Kept(caps, t) ==
  {caps[i] : i \in {j \in DOMAIN caps :
                      /\ caps[j].task_type = t
                      /\ \A k \in DOMAIN caps : k > j => caps[k].task_type # t}}

Registered(a, caps, trust) ==
  [t \in TaskType |->
     LET new == {[agent_id |-> a, capability |-> c, trust_score |-> trust] :
                   c \in Kept(caps, t)}
     IN IF new = {} THEN registry[t] ELSE H!Without(registry[t], a) \cup new]

(* aggregate_trust, then the registry and the graph without suspending.    *)
FileCapabilities ==
  LET a     == call.agent
      trust == AggregateTrust(a, records)
  IN /\ call.pc = "file"
     /\ registry' = Registered(a, call.caps, trust)
     /\ nodes' = [b \in DOMAIN nodes \cup {a} |->
                    IF b = a THEN [caps |-> call.caps, trust |-> trust]
                             ELSE nodes[b]]
     /\ current' = current \cup {<<a, c.task_type>> : c \in Listed(call.caps)}
     /\ call' = [call EXCEPT !.pc = "connect"]
     /\ UNCHANGED <<store, edges, handling, complete, inputs>>

(* Slip: the newcomer is linked to the others, and not they to it.         *)
OneWay(a, others) == {<<a, b>> : b \in others}

BothWays(a, others) == {<<a, b>> : b \in others} \cup {<<b, a>> : b \in others}

(* list_agents and connect; add_edge ignores an id that has no node.       *)
ConnectAgent ==
  LET a      == call.agent
      others == (DOMAIN identities \ {a}) \cap DOMAIN nodes
  IN /\ call.pc = "connect"
     /\ edges' = edges \cup BothWays(a, others)
     /\ complete' =
          IF a \in DOMAIN identities /\ identities[a] = call.caps
          THEN complete \cup {a} ELSE complete
     /\ call' = NoCall
     /\ UNCHANGED <<store, registry, nodes, handling, current, inputs>>

-----------------------------------------------------------------------------
(* execute_task.                                                           *)

Contractable(t, qos) ==
  UNION {H!FindCapable(t, H!RelaxedBy(qos)[n]) : n \in 0..MaxRetries}

(* Up to the first suspension: the contract, the breaker, the result.      *)
ExecuteTask(t, e) ==
  /\ Idle /\ Input
  /\ call' = [pc |-> "record", agent |-> e.agent_id, task_type |-> t,
              quality |-> e.capability.quality]
  /\ UNCHANGED <<store, registry, router, handling, complete, current>>

RecordInteraction ==
  /\ call.pc = "record"
  /\ AddInteraction(
       Record(Self, call.agent, call.task_type, call.quality, 0))
  /\ call' = [call EXCEPT !.pc = "update"]
  /\ UNCHANGED <<identities, registry, router, handling, complete, inputs>>

(* Slip: the agent's trust in this kind of task, filed as its trust.       *)
UpdateTypeTrust ==
  LET a == call.agent
      t == call.task_type
      trust == TrustScore(a, t, records).score
  IN /\ call.pc = "update"
     /\ registry' = [registry EXCEPT ![t] =
          {IF e.agent_id = a THEN [e EXCEPT !.trust_score = trust] ELSE e :
             e \in @}]
     /\ current' = current \cup {<<a, t>>}
     /\ call' = NoCall
     /\ UNCHANGED <<store, router, handling, complete, inputs>>

(* aggregate_trust, then update_trust without suspending.                  *)
UpdateTrust ==
  LET a == call.agent
      t == call.task_type
      trust == AggregateTrust(a, records)
  IN /\ call.pc = "update"
     /\ registry' = [registry EXCEPT ![t] =
          {IF e.agent_id = a
           THEN [e EXCEPT !.trust_score = H!Clamp(trust)] ELSE e : e \in @}]
     /\ current' = current \cup {<<a, t>>}
     /\ call' = NoCall
     /\ UNCHANGED <<store, router, handling, complete, inputs>>

(* The caller drops a suspended call.                                      *)
Cancel ==
  /\ call # NoCall
  /\ call' = NoCall
  /\ UNCHANGED <<store, registry, router, handling, complete, current, inputs>>

-----------------------------------------------------------------------------
(* TASK_RESULT, between those calls.                                       *)

(* Its record is added after a suspension.  The type of the task is not in *)
(* the message; the code files it as CodeGeneration.                       *)
TaskResult(a, quality) ==
  LET r == Record(Self, a, "CodeGeneration", quality, 0)
  IN /\ call = NoCall /\ Input /\ r \notin handling
     /\ handling' = handling \cup {r}
     /\ UNCHANGED <<store, registry, router, call, complete, current>>

TaskResultRecorded(r) ==
  /\ AddInteraction(r)
  /\ handling' = handling \ {r}
  /\ UNCHANGED <<identities, registry, router, call, complete, inputs>>

TaskResultDropped(r) ==
  /\ handling' = handling \ {r}
  /\ UNCHANGED <<store, registry, router, call, complete, current, inputs>>

-----------------------------------------------------------------------------
(* The store's other users, and time.                                      *)

(* INTERACTION_PROOF, or add_interaction on a clone of the store.          *)
InteractionProof(evaluator, a, t, quality, age) ==
  /\ Input
  /\ AddInteraction(Record(evaluator, a, t, quality, age))
  /\ UNCHANGED <<identities, registry, router, call, handling,
                 complete>>

StoreRegister(a, caps) ==
  /\ Input
  /\ identities' = WithIdentity(a, caps)
  /\ complete' = complete \ {a}
  /\ UNCHANGED <<records, registry, router, call, handling, current>>

StoreRemove(a) ==
  /\ Input
  /\ a \in DOMAIN identities
  /\ identities' = [b \in DOMAIN identities \ {a} |-> identities[b]]
  /\ records' = Selected(records, LAMBDA r : r.subject # a)
  /\ complete' = complete \ {a}
  /\ Dated(a)
  /\ UNCHANGED <<registry, router, call, handling>>

(* A day passes: every record ages, up to MaxAge.                          *)
Day ==
  LET older(r) == [r EXCEPT !.age = Min({@ + 1, MaxAge})]
  IN /\ records' = [r \in {older(q) : q \in DOMAIN records} |->
          Count(Selected(records, LAMBDA q : older(q) = r))]
     /\ current' = {}
     /\ UNCHANGED <<identities, registry, router, call, handling,
                    complete, inputs>>

Init ==
  /\ identities = [a \in {} |-> {}]
  /\ records = EmptyBag
  /\ registry = [t \in TaskType |-> {}]
  /\ nodes = [a \in {} |-> {}]
  /\ edges = {}
  /\ call = NoCall
  /\ handling = {}
  /\ complete = {}
  /\ current = {}
  /\ inputs = 0

CallStep ==
  \/ FileCapabilities \/ ConnectAgent
  \/ RecordInteraction \/ UpdateTrust

Message ==
  \/ \E a \in Peer, q \in Reports : TaskResult(a, q)
  \/ \E r \in handling : TaskResultRecorded(r) \/ TaskResultDropped(r)

StoreStep ==
  \/ \E a \in Peer, caps \in Profiles : StoreRegister(a, caps)
  \/ \E a \in Peer : StoreRemove(a)
  \/ \E a \in Peer, t \in TaskType, q \in Reports, age \in Stamps :
       \E v \in Peer \ {a} : InteractionProof(v, a, t, q, age)

Next ==
  \/ \E a \in Peer, caps \in Profiles : RegisterIdentity(a, caps)
  \/ \E t \in TaskType, qos \in QoS :
       \E e \in Contractable(t, qos) : ExecuteTask(t, e)
  \/ CallStep
  \/ Cancel
  \/ Message
  \/ StoreStep
  \/ Day

Spec == Init /\ [][Next]_vars

-----------------------------------------------------------------------------
Records ==
  [evaluator : Agent, subject : Agent, task_type : TaskType, quality : Int,
   age : -1..MaxAge]

Calls ==
  {NoCall}
  \cup [pc : {"file", "connect"}, agent : Agent, caps : Profiles]
  \cup [pc : {"record", "update"}, agent : Agent, task_type : TaskType,
        quality : 0..100]

(* Type invariant: what the layers hold is well-formed; the registry's     *)
(* entries are filed under their own task type, one per agent, with a      *)
(* trust between 0 and 1 whatever qualities were reported.                 *)
TypeOK ==
  /\ DOMAIN identities \subseteq Agent
  /\ \A a \in DOMAIN identities : identities[a] \in Profiles
  /\ IsABag(records) /\ DOMAIN records \subseteq Records
  /\ registry \in [TaskType -> SUBSET H!Entry]
  /\ \A t \in TaskType : \A e, f \in registry[t] :
       /\ e.capability.task_type = t
       /\ e.agent_id = f.agent_id => e = f
  /\ DOMAIN nodes \subseteq Agent
  /\ \A a \in DOMAIN nodes : nodes[a] \in [caps : Profiles, trust : 0..100]
  /\ edges \subseteq (DOMAIN nodes) \X (DOMAIN nodes)
  /\ call \in Calls
  /\ handling \subseteq Records
  /\ complete \subseteq DOMAIN identities
  /\ current \subseteq Agent \X TaskType
  /\ inputs \in 0..MaxInputs

Offers(a, c) ==
  \E e \in registry[c.task_type] : e.agent_id = a /\ e.capability = c

(* For each task type of the list the registry has the agent, with the     *)
(* capability the list names last; that is the only one if it names one.   *)
Negotiable(a, caps) ==
  \A i \in DOMAIN caps : \E j \in i..Len(caps) :
    /\ caps[j].task_type = caps[i].task_type
    /\ \A k \in (j + 1)..Len(caps) : caps[k].task_type # caps[j].task_type
    /\ Offers(a, caps[j])

(* register_agent writes four structures across three suspensions.  Once   *)
(* it has returned, and until the identity is written again, the store and *)
(* the graph hold the same list of the agent's capabilities, the registry  *)
(* its last one of each task type, and it is linked both ways with every   *)
(* other agent so registered: whatever calls were dropped half way before, *)
(* and whatever the store's other users did meanwhile.                     *)
LayersAgree ==
  \A a \in complete :
    /\ a \in DOMAIN nodes /\ nodes[a].caps = identities[a]
    /\ Negotiable(a, identities[a])
    /\ \A b \in complete \ {a} : <<a, b>> \in edges

(* At every suspension, a dropped registration included: an agent is never *)
(* routed for a task type it cannot be contracted for.  The contract is    *)
(* with the last capability the list names for the type; the route counts  *)
(* on the first (capability_for), which is the same if there is one only.  *)
RoutedIsRegistered ==
  \A a \in DOMAIN nodes : Negotiable(a, nodes[a].caps)

(* The trust a finished registration or execution has filed is the agent's *)
(* trust over all its records, the latest execution's included, until      *)
(* another record arrives or a day passes.                                 *)
TrustIsCurrent ==
  \A p \in current : \A e \in registry[p[2]] :
    e.agent_id = p[1] => e.trust_score = AggregateTrust(p[1], records)

(* compute_aggregate_trust and weighted_average repeat one formula.  They  *)
(* agree: an agent's aggregate lies between its least and its greatest     *)
(* score by task type, and is the prior when no record weighs anything.    *)
AggregateWithinScores ==
  \A a \in Agent :
    LET all    == AggregateTrust(a, records)
        scores == {TrustScore(a, t, records) : t \in TaskType}
        known  == {s.score : s \in {u \in scores : u.sample_count > 0}}
    IN IF known = {} THEN all = Prior
       ELSE Min(known) <= all /\ all <= Max(known)

(* transitive_trust and chain_trust agree on one voucher, if chains count  *)
(* at all; a further voucher never lowers a trust or takes it above 1, and *)
(* beyond max_depth it changes nothing.                                    *)
VouchersOnlyAdd ==
  \A a, v \in Peer : \A chain \in UNION {[1..n -> Peer] : n \in 0..MaxDepth} :
    LET shorter == ChainTrust(a, chain, records)
        longer  == ChainTrust(a, Append(chain, v), records)
    IN /\ shorter <= longer /\ longer <= 100
       /\ chain = <<>> /\ MaxDepth > 0 => longer = TransitiveTrust(a, v, records)
       /\ Len(chain) = MaxDepth => longer = shorter

(* The suspicion of a sybil does not grow when an evaluator the agent      *)
(* already has reports once more.                                          *)
RepeatsCalm ==
  \A r \in DOMAIN records :
    SybilSuspicion(r.subject, WithRecord(r))
      <= SybilSuspicion(r.subject, records)

(* The scores layer 1 derives from whatever records have come together     *)
(* are consistent with each other: AggregateWithinScores, VouchersOnlyAdd  *)
(* and RepeatsCalm (trust.rs, sybil.rs).                                   *)
ScoresSound == AggregateWithinScores /\ VouchersOnlyAdd /\ RepeatsCalm
=============================================================================
