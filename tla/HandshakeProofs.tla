--------------------------- MODULE HandshakeProofs ---------------------------
(* Theorems about Handshake, for every set of agents, capabilities and     *)
(* constraints, every trust, relaxation and number of retries.             *)
EXTENDS Handshake, SumTheorems

Filed(a) == {e \in UNION {by_task_type[t] : t \in TaskType} : e.agent_id = a}

(* The registry's part of the type invariant.                              *)
RegistryOK ==
  /\ by_task_type \in [TaskType -> SUBSET Entry]
  /\ \A t \in TaskType : \A e \in by_task_type[t] : e.capability.task_type = t
  /\ DOMAIN by_agent \subseteq Agent
  /\ by_agent = [a \in DOMAIN by_agent |-> by_agent[a]]
  /\ \A a \in DOMAIN by_agent : by_agent[a] \in (SUBSET Capability) \ {{}}

(* What IndexesAgree says of one agent, with the index spelled out.        *)
AgentAgrees(a) ==
  /\ \A c : c \in CapsOf(a) <=>
       \E t \in TaskType : \E e \in by_task_type[t] :
         e.agent_id = a /\ e.capability = c
  /\ \A t \in TaskType : \A e, f \in by_task_type[t] :
       e.agent_id = a /\ f.agent_id = a => e = f

(* The coordinator's part: a running call has no outcome yet, and offers   *)
(* under consideration meet the constraints they answer.                   *)
CallOK ==
  \/ call = NoCall
  \/ /\ call \in Calls
     /\ outcome = NoOutcome
     /\ \A e \in call.offers : MeetsConstraints(e, call.current_qos)

MachineOK ==
  machine \in
    [state : {"Idle", "ProbeSent", "OffersReceived", "Contracted", "Failed"},
     contract_id : {"none", "uuid"}, selected_agent : Agent \cup {NoAgent}]

(* The inductive invariant.                                                *)
IInv ==
  /\ RegistryOK /\ IndexesAgree
  /\ MachineOK /\ CallOK /\ outcome \in Outcomes

-----------------------------------------------------------------------------
(* The two forms of IndexesAgree are the same.                             *)
LEMMA AgreeByAgent ==
  ASSUME RegistryOK
  PROVE  IndexesAgree <=> \A a \in Agent : AgentAgrees(a)
  <1>1. \A a : Filed(a) = {e \in UNION {by_task_type[t] : t \in TaskType} :
                             e.agent_id = a}
    BY DEF Filed
  <1>2. IndexesAgree <=>
          \A a \in Agent :
            /\ CapsOf(a) = {e.capability : e \in Filed(a)}
            /\ \A e, f \in Filed(a) :
                 e.capability.task_type = f.capability.task_type => e = f
    BY DEF IndexesAgree, Filed
  <1>3. ASSUME NEW a \in Agent
        PROVE  (/\ CapsOf(a) = {e.capability : e \in Filed(a)}
                /\ \A e, f \in Filed(a) :
                     e.capability.task_type = f.capability.task_type => e = f)
               <=> AgentAgrees(a)
    <2>1. \A e : e \in Filed(a) <=> \E t \in TaskType : e \in by_task_type[t] /\ e.agent_id = a
      BY DEF Filed
    <2>2. CapsOf(a) = {e.capability : e \in Filed(a)} <=>
            \A c : c \in CapsOf(a) <=>
              \E t \in TaskType : \E e \in by_task_type[t] :
                e.agent_id = a /\ e.capability = c
      BY <2>1
    <2>3. (\A e, f \in Filed(a) :
             e.capability.task_type = f.capability.task_type => e = f)
          <=> \A t \in TaskType : \A e, f \in by_task_type[t] :
                e.agent_id = a /\ f.agent_id = a => e = f
      BY <2>1 DEF RegistryOK
    <2>4. QED
      BY <2>2, <2>3 DEF AgentAgrees
  <1>4. QED
    BY <1>2, <1>3

(* register: the entry of the same task type is replaced in both indexes.  *)
LEMMA RegisterStep ==
  ASSUME RegistryOK, \A a \in Agent : AgentAgrees(a),
         NEW b \in Agent, NEW cap \in Capability, NEW trust \in Trust,
         Register(b, cap, trust)
  PROVE  RegistryOK' /\ \A a \in Agent : AgentAgrees(a)'
  <1> DEFINE t    == cap.task_type
             new  == [agent_id |-> b, capability |-> cap, trust_score |-> trust]
             caps == {c \in CapsOf(b) : c.task_type # t} \cup {cap}
  <1>1. /\ t \in TaskType /\ new \in Entry /\ new.agent_id = b /\ new.capability = cap
    BY HandshakeAssumption DEF CapabilityType, Entry
  <1>2. /\ by_task_type' = [by_task_type EXCEPT ![t] = Without(@, b) \cup {new}]
        /\ by_agent' = [a \in DOMAIN by_agent \cup {b} |->
                          IF a = b THEN caps ELSE by_agent[a]]
    BY DEF Register, WithCaps
  <1> HIDE DEF t, new
  <1>3. /\ by_task_type'[t] = {e \in by_task_type[t] : e.agent_id # b} \cup {new}
        /\ \A u \in TaskType : u # t => by_task_type'[u] = by_task_type[u]
        /\ by_task_type' \in [TaskType -> SUBSET Entry]
    BY <1>1, <1>2 DEF RegistryOK, Without
  <1>4. /\ CapsOf(b) \in SUBSET Capability
        /\ caps \in (SUBSET Capability) \ {{}}
    BY DEF RegistryOK, CapsOf
  <1>5. /\ CapsOf(b)' = caps
        /\ \A a \in Agent : a # b => CapsOf(a)' = CapsOf(a)
    <2> HIDE DEF caps
    <2>1. /\ DOMAIN by_agent' = DOMAIN by_agent \cup {b}
          /\ by_agent'[b] = caps
          /\ \A a \in DOMAIN by_agent : a # b => by_agent'[a] = by_agent[a]
      BY <1>2
    <2>2. QED
      BY <2>1 DEF CapsOf
  <1>6. RegistryOK'
    <2>1. \A u \in TaskType : \A e \in by_task_type'[u] : e.capability.task_type = u
      BY <1>1, <1>3 DEF RegistryOK, t
    <2>2. /\ DOMAIN by_agent' \subseteq Agent
          /\ by_agent' = [a \in DOMAIN by_agent' |-> by_agent'[a]]
          /\ \A a \in DOMAIN by_agent' : by_agent'[a] \in (SUBSET Capability) \ {{}}
      BY <1>2, <1>4 DEF RegistryOK
    <2>3. QED
      BY <1>3, <2>1, <2>2 DEF RegistryOK
  <1>7. ASSUME NEW a \in Agent, a # b PROVE AgentAgrees(a)'
    <2>1. \A u \in TaskType : \A e : e.agent_id = a =>
            (e \in by_task_type'[u] <=> e \in by_task_type[u])
      BY <1>1, <1>3, <1>7
    <2>2. QED
      BY <1>5, <1>7, <2>1 DEF AgentAgrees
  <1>8. AgentAgrees(b)'
    <2>1. ASSUME NEW c
          PROVE  c \in CapsOf(b)' <=>
                   \E u \in TaskType : \E e \in by_task_type'[u] :
                     e.agent_id = b /\ e.capability = c
      <3>1. c \in CapsOf(b) /\ c.task_type # t <=>
              \E u \in TaskType : u # t /\ \E e \in by_task_type[u] :
                e.agent_id = b /\ e.capability = c
        BY DEF AgentAgrees, RegistryOK
      <3>2. (\E e \in by_task_type'[t] : e.agent_id = b /\ e.capability = c) <=> c = cap
        BY <1>1, <1>3
      <3>3. QED
        BY <1>1, <1>3, <1>5, <3>1, <3>2
    <2>2. \A u \in TaskType : \A e, f \in by_task_type'[u] :
            e.agent_id = b /\ f.agent_id = b => e = f
      BY <1>3 DEF AgentAgrees
    <2>3. QED
      BY <2>1, <2>2 DEF AgentAgrees
  <1>9. QED
    BY <1>6, <1>7, <1>8

(* unregister: the agent leaves both indexes.                              *)
LEMMA UnregisterStep ==
  ASSUME RegistryOK, \A a \in Agent : AgentAgrees(a),
         NEW b \in Agent, Unregister(b)
  PROVE  RegistryOK' /\ \A a \in Agent : AgentAgrees(a)'
  <1>1. /\ by_task_type' = [t \in TaskType |-> {e \in by_task_type[t] : e.agent_id # b}]
        /\ by_agent' = [a \in DOMAIN by_agent \ {b} |-> by_agent[a]]
    BY DEF Unregister, Without, WithoutAgent
  <1>2. RegistryOK'
    BY <1>1 DEF RegistryOK
  <1>3. CapsOf(b)' = {} /\ \A a \in Agent : a # b => CapsOf(a)' = CapsOf(a)
    BY <1>1 DEF CapsOf
  <1>4. QED
    BY <1>1, <1>2, <1>3 DEF AgentAgrees

(* unregister_capability: one entry leaves both indexes, and the agent the *)
(* second one when it was the last.                                        *)
LEMMA UnregisterCapabilityStep ==
  ASSUME RegistryOK, \A a \in Agent : AgentAgrees(a),
         NEW b \in Agent, NEW t \in TaskType, UnregisterCapability(b, t)
  PROVE  RegistryOK' /\ \A a \in Agent : AgentAgrees(a)'
  <1> DEFINE caps == {c \in CapsOf(b) : c.task_type # t}
  <1>1. /\ by_task_type' = [by_task_type EXCEPT ![t] = {e \in @ : e.agent_id # b}]
        /\ by_agent' = IF caps = {} THEN [a \in DOMAIN by_agent \ {b} |-> by_agent[a]]
                       ELSE [a \in DOMAIN by_agent \cup {b} |->
                               IF a = b THEN caps ELSE by_agent[a]]
    BY DEF UnregisterCapability, Without, WithoutAgent, WithCaps
  <1>2. /\ by_task_type'[t] = {e \in by_task_type[t] : e.agent_id # b}
        /\ \A u \in TaskType : u # t => by_task_type'[u] = by_task_type[u]
        /\ by_task_type' \in [TaskType -> SUBSET Entry]
    BY <1>1 DEF RegistryOK
  <1>3. caps \in SUBSET Capability
    BY DEF RegistryOK, CapsOf
  <1>4. /\ CapsOf(b)' = caps
        /\ \A a \in Agent : a # b => CapsOf(a)' = CapsOf(a)
    <2> HIDE DEF caps
    <2>1. /\ caps = {} => b \notin DOMAIN by_agent'
          /\ caps # {} => b \in DOMAIN by_agent' /\ by_agent'[b] = caps
          /\ \A a \in Agent : a # b =>
               /\ a \in DOMAIN by_agent' <=> a \in DOMAIN by_agent
               /\ a \in DOMAIN by_agent => by_agent'[a] = by_agent[a]
      BY <1>1
    <2>2. QED
      BY <2>1 DEF CapsOf
  <1>5. /\ DOMAIN by_agent' \subseteq Agent
        /\ by_agent' = [a \in DOMAIN by_agent' |-> by_agent'[a]]
        /\ \A a \in DOMAIN by_agent' : by_agent'[a] \in (SUBSET Capability) \ {{}}
    BY <1>1, <1>3 DEF RegistryOK
  <1>6. RegistryOK'
    BY <1>2, <1>5 DEF RegistryOK
  <1>7. ASSUME NEW a \in Agent, a # b PROVE AgentAgrees(a)'
    BY <1>2, <1>4, <1>7 DEF AgentAgrees
  <1>8. AgentAgrees(b)'
    <2>1. ASSUME NEW c
          PROVE  c \in CapsOf(b)' <=>
                   \E u \in TaskType : \E e \in by_task_type'[u] :
                     e.agent_id = b /\ e.capability = c
      BY <1>2, <1>4 DEF AgentAgrees, RegistryOK
    <2>2. QED
      BY <1>2, <2>1 DEF AgentAgrees
  <1>9. QED
    BY <1>6, <1>7, <1>8

(* update_trust: entries keep their agent and their capability.            *)
LEMMA UpdateTrustStep ==
  ASSUME RegistryOK, \A a \in Agent : AgentAgrees(a),
         NEW b \in Agent, NEW t \in TaskType, NEW x \in RawTrust, UpdateTrust(b, t, x)
  PROVE  RegistryOK' /\ \A a \in Agent : AgentAgrees(a)'
  <1> DEFINE upd(e) == IF e.agent_id = b THEN [e EXCEPT !.trust_score = Clamp(x)] ELSE e
  <1>1. Clamp(x) \in 0..Unit
    BY HandshakeAssumption DEF Clamp, Unit
  <1>2. ASSUME NEW e \in Entry
        PROVE  upd(e) \in Entry /\ upd(e).agent_id = e.agent_id
                 /\ upd(e).capability = e.capability
    BY <1>1 DEF Entry
  <1>3. /\ by_task_type' = [by_task_type EXCEPT ![t] = {upd(e) : e \in @}]
        /\ by_agent' = by_agent
    BY DEF UpdateTrust
  <1> HIDE DEF upd
  <1>4. /\ by_task_type'[t] = {upd(e) : e \in by_task_type[t]}
        /\ \A u \in TaskType : u # t => by_task_type'[u] = by_task_type[u]
        /\ by_task_type[t] \in SUBSET Entry
    BY <1>3 DEF RegistryOK
  <1>5. by_task_type' \in [TaskType -> SUBSET Entry]
    BY <1>2, <1>3, <1>4 DEF RegistryOK
  <1>6. RegistryOK'
    BY <1>2, <1>3, <1>4, <1>5 DEF RegistryOK
  <1>7. ASSUME NEW a \in Agent PROVE AgentAgrees(a)'
    <2>1. CapsOf(a)' = CapsOf(a)
      BY <1>3 DEF CapsOf
    <2>2. \A c : (\E e \in by_task_type'[t] : e.agent_id = a /\ e.capability = c)
             <=> (\E e \in by_task_type[t] : e.agent_id = a /\ e.capability = c)
      BY <1>2, <1>4
    <2>3. \A e, f \in by_task_type'[t] : e.agent_id = a /\ f.agent_id = a => e = f
      BY <1>2, <1>4 DEF AgentAgrees
    <2>4. QED
      BY <1>4, <2>1, <2>2, <2>3 DEF AgentAgrees
  <1>8. QED
    BY <1>6, <1>7

(* Registry operations keep the indexes equal.                             *)
LEMMA RegistryStepAgrees ==
  ASSUME RegistryOK, IndexesAgree, RegistryStep
  PROVE  RegistryOK' /\ IndexesAgree'
  <1>1. \A a \in Agent : AgentAgrees(a)
    BY AgreeByAgent
  <1>2. RegistryOK' /\ \A a \in Agent : AgentAgrees(a)'
    BY <1>1, RegisterStep, UnregisterStep, UnregisterCapabilityStep, UpdateTrustStep
       DEF RegistryStep
  <1>3. (RegistryOK => (IndexesAgree <=> \A a \in Agent : AgentAgrees(a)))'
    BY AgreeByAgent, PTL
  <1>4. QED
    BY <1>2, <1>3

-----------------------------------------------------------------------------
(* Relaxing gives constraints again.                                       *)
LEMMA RelaxType ==
  ASSUME NEW qos \in QoSType PROVE Relax(qos) \in QoSType
  <1>1. /\ RelaxPct \in Nat /\ 100 - RelaxPct \in Nat /\ 100 + RelaxPct \in Nat
    BY HandshakeAssumption
  <1>2. \A x, k \in Nat : x * k \in Nat
    OBVIOUS
  <1>3. \A x \in Nat : x \div 100 \in Nat
    OBVIOUS
  <1>4. /\ qos.min_quality \in Nat /\ qos.max_latency \in Nat /\ qos.max_cost \in Nat
        /\ qos.min_trust \in Nat
    BY DEF QoSType
  <1>5. /\ (qos.min_quality * (100 - RelaxPct)) \div 100 \in Nat
        /\ (qos.max_latency * (100 + RelaxPct)) \div 100 \in Nat
        /\ (qos.max_cost * (100 + RelaxPct)) \div 100 \in Nat
        /\ (qos.min_trust * (100 - RelaxPct)) \div 100 \in Nat
    BY <1>1, <1>2, <1>3, <1>4
  <1>6. QED
    BY <1>5 DEF Relax, QoSType

(* The fields of an entry.                                                 *)
LEMMA EntryFields ==
  ASSUME NEW e \in Entry
  PROVE  /\ e.agent_id \in Agent /\ e.trust_score \in 0..Unit
         /\ e.capability.quality \in 0..Unit
         /\ e.capability.latency \in Nat /\ e.capability.cost \in Nat
  <1>1. e.agent_id \in Agent /\ e.capability \in Capability /\ e.trust_score \in 0..Unit
    BY DEF Entry
  <1>2. e.capability \in CapabilityType
    BY <1>1, HandshakeAssumption
  <1>3. QED
    BY <1>1, <1>2 DEF CapabilityType

(* The agreed terms are constraints.                                       *)
LEMMA AgreedType ==
  ASSUME NEW e \in Entry, NEW qos \in QoSType PROVE AgreedQoS(e, qos) \in QoSType
  <1>1. /\ e.capability.quality \in Nat /\ e.capability.latency \in Nat
        /\ e.capability.cost \in Nat /\ e.trust_score \in Nat
    BY EntryFields DEF Unit
  <1>2. /\ qos.min_quality \in Nat /\ qos.max_latency \in Nat /\ qos.max_cost \in Nat
        /\ qos.min_trust \in Nat
    BY DEF QoSType
  <1>3. QED
    BY <1>1, <1>2 DEF AgreedQoS, QoSType, Lesser, Greater

-----------------------------------------------------------------------------
(* A step of negotiate keeps the coordinator's part, and leaves the        *)
(* registry alone.                                                         *)
LEMMA NegotiationStepOK ==
  ASSUME RegistryOK, MachineOK, CallOK, outcome \in Outcomes, NegotiationStep
  PROVE  /\ MachineOK' /\ CallOK' /\ outcome' \in Outcomes /\ UNCHANGED registry
  <1> USE DEF NoCall
  <1>1. call # NoCall => /\ call \in Calls /\ outcome = NoOutcome
                         /\ \A e \in call.offers : MeetsConstraints(e, call.current_qos)
    BY DEF CallOK
  <1>2. \A r \in {"none", "InvalidTransition", "NegotiationFailed", "NoCapableAgents"} :
          [result |-> r] \in Outcomes
    BY DEF Outcomes
  <1>3. CASE RefuseReuse
    BY <1>2, <1>3 DEF RefuseReuse, MachineOK, CallOK, registry
  <1>4. CASE Probe
    <2>1. /\ call \in Calls /\ outcome = NoOutcome
      BY <1>1, <1>4 DEF Probe
    <2> DEFINE found == FindCapable(call.task_type, call.current_qos)
    <2>2. /\ found \in SUBSET Entry
          /\ \A e \in found : MeetsConstraints(e, call.current_qos)
      BY <2>1 DEF FindCapable, RegistryOK, Calls
    <2>3. /\ machine' = [machine EXCEPT !.state = "ProbeSent"]
          /\ call' = [call EXCEPT !.pc = "probed", !.offers = found]
          /\ UNCHANGED <<registry, outcome>>
      BY <1>4 DEF Probe, OnProbeSent
    <2> HIDE DEF found
    <2>4. /\ call' \in Calls /\ call'.offers = found
          /\ call'.current_qos = call.current_qos
      BY <2>1, <2>2, <2>3 DEF Calls
    <2>5. MachineOK'
      BY <2>3 DEF MachineOK
    <2>6. \A e \in call'.offers : MeetsConstraints(e, call'.current_qos)
      BY <2>2, <2>4
    <2>7. CallOK'
      BY <2>1, <2>3, <2>4, <2>6 DEF CallOK, MeetsConstraints
    <2>8. QED
      BY <2>3, <2>5, <2>7
  <1>5. ASSUME call.pc = "probed", NEW x \in BOOLEAN, GiveUpOrRetry(x)
        PROVE  MachineOK' /\ CallOK' /\ outcome' \in Outcomes
    <2>1. call \in Calls /\ outcome = NoOutcome
      BY <1>1, <1>5
    <2>2. CASE call' = NoCall
      BY <1>2, <1>5, <2>2 DEF GiveUpOrRetry, MachineOK, CallOK, OnFailure, ResetForRetry,
                              NewMachine
    <2>3. CASE call' # NoCall
      <3>1. /\ call.attempt < max_attempts /\ machine' = NewMachine /\ outcome' = outcome
            /\ call' = [call EXCEPT !.pc = "attempt", !.attempt = call.attempt + 1,
                          !.current_qos = Relax(call.current_qos), !.offers = {},
                          !.anyExpired = call.anyExpired \/ x]
        BY <1>5, <2>3 DEF GiveUpOrRetry, ResetForRetry
      <3>2. /\ call.attempt + 1 \in 1..(MaxRetries + 1)
            /\ Relax(call.current_qos) \in QoSType
            /\ (call.anyExpired \/ x) \in BOOLEAN
        BY <2>1, <3>1, RelaxType, HandshakeAssumption DEF Calls, max_attempts
      <3>3. call' \in Calls /\ call'.offers = {}
        BY <2>1, <3>1, <3>2 DEF Calls
      <3>4. MachineOK'
        BY <3>1 DEF MachineOK, NewMachine
      <3>5. CallOK'
        BY <2>1, <3>1, <3>3 DEF CallOK
      <3>6. QED
        BY <3>1, <3>4, <3>5
    <2>4. QED
      BY <2>2, <2>3
  <1>6. CASE NoneCapable
    BY <1>5, <1>6 DEF NoneCapable
  <1>7. CASE AllExpired
    BY <1>5, <1>7 DEF AllExpired
  <1>8. ASSUME NEW valid \in SUBSET call.offers, CollectOffers(valid)
        PROVE  MachineOK' /\ CallOK' /\ outcome' \in Outcomes /\ UNCHANGED registry
    <2>1. call \in Calls /\ outcome = NoOutcome
      BY <1>1, <1>8 DEF CollectOffers
    <2>2. /\ machine' = [machine EXCEPT !.state = "OffersReceived"]
          /\ call' = [call EXCEPT !.pc = "offered", !.offers = valid,
                        !.anyExpired = call.anyExpired \/ valid # call.offers]
          /\ UNCHANGED <<registry, outcome>>
      BY <1>8 DEF CollectOffers, OnOffersReceived
    <2>3. (call.anyExpired \/ valid # call.offers) \in BOOLEAN
      OBVIOUS
    <2>4. /\ call' \in Calls /\ call'.offers = valid
          /\ call'.current_qos = call.current_qos
      BY <2>1, <2>2, <2>3 DEF Calls
    <2>5. \A e \in call'.offers : MeetsConstraints(e, call'.current_qos)
      BY <1>1, <1>8, <2>4 DEF CollectOffers
    <2>6. CallOK'
      BY <2>1, <2>2, <2>4, <2>5 DEF CallOK, MeetsConstraints
    <2>7. MachineOK'
      BY <2>2 DEF MachineOK
    <2>8. QED
      BY <2>2, <2>6, <2>7
  <1>9. ASSUME NEW best \in call.offers, Accept(best)
        PROVE  MachineOK' /\ CallOK' /\ outcome' \in Outcomes /\ UNCHANGED registry
    <2>1. call \in Calls
      BY <1>1, <1>9 DEF Accept
    <2>2. /\ best \in Entry /\ best.agent_id \in Agent
          /\ call.current_qos \in QoSType /\ call.original \in QoSType
          /\ call.attempt \in 1..(MaxRetries + 1)
      BY <2>1, EntryFields DEF Calls
    <2>3. AgreedQoS(best, call.current_qos) \in QoSType
      BY <2>2, AgreedType
    <2>4. outcome' \in Outcomes
      BY <1>9, <2>2, <2>3 DEF Accept, Outcomes
    <2>5. MachineOK'
      BY <1>9, <2>2 DEF Accept, OnContractAccepted, MachineOK
    <2>6. CallOK' /\ UNCHANGED registry
      BY <1>9 DEF Accept, CallOK
    <2>7. QED
      BY <2>4, <2>5, <2>6
  <1>10. NoneCapable \/ AllExpired => UNCHANGED registry
    BY DEF NoneCapable, AllExpired
  <1>11. QED
    BY <1>3, <1>4, <1>6, <1>7, <1>8, <1>9, <1>10 DEF NegotiationStep

(* Every step keeps the invariant.                                         *)
LEMMA InvStep == IInv /\ [Next]_vars => IInv'
  <1> SUFFICES ASSUME IInv, [Next]_vars PROVE IInv'
    OBVIOUS
  <1>1. /\ RegistryOK /\ IndexesAgree
        /\ MachineOK /\ CallOK /\ outcome \in Outcomes
    BY DEF IInv
  <1>2. NoOutcome \in Outcomes
    BY DEF NoOutcome, Outcomes
  <1>3. UNCHANGED registry => RegistryOK' /\ IndexesAgree'
    BY <1>1 DEF registry, RegistryOK, IndexesAgree, CapsOf
  <1>4. CASE RegistryStep
    <2>1. RegistryOK' /\ IndexesAgree'
      BY <1>1, <1>4, RegistryStepAgrees
    <2>2. BetweenCalls
      BY <1>4 DEF RegistryStep, Register, Unregister, UnregisterCapability, UpdateTrust
    <2>3. MachineOK' /\ CallOK' /\ outcome' \in Outcomes
      BY <1>1, <1>2, <2>2 DEF BetweenCalls, MachineOK, CallOK
    <2>4. QED
      BY <2>1, <2>3 DEF IInv
  <1>5. ASSUME NEW t \in TaskType, NEW qos \in QoS, Negotiate(t, qos) PROVE IInv'
    <2>1. qos \in QoSType /\ 1 \in 1..(MaxRetries + 1)
      BY HandshakeAssumption
    <2>2. call' \in Calls /\ call'.offers = {} /\ outcome' = NoOutcome
      BY <1>5, <2>1 DEF Negotiate, Calls
    <2>3. UNCHANGED <<registry, machine>>
      BY <1>5 DEF Negotiate
    <2>4. CallOK'
      BY <2>2 DEF CallOK
    <2>5. MachineOK'
      BY <1>1, <2>3 DEF MachineOK
    <2>6. QED
      BY <1>2, <1>3, <2>2, <2>3, <2>4, <2>5 DEF IInv
  <1>6. CASE NegotiationStep
    BY <1>1, <1>3, <1>6, NegotiationStepOK DEF IInv
  <1>7. CASE NewCoordinator
    <2>1. call = NoCall /\ machine' = NewMachine /\ outcome' = NoOutcome
            /\ UNCHANGED <<registry, call>>
      BY <1>7 DEF NewCoordinator
    <2>2. MachineOK' /\ CallOK'
      BY <2>1 DEF MachineOK, NewMachine, CallOK, NoCall
    <2>3. QED
      BY <1>2, <1>3, <2>1, <2>2 DEF IInv
  <1>8. CASE UNCHANGED vars
    <2>1. UNCHANGED <<registry, machine, call, outcome>>
      BY <1>8 DEF vars, registry
    <2>2. MachineOK' /\ CallOK' /\ outcome' \in Outcomes
      BY <1>1, <2>1 DEF MachineOK, CallOK, MeetsConstraints, NoCall, NoOutcome
    <2>3. QED
      BY <1>3, <2>1, <2>2 DEF IInv
  <1>9. QED
    BY <1>4, <1>5, <1>6, <1>7, <1>8 DEF Next

(* The invariant holds throughout.                                         *)
LEMMA Invariance == Spec => []IInv
  <1>1. Init => IInv
    <2> SUFFICES ASSUME Init PROVE IInv
      OBVIOUS
    <2>1. RegistryOK
      BY DEF Init, RegistryOK
    <2>2. IndexesAgree
      BY DEF Init, IndexesAgree, CapsOf
    <2>3. MachineOK /\ CallOK /\ outcome \in Outcomes
      BY DEF Init, MachineOK, NewMachine, CallOK, NoOutcome, Outcomes
    <2>4. QED
      BY <2>1, <2>2, <2>3 DEF IInv
  <1>2. QED
    BY <1>1, InvStep, PTL DEF Spec

-----------------------------------------------------------------------------
(* The recursive function RelaxedBy relaxes once more at every retry.      *)
LEMMA RelaxedSteps ==
  ASSUME NEW qos
  PROVE  /\ RelaxedBy(qos)[0] = qos
         /\ \A n \in 1..MaxRetries :
              RelaxedBy(qos)[n] = Relax(RelaxedBy(qos)[n - 1])
  <1> DEFINE Defines(f, k) ==
               f = [n \in 0..k |-> IF n = 0 THEN qos ELSE Relax(f[n - 1])]
             S == {k \in Nat : \E f : Defines(f, k)}
  <1>1. 0 \in S
    <2>1. Defines([n \in 0..0 |-> qos], 0)
      OBVIOUS
    <2>2. QED
      BY <2>1
  <1>2. ASSUME NEW k \in Nat, k \in S PROVE k + 1 \in S
    <2>1. PICK f : Defines(f, k)
      BY <1>2
    <2> DEFINE g == [n \in 0..(k + 1) |-> IF n = 0 THEN qos ELSE Relax(f[n - 1])]
    <2>2. \A n \in 0..k : g[n] = f[n]
      BY <2>1
    <2>3. \A n \in 0..(k + 1) : n # 0 => g[n - 1] = f[n - 1]
      BY <2>2
    <2>4. g = [n \in 0..(k + 1) |-> IF n = 0 THEN qos ELSE Relax(f[n - 1])]
      OBVIOUS
    <2> HIDE DEF g
    <2>5. Defines(g, k + 1)
      BY <2>3, <2>4
    <2> HIDE DEF Defines
    <2>6. QED
      BY <2>5
  <1>3. \E f : Defines(f, MaxRetries)
    <2> HIDE DEF S
    <2>1. Nat \subseteq S
      BY <1>1, <1>2, SetInduction
    <2>2. MaxRetries \in S
      BY <2>1, HandshakeAssumption
    <2>3. QED
      BY <2>2 DEF S
  <1>4. Defines(RelaxedBy(qos), MaxRetries)
    BY <1>3 DEF RelaxedBy
  <1>5. QED
    BY <1>4, HandshakeAssumption

(* What a running call has done so far: the constraints have been relaxed  *)
(* once per retry, no earlier attempt found anybody unless offers expired, *)
(* and the offers are of agents that are registered now.                   *)
CapableAfter(n) == FindCapable(call.task_type, RelaxedBy(call.original)[n])

RetryOK ==
  call # NoCall =>
    /\ call.current_qos = RelaxedBy(call.original)[call.attempt - 1]
    /\ call.anyExpired \/ \A n \in 0..(call.attempt - 2) : CapableAfter(n) = {}
    /\ call.pc = "probed" =>
         call.offers = FindCapable(call.task_type, call.current_qos)
    /\ call.pc = "offered" =>
         call.offers \subseteq FindCapable(call.task_type, call.current_qos)

(* Every step keeps it: nothing changes the registry during a call.        *)
LEMMA RetryStep == IInv /\ RetryOK /\ [Next]_vars => RetryOK'
  <1> SUFFICES ASSUME IInv, RetryOK, [Next]_vars, call' # NoCall
               PROVE  RetryOK'
    BY DEF RetryOK, NoCall
  <1>1. call = NoCall \/ call \in Calls
    BY DEF IInv, CallOK
  <1>2. ASSUME UNCHANGED by_task_type, call # NoCall,
               call'.task_type = call.task_type, call'.original = call.original
        PROVE  /\ \A n : CapableAfter(n)' = CapableAfter(n)
               /\ \A q : FindCapable(call.task_type, q)' = FindCapable(call.task_type, q)
    BY <1>2 DEF CapableAfter, FindCapable, MeetsConstraints, RelaxedBy, Relax
  <1>3. CASE RegistryStep \/ NewCoordinator
    BY <1>3 DEF RegistryStep, Register, Unregister, UnregisterCapability, UpdateTrust,
                BetweenCalls, NewCoordinator
  <1>4. ASSUME NEW t \in TaskType, NEW qos \in QoS, Negotiate(t, qos) PROVE RetryOK'
    <2>1. call'.current_qos = qos /\ call'.original = qos /\ call'.attempt = 1
            /\ call'.pc = "attempt"
      BY <1>4 DEF Negotiate
    <2>2. call'.current_qos = RelaxedBy(call'.original)[call'.attempt - 1]
      BY <2>1, RelaxedSteps
    <2>3. 0..(call'.attempt - 2) = {}
      BY <2>1
    <2>4. QED
      BY <2>1, <2>2, <2>3 DEF RetryOK
  <1>5. CASE Probe
    <2>1. call \in Calls
      BY <1>1, <1>5 DEF Probe, NoCall
    <2>2. /\ call'.pc = "probed" /\ call'.task_type = call.task_type
          /\ call'.original = call.original /\ call'.current_qos = call.current_qos
          /\ call'.attempt = call.attempt /\ call'.anyExpired = call.anyExpired
          /\ call'.offers = FindCapable(call.task_type, call.current_qos)
          /\ UNCHANGED by_task_type
      BY <1>5, <2>1 DEF Probe, Calls, registry
    <2>3. QED
      BY <1>1, <1>2, <2>1, <2>2 DEF RetryOK, NoCall, Calls
  <1>6. ASSUME call.pc = "probed", NEW x \in BOOLEAN, GiveUpOrRetry(x), UNCHANGED registry,
               x = FALSE => call.offers = {}
        PROVE  RetryOK'
    <2>1. call \in Calls /\ call # NoCall
      BY <1>1, <1>6 DEF NoCall
    <2>2. /\ call.attempt < max_attempts
          /\ call' = [call EXCEPT !.pc = "attempt", !.attempt = call.attempt + 1,
                        !.current_qos = Relax(call.current_qos), !.offers = {},
                        !.anyExpired = call.anyExpired \/ x]
          /\ UNCHANGED by_task_type
      BY <1>6 DEF GiveUpOrRetry, registry
    <2>3. /\ call'.pc = "attempt" /\ call'.task_type = call.task_type
          /\ call'.original = call.original
          /\ call'.current_qos = Relax(call.current_qos)
          /\ call'.attempt = call.attempt + 1
          /\ call.anyExpired \/ x => call'.anyExpired
      BY <2>1, <2>2 DEF Calls
    <2>4. call.attempt \in 1..MaxRetries
      BY <2>1, <2>2, HandshakeAssumption DEF Calls, max_attempts
    <2>5. call'.current_qos = RelaxedBy(call'.original)[call'.attempt - 1]
      BY <2>1, <2>3, <2>4, RelaxedSteps DEF RetryOK
    <2>6. call'.anyExpired \/ \A n \in 0..(call'.attempt - 2) : CapableAfter(n)' = {}
      <3>1. /\ call'.attempt - 2 = call.attempt - 1
            /\ \A n : CapableAfter(n)' = CapableAfter(n)
        BY <1>2, <2>1, <2>2, <2>3, <2>4
      <3>2. SUFFICES ASSUME x = FALSE, ~call.anyExpired
                     PROVE  \A n \in 0..(call.attempt - 1) : CapableAfter(n) = {}
        BY <2>3, <3>1
      <3>3. \A n \in 0..(call.attempt - 2) : CapableAfter(n) = {}
        BY <2>1, <3>2 DEF RetryOK
      <3>4. CapableAfter(call.attempt - 1) = {}
        BY <1>6, <2>1, <3>2 DEF RetryOK, CapableAfter
      <3>5. QED
        BY <2>4, <3>3, <3>4
    <2>7. QED
      BY <2>3, <2>5, <2>6 DEF RetryOK
  <1>7. CASE NoneCapable
    BY <1>6, <1>7 DEF NoneCapable
  <1>8. CASE AllExpired
    BY <1>6, <1>8 DEF AllExpired
  <1>9. ASSUME NEW valid \in SUBSET call.offers, CollectOffers(valid) PROVE RetryOK'
    <2>1. call \in Calls /\ call # NoCall /\ call.pc = "probed"
      BY <1>1, <1>9 DEF CollectOffers, NoCall
    <2>2. /\ call'.pc = "offered" /\ call'.task_type = call.task_type
          /\ call'.original = call.original /\ call'.current_qos = call.current_qos
          /\ call'.attempt = call.attempt /\ (call.anyExpired => call'.anyExpired)
          /\ call'.offers = valid
          /\ UNCHANGED by_task_type
      BY <1>9, <2>1 DEF CollectOffers, Calls, registry
    <2>3. QED
      BY <1>2, <2>1, <2>2 DEF RetryOK
  <1>10. CASE RefuseReuse \/ \E best \in call.offers : Accept(best)
    BY <1>10 DEF RefuseReuse, Accept
  <1>11. CASE UNCHANGED vars
    <2>1. call' = call /\ UNCHANGED by_task_type
      BY <1>11 DEF vars
    <2>2. QED
      BY <1>2, <2>1 DEF RetryOK
  <1>12. QED
    BY <1>3, <1>4, <1>5, <1>7, <1>8, <1>9, <1>10, <1>11 DEF Next, NegotiationStep

-----------------------------------------------------------------------------
(* Multiplying keeps the order of natural numbers.                         *)
LEMMA TimesMono ==
  \A x, y, k \in Nat : /\ x <= y => x * k <= y * k
                       /\ x < y /\ k >= 1 => x * k < y * k
  OBVIOUS

(* A latency or cost within its bound scores higher the lower it is.       *)
LEMMA InvertedMono ==
  ASSUME NEW max \in Nat, NEW x \in Nat, NEW y \in Nat, x <= max, y <= max, x <= y
  PROVE  /\ Inverted(x, max) \in Nat /\ Inverted(y, max) \in Nat
         /\ Inverted(y, max) <= Inverted(x, max)
         /\ x < y => Inverted(y, max) < Inverted(x, max)
  BY DEF Inverted

(* Of two offers that meet the constraints, the dominating one scores      *)
(* higher: each term of the weighted sum is monotone.                      *)
LEMMA DominatesScores ==
  ASSUME NEW qos \in QoSType, NEW e \in Entry, NEW f \in Entry,
         MeetsConstraints(e, qos), MeetsConstraints(f, qos), Dominates(e, f)
  PROVE  ~(Score(f, qos) >= Score(e, qos))
  <1> DEFINE L  == Den(qos.max_latency)
             C  == Den(qos.max_cost)
             q1 == e.capability.quality
             q2 == f.capability.quality
             l1 == Inverted(e.capability.latency, qos.max_latency)
             l2 == Inverted(f.capability.latency, qos.max_latency)
             c1 == Inverted(e.capability.cost, qos.max_cost)
             c2 == Inverted(f.capability.cost, qos.max_cost)
             t1 == e.trust_score
             t2 == f.trust_score
             W  == L * C
  <1>1. /\ q1 \in Nat /\ q2 \in Nat /\ t1 \in Nat /\ t2 \in Nat
        /\ Clamp(t1) = t1 /\ Clamp(t2) = t2
        /\ e.capability.latency \in Nat /\ f.capability.latency \in Nat
        /\ e.capability.cost \in Nat /\ f.capability.cost \in Nat
    BY EntryFields DEF Clamp, Unit
  <1>2. qos.max_latency \in Nat /\ qos.max_cost \in Nat
    BY DEF QoSType
  <1>3. L \in Nat /\ L >= 1 /\ C \in Nat /\ C >= 1
    BY <1>2 DEF Den
  <1>4. W \in Nat /\ W >= 1
    BY <1>3
  <1>5. /\ l1 \in Nat /\ l2 \in Nat /\ l2 <= l1
        /\ e.capability.latency < f.capability.latency => l2 < l1
    BY <1>1, <1>2, InvertedMono DEF MeetsConstraints, Dominates
  <1>6. /\ c1 \in Nat /\ c2 \in Nat /\ c2 <= c1
        /\ e.capability.cost < f.capability.cost => c2 < c1
    BY <1>1, <1>2, InvertedMono DEF MeetsConstraints, Dominates
  <1>7. /\ q2 <= q1 /\ t2 <= t1
        /\ q2 < q1 \/ l2 < l1 \/ c2 < c1 \/ t2 < t1
    BY <1>1, <1>5, <1>6 DEF Dominates
  <1>8. /\ Score(e, qos) = 35 * q1 * L * C + 20 * Unit * l1 * C + 15 * Unit * c1 * L
                             + 30 * t1 * L * C
        /\ Score(f, qos) = 35 * q2 * L * C + 20 * Unit * l2 * C + 15 * Unit * c2 * L
                             + 30 * t2 * L * C
    BY <1>1 DEF Score
  <1> HIDE DEF L, C, q1, q2, l1, l2, c1, c2, t1, t2
  <1>9. /\ Score(e, qos) = 35 * (q1 * W) + 2000 * (l1 * C) + 1500 * (c1 * L) + 30 * (t1 * W)
        /\ Score(f, qos) = 35 * (q2 * W) + 2000 * (l2 * C) + 1500 * (c2 * L) + 30 * (t2 * W)
    BY <1>1, <1>3, <1>5, <1>6, <1>8 DEF Unit
  <1> HIDE DEF W
  <1>10. /\ q2 * W <= q1 * W /\ l2 * C <= l1 * C /\ c2 * L <= c1 * L /\ t2 * W <= t1 * W
         /\ q2 * W < q1 * W \/ l2 * C < l1 * C \/ c2 * L < c1 * L \/ t2 * W < t1 * W
    BY <1>1, <1>3, <1>4, <1>5, <1>6, <1>7, TimesMono
  <1>11. /\ q1 * W \in Nat /\ q2 * W \in Nat /\ l1 * C \in Nat /\ l2 * C \in Nat
         /\ c1 * L \in Nat /\ c2 * L \in Nat /\ t1 * W \in Nat /\ t2 * W \in Nat
    BY <1>1, <1>3, <1>4, <1>5, <1>6
  <1>12. QED
    BY <1>9, <1>10, <1>11

-----------------------------------------------------------------------------
(* The registry and the coordinator stay well-formed; trust scores stay    *)
(* between 0 and 1 whatever update_trust is given.                         *)
THEOREM TypeCorrect == Spec => []TypeOK
  <1>1. IInv => TypeOK
    BY DEF IInv, RegistryOK, MachineOK, CallOK, TypeOK
  <1>2. QED
    BY <1>1, Invariance, PTL

(* The two indexes that the registry keeps by hand describe the same       *)
(* capabilities after any sequence of operations.                          *)
THEOREM IndexesStayEqual == Spec => []IndexesAgree
  <1>1. IInv => IndexesAgree
    BY DEF IInv
  <1>2. QED
    BY <1>1, Invariance, PTL

(* The ranking of select_best never prefers an offer to one that is at     *)
(* least as good in every respect and better in one.                       *)
THEOREM ContractsUndominated == Spec => ContractUndominated
  <1> DEFINE Undominated == outcome'.result = "Contracted" /\ call # NoCall =>
                              ~ \E e \in call.offers : Dominates(e, outcome'.offer)
  <1>1. ASSUME IInv, Next PROVE Undominated
    <2> SUFFICES ASSUME outcome'.result = "Contracted", call # NoCall
                 PROVE  ~ \E e \in call.offers : Dominates(e, outcome'.offer)
      OBVIOUS
    <2>1. /\ call \in Calls /\ outcome = NoOutcome
          /\ \A e \in call.offers : MeetsConstraints(e, call.current_qos)
      BY <1>1 DEF IInv, CallOK
    <2>2. outcome' # NoOutcome
      BY DEF NoOutcome
    <2>3. PICK best \in call.offers : Accept(best)
      <3>1. ~RegistryStep /\ ~NewCoordinator /\ ~\E t \in TaskType, qos \in QoS : Negotiate(t, qos)
        BY DEF RegistryStep, Register, Unregister, UnregisterCapability, UpdateTrust,
               BetweenCalls, NewCoordinator, Negotiate
      <3>2. ~RefuseReuse /\ ~Probe /\ ~NoneCapable /\ ~AllExpired
        BY <2>1, <2>2 DEF RefuseReuse, Probe, NoneCapable, AllExpired, GiveUpOrRetry
      <3>3. ~\E valid \in SUBSET call.offers : CollectOffers(valid)
        BY <2>1, <2>2 DEF CollectOffers
      <3>4. QED
        BY <1>1, <3>1, <3>2, <3>3 DEF Next, NegotiationStep
    <2>4. /\ outcome'.offer = best
          /\ \A e \in call.offers : Score(best, call.current_qos) >= Score(e, call.current_qos)
      BY <2>3 DEF Accept, RankedFirst
    <2>5. call.current_qos \in QoSType /\ call.offers \in SUBSET Entry
      BY <2>1 DEF Calls
    <2>6. QED
      BY <2>1, <2>3, <2>4, <2>5, DominatesScores
  <1>2. IInv /\ [Next]_vars => [Undominated]_vars
    BY <1>1
  <1>3. QED
    BY <1>2, Invariance, PTL DEF Spec, ContractUndominated

(* negotiate relaxes no further than it must: a contract after n retries   *)
(* goes to an agent that meets the constraints relaxed n times, after      *)
(* fewer relaxations nobody met them unless offers expired, and            *)
(* NoCapableAgents means that nobody meets them relaxed max_retries times. *)
THEOREM RelaxesLeast == Spec => LeastRelaxation
  <1> DEFINE Capable(n) == FindCapable(call.task_type, RelaxedBy(call.original)[n])
             LeastRelaxed ==
               /\ outcome'.result = "Contracted" /\ call # NoCall =>
                    /\ outcome'.offer \in Capable(call.attempt - 1)
                    /\ call.anyExpired
                         \/ \A n \in 0..(call.attempt - 2) : Capable(n) = {}
               /\ outcome'.result = "NoCapableAgents" /\ call # NoCall =>
                    Capable(MaxRetries) = {}
  <1>1. ASSUME IInv, RetryOK, Next PROVE LeastRelaxed
    <2> SUFFICES ASSUME outcome'.result \in {"Contracted", "NoCapableAgents"}, call # NoCall
                 PROVE  LeastRelaxed
      OBVIOUS
    <2>1. /\ call \in Calls /\ outcome = NoOutcome
      BY <1>1 DEF IInv, CallOK
    <2>2. outcome' # outcome
      BY <2>1 DEF NoOutcome
    <2>3. NoneCapable \/ \E best \in call.offers : Accept(best)
      <3>1. ~RegistryStep /\ ~NewCoordinator /\ ~\E t \in TaskType, qos \in QoS : Negotiate(t, qos)
        BY DEF RegistryStep, Register, Unregister, UnregisterCapability, UpdateTrust,
               BetweenCalls, NewCoordinator, Negotiate
      <3>2. ~RefuseReuse /\ ~Probe /\ ~AllExpired
        BY <2>1, <2>2 DEF RefuseReuse, Probe, AllExpired, GiveUpOrRetry
      <3>3. ~\E valid \in SUBSET call.offers : CollectOffers(valid)
        BY <2>2 DEF CollectOffers
      <3>4. QED
        BY <1>1, <3>1, <3>2, <3>3 DEF Next, NegotiationStep
    <2>4. CASE NoneCapable
      <3>1. /\ call.pc = "probed" /\ call.offers = {} /\ call.attempt = MaxRetries + 1
            /\ outcome'.result = "NoCapableAgents"
        BY <2>1, <2>2, <2>4, HandshakeAssumption
           DEF NoneCapable, GiveUpOrRetry, Calls, max_attempts
      <3>2. call.attempt - 1 = MaxRetries
        BY <3>1, HandshakeAssumption
      <3>3. QED
        BY <1>1, <3>1, <3>2 DEF RetryOK
    <2>5. CASE \E best \in call.offers : Accept(best)
      <3>1. PICK best \in call.offers : Accept(best)
        BY <2>5
      <3>2. /\ outcome'.result = "Contracted" /\ outcome'.offer = best
            /\ call.pc = "offered"
        BY <3>1 DEF Accept
      <3>3. QED
        BY <1>1, <3>1, <3>2 DEF RetryOK, CapableAfter
    <2>6. QED
      BY <2>3, <2>4, <2>5
  <1>2. IInv /\ RetryOK /\ [Next]_vars => [LeastRelaxed]_vars
    BY <1>1
  <1>3. Init => RetryOK
    BY DEF Init, RetryOK
  <1>4. Spec => []RetryOK
    BY <1>3, RetryStep, Invariance, PTL DEF Spec
  <1>5. QED
    BY <1>2, <1>4, Invariance, PTL DEF Spec, LeastRelaxation

=============================================================================
