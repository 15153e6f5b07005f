----------------------------- MODULE Handshake -----------------------------
(***************************************************************************)
(* Layer 2 (crates/atp-handshake): the capability registry and the three   *)
(* phase probe / offer / contract negotiation that a HandshakeCoordinator  *)
(* drives over it, with QoS relaxation and retries.                        *)
(*                                                                         *)
(* negotiate() borrows the registry for the whole call, so registry        *)
(* operations and negotiations alternate; the negotiation itself is split  *)
(* at the transitions of its state machine.                                *)
(*                                                                         *)
(* Real-valued data is scaled to integers: quality and trust 1.0 is Unit,  *)
(* latency and cost count in any unit.  The two indexes' vectors are sets: *)
(* their order only breaks ties between equal scores, and the model leaves *)
(* a tie open.  A contract id is a fresh uuid: only its presence matters.  *)
(***************************************************************************)
EXTENDS Integers, FiniteSets

CONSTANTS
  Agent,          \* candidate agents
  TaskType,       \* task categories
  Capability,     \* capabilities agents may advertise (see CapabilityType)
  QoS,            \* constraints a requester may ask for
  Trust,          \* trust scores passed to register (already in 0..Unit)
  RawTrust,       \* trust scores passed to update_trust (unclamped)
  RelaxPct,       \* HandshakeConfig.relaxation_factor, in percent
  MaxRetries      \* HandshakeConfig.max_retries

Unit == 100

CapabilityType ==
  [task_type : TaskType, quality : 0..Unit, latency : Nat, cost : Nat]

QoSType ==
  [min_quality : Nat, max_latency : Nat, max_cost : Nat, min_trust : Nat]

ASSUME HandshakeAssumption ==
  /\ Capability \subseteq CapabilityType
  /\ QoS \subseteq QoSType
  /\ Trust \subseteq 0..Unit /\ RawTrust \subseteq Int
  /\ RelaxPct \in 1..99 /\ MaxRetries \in Nat

NoAgent == "no agent"

Entry == [agent_id : Agent, capability : Capability, trust_score : 0..Unit]

VARIABLES
  by_task_type,   \* primary index: task type -> entries
  by_agent,       \* secondary index: registered agent -> capabilities
  machine,        \* HandshakeStateMachine of the current coordinator
  call,           \* locals of the running negotiate(), see Calls
  outcome         \* what the last negotiate() returned

vars == <<by_task_type, by_agent, machine, call, outcome>>
registry == <<by_task_type, by_agent>>

-----------------------------------------------------------------------------
(* The registry.  Its operations need it mutably, so no call is running.   *)

NoCall == [pc |-> "returned", offers |-> {}]

NoOutcome == [result |-> "none"]

BetweenCalls ==
  /\ call = NoCall
  /\ outcome' = NoOutcome
  /\ UNCHANGED <<machine, call>>

Without(entries, a) == {e \in entries : e.agent_id # a}

(* The agent's capability list, empty when the map has no such key.        *)
CapsOf(a) == IF a \in DOMAIN by_agent THEN by_agent[a] ELSE {}

WithCaps(a, caps) ==
  [b \in DOMAIN by_agent \cup {a} |-> IF b = a THEN caps ELSE by_agent[b]]

WithoutAgent(a) == [b \in DOMAIN by_agent \ {a} |-> by_agent[b]]

Register(a, cap, trust) ==
  LET t == cap.task_type
      new == [agent_id |-> a, capability |-> cap, trust_score |-> trust]
  IN /\ BetweenCalls
     /\ by_task_type' =
          [by_task_type EXCEPT ![t] = Without(@, a) \cup {new}]
     /\ by_agent' =
          WithCaps(a, {c \in CapsOf(a) : c.task_type # t} \cup {cap})

Unregister(a) ==
  /\ BetweenCalls
  /\ by_task_type' = [t \in TaskType |-> Without(by_task_type[t], a)]
  /\ by_agent' = WithoutAgent(a)

(* Slip: only the primary index is cleaned.                                *)
UnregisterPrimaryOnly(a, t) ==
  /\ BetweenCalls
  /\ by_task_type' = [by_task_type EXCEPT ![t] = Without(@, a)]
  /\ UNCHANGED by_agent

UnregisterCapability(a, t) ==
  LET caps == {c \in CapsOf(a) : c.task_type # t}
  IN /\ BetweenCalls
     /\ by_task_type' = [by_task_type EXCEPT ![t] = Without(@, a)]
     /\ by_agent' = IF caps = {} THEN WithoutAgent(a) ELSE WithCaps(a, caps)

Clamp(x) == IF x < 0 THEN 0 ELSE IF x > Unit THEN Unit ELSE x

UpdateTrust(a, t, new_trust) ==
  /\ BetweenCalls
  /\ by_task_type' = [by_task_type EXCEPT ![t] =
       {IF e.agent_id = a THEN [e EXCEPT !.trust_score = Clamp(new_trust)]
                          ELSE e : e \in @}]
  /\ UNCHANGED by_agent

MeetsConstraints(e, qos) ==
  /\ e.capability.quality >= qos.min_quality
  /\ e.capability.latency <= qos.max_latency
  /\ e.capability.cost <= qos.max_cost
  /\ e.trust_score >= qos.min_trust

FindCapable(t, qos) == {e \in by_task_type[t] : MeetsConstraints(e, qos)}

-----------------------------------------------------------------------------
(* Relaxation, scoring and the agreed terms.                               *)

Relax(qos) ==
  [min_quality |-> (qos.min_quality * (100 - RelaxPct)) \div 100,
   max_latency |-> (qos.max_latency * (100 + RelaxPct)) \div 100,
   max_cost    |-> (qos.max_cost * (100 + RelaxPct)) \div 100,
   min_trust   |-> (qos.min_trust * (100 - RelaxPct)) \div 100]

(* 1 - x/max clamped to [0,1], as the numerator over Den(max); a zero      *)
(* bound scores 1.                                                         *)
Den(max) == IF max > 0 THEN max ELSE 1
Inverted(x, max) == IF max = 0 THEN 1 ELSE IF x > max THEN 0 ELSE max - x

(* Slip: the latency term is not inverted.                                 *)
ScoreSlowerHigher(e, qos) ==
  LET L == Den(qos.max_latency)
      C == Den(qos.max_cost)
  IN 35 * e.capability.quality * L * C
     + 20 * Unit * e.capability.latency * C
     + 15 * Unit * Inverted(e.capability.cost, qos.max_cost) * L
     + 30 * Clamp(e.trust_score) * L * C

(* The composite score with the default weights .35 .20 .15 .30, over the  *)
(* common denominator 100 * Unit * Den(max_latency) * Den(max_cost).       *)
Score(e, qos) ==
  LET L == Den(qos.max_latency)
      C == Den(qos.max_cost)
  IN 35 * e.capability.quality * L * C
     + 20 * Unit * Inverted(e.capability.latency, qos.max_latency) * C
     + 15 * Unit * Inverted(e.capability.cost, qos.max_cost) * L
     + 30 * Clamp(e.trust_score) * L * C

(* The heads a descending sort by score may have.                          *)
RankedFirst(offers, qos) ==
  {e \in offers : \A f \in offers : Score(e, qos) >= Score(f, qos)}

Lesser(x, y) == IF x <= y THEN x ELSE y
Greater(x, y) == IF x >= y THEN x ELSE y

AgreedQoS(e, qos) ==
  [min_quality |-> Lesser(e.capability.quality, qos.min_quality),
   max_latency |-> Greater(e.capability.latency, qos.max_latency),
   max_cost    |-> Greater(e.capability.cost, qos.max_cost),
   min_trust   |-> Lesser(e.trust_score, qos.min_trust)]

-----------------------------------------------------------------------------
(* The handshake state machine (contract.rs): each operator is the machine *)
(* after a transition that contract.rs allows from the machine's state.    *)

NewMachine ==
  [state |-> "Idle", contract_id |-> "none", selected_agent |-> NoAgent]

IsTerminal == machine.state \in {"Contracted", "Failed"}

OnProbeSent == [machine EXCEPT !.state = "ProbeSent"]
OnOffersReceived == [machine EXCEPT !.state = "OffersReceived"]
OnContractAccepted(a) ==
  [state |-> "Contracted", contract_id |-> "uuid", selected_agent |-> a]
OnFailure == [machine EXCEPT !.state = "Failed"]
ResetForRetry == NewMachine

-----------------------------------------------------------------------------
(* negotiate().                                                            *)

Calls ==
  [pc : {"attempt", "probed", "offered"}, task_type : TaskType,
   original : QoSType, current_qos : QoSType, attempt : 1..(MaxRetries + 1),
   offers : SUBSET Entry, anyExpired : BOOLEAN]

(* Slip: the first attempt counts as a retry.                              *)
one_attempt_short == MaxRetries

max_attempts == MaxRetries + 1

Negotiate(t, qos) ==
  /\ call = NoCall
  /\ call' = [pc |-> "attempt", task_type |-> t, original |-> qos,
              current_qos |-> qos, attempt |-> 1, offers |-> {},
              anyExpired |-> FALSE]
  /\ outcome' = NoOutcome
  /\ UNCHANGED <<registry, machine>>

(* Slip: a retry repeats itself.                                           *)
RetryRepeats(allExpired) ==
  \/ /\ call.attempt < max_attempts
     /\ machine' = ResetForRetry
     /\ call' = [call EXCEPT !.pc = "attempt", !.offers = {}]
     /\ UNCHANGED outcome
  \/ /\ call.attempt >= max_attempts
     /\ machine' = OnFailure
     /\ call' = NoCall
     /\ outcome' = [result |-> "NoCapableAgents"]

(* A coordinator that already finished cannot be reset to Idle.            *)
RefuseReuse ==
  /\ call.pc = "attempt"
  /\ IsTerminal
  /\ call' = NoCall
  /\ outcome' = [result |-> "InvalidTransition"]
  /\ UNCHANGED <<registry, machine>>

(* Phase 1: the probe is sent and matched against the registry.            *)
Probe ==
  /\ call.pc = "attempt"
  /\ machine.state = "Idle"
  /\ machine' = OnProbeSent
  /\ call' = [call EXCEPT !.pc = "probed",
                !.offers = FindCapable(call.task_type, call.current_qos)]
  /\ UNCHANGED <<registry, outcome>>

(* Nobody answered, or every answer expired: relax and retry, or give up.  *)
GiveUpOrRetry(allExpired) ==
  \/ /\ call.attempt < max_attempts
     /\ machine' = ResetForRetry
     /\ call' = [call EXCEPT !.pc = "attempt", !.attempt = @ + 1,
                   !.current_qos = Relax(@), !.offers = {},
                   !.anyExpired = @ \/ allExpired]
     /\ UNCHANGED outcome
  \/ /\ call.attempt >= max_attempts
     /\ machine' = OnFailure
     /\ call' = NoCall
     /\ outcome' = [result |-> IF allExpired THEN "NegotiationFailed"
                                             ELSE "NoCapableAgents"]

NoneCapable ==
  /\ call.pc = "probed"
  /\ call.offers = {}
  /\ GiveUpOrRetry(FALSE)
  /\ UNCHANGED registry

AllExpired ==
  /\ call.pc = "probed"
  /\ call.offers # {}
  /\ GiveUpOrRetry(TRUE)
  /\ UNCHANGED registry

(* Phase 2: the offers that are still within their TTL.                    *)
CollectOffers(valid) ==
  /\ call.pc = "probed"
  /\ valid \subseteq call.offers /\ valid # {}
  /\ machine' = OnOffersReceived
  /\ call' = [call EXCEPT !.pc = "offered", !.offers = valid,
                !.anyExpired = @ \/ valid # call.offers]
  /\ UNCHANGED <<registry, outcome>>

(* Phase 3: the best offer is contracted.                                  *)
Accept(best) ==
  /\ call.pc = "offered"
  /\ best \in RankedFirst(call.offers, call.current_qos)
  /\ machine' = OnContractAccepted(best.agent_id)
  /\ call' = NoCall
  /\ outcome' =
       [result |-> "Contracted", to |-> best.agent_id,
        agreed_qos |-> AgreedQoS(best, call.current_qos), offer |-> best,
        attempts |-> call.attempt, effective_qos |-> call.current_qos,
        original |-> call.original]
  /\ UNCHANGED registry

(* AtpNode::execute_task makes a fresh coordinator for every task.         *)
NewCoordinator ==
  /\ call = NoCall
  /\ machine' = NewMachine
  /\ outcome' = NoOutcome
  /\ UNCHANGED <<registry, call>>

RegistryStep ==
  \/ \E a \in Agent, cap \in Capability, trust \in Trust :
       Register(a, cap, trust)
  \/ \E a \in Agent : Unregister(a)
  \/ \E a \in Agent, t \in TaskType : UnregisterCapability(a, t)
  \/ \E a \in Agent, t \in TaskType, x \in RawTrust : UpdateTrust(a, t, x)

NegotiationStep ==
  \/ RefuseReuse
  \/ Probe
  \/ NoneCapable
  \/ AllExpired
  \/ \E valid \in SUBSET call.offers : CollectOffers(valid)
  \/ \E best \in call.offers : Accept(best)

Init ==
  /\ by_task_type = [t \in TaskType |-> {}]
  /\ by_agent = [a \in {} |-> {}]
  /\ machine = NewMachine
  /\ call = NoCall
  /\ outcome = NoOutcome

Next ==
  \/ RegistryStep
  \/ \E t \in TaskType, qos \in QoS : Negotiate(t, qos)
  \/ NegotiationStep
  \/ NewCoordinator

Spec == Init /\ [][Next]_vars

(* negotiate() is straight-line code: once called it runs to its return.   *)
FairSpec == Spec /\ WF_vars(NegotiationStep)

-----------------------------------------------------------------------------
Outcomes ==
  [result : {"none", "InvalidTransition", "NegotiationFailed",
             "NoCapableAgents"}]
  \cup [result : {"Contracted"}, to : Agent, agreed_qos : QoSType,
        offer : Entry, attempts : 1..(MaxRetries + 1),
        effective_qos : QoSType, original : QoSType]

(* Type invariant: the registry holds well-formed entries (trust scores    *)
(* stay in [0,1] whatever update_trust is given), filed under their own    *)
(* task type, and the coordinator's state and outcome are well-formed.     *)
TypeOK ==
  /\ by_task_type \in [TaskType -> SUBSET Entry]
  /\ \A t \in TaskType : \A e \in by_task_type[t] : e.capability.task_type = t
  /\ DOMAIN by_agent \subseteq Agent
  /\ \A a \in DOMAIN by_agent : by_agent[a] \in (SUBSET Capability) \ {{}}
  /\ machine \in
       [state : {"Idle", "ProbeSent", "OffersReceived", "Contracted", "Failed"},
        contract_id : {"none", "uuid"}, selected_agent : Agent \cup {NoAgent}]
  /\ call = NoCall \/ call \in Calls
  /\ outcome \in Outcomes

(* After any sequence of register, unregister, unregister_capability and   *)
(* update_trust the two indexes describe the same registry: an agent is    *)
(* filed at most once per task type, and its capability list is exactly    *)
(* what it is filed with (registry.rs keeps both by hand).                 *)
IndexesAgree ==
  LET filed(a) == {e \in UNION {by_task_type[t] : t \in TaskType} :
                     e.agent_id = a}
  IN \A a \in Agent :
       /\ CapsOf(a) = {e.capability : e \in filed(a)}
       /\ \A e, f \in filed(a) :
            e.capability.task_type = f.capability.task_type => e = f

(* relaxed[n] is what a requester's constraints become after n retries.    *)
RelaxedBy(qos) ==
  LET relaxed[n \in 0..MaxRetries] ==
        IF n = 0 THEN qos ELSE Relax(relaxed[n - 1])
  IN relaxed

(* A negotiation never relaxes further than it must: it contracts after n  *)
(* retries an agent registered for the task that meets the constraints     *)
(* relaxed n times, and unless offers expired on the way nobody met them   *)
(* relaxed fewer times; and it reports NoCapableAgents only if nobody      *)
(* meets them relaxed max_retries times.                                   *)
LeastRelaxation ==
  [][LET capable(n) ==
           FindCapable(call.task_type, RelaxedBy(call.original)[n])
     IN /\ outcome'.result = "Contracted" /\ call # NoCall =>
             /\ outcome'.offer \in capable(call.attempt - 1)
             /\ call.anyExpired
                  \/ \A n \in 0..(call.attempt - 2) : capable(n) = {}
        /\ outcome'.result = "NoCapableAgents" /\ call # NoCall =>
             capable(MaxRetries) = {}]_vars

Dominates(e, f) ==
  /\ e.capability.quality >= f.capability.quality
  /\ e.capability.latency <= f.capability.latency
  /\ e.capability.cost <= f.capability.cost
  /\ e.trust_score >= f.trust_score
  /\ \/ e.capability.quality > f.capability.quality
     \/ e.capability.latency < f.capability.latency
     \/ e.capability.cost < f.capability.cost
     \/ e.trust_score > f.trust_score

(* Ranking by weighted score never turns down an offer for one that is no  *)
(* better in any of quality, latency, cost and trust and worse in one.     *)
ContractUndominated ==
  [][outcome'.result = "Contracted" /\ call # NoCall =>
       ~ \E e \in call.offers : Dominates(e, outcome'.offer)]_vars

(* Every call of negotiate returns: the retry loop is bounded.             *)
NegotiationEnds == call # NoCall ~> call = NoCall

(* What contract.rs promises of the agreed terms: they do not exceed the   *)
(* requester's original constraints.                                       *)
AgreedWithinOriginal ==
  outcome.result = "Contracted" =>
    /\ outcome.agreed_qos.min_quality >= outcome.original.min_quality
    /\ outcome.agreed_qos.max_latency <= outcome.original.max_latency
    /\ outcome.agreed_qos.max_cost <= outcome.original.max_cost
    /\ outcome.agreed_qos.min_trust >= outcome.original.min_trust
=============================================================================
