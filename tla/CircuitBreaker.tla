----------------------------- MODULE CircuitBreaker -----------------------------
(***************************************************************************)
(* The circuit breaker of one node (atp-fault/src/circuit_breaker.rs) and   *)
(* the threads that share it.  A caller asks allow_request, works outside  *)
(* the lock, and reports the outcome later, when the breaker may have moved *)
(* on.  Outcomes also arrive for requests that were never admitted here    *)
(* (TASK_RESULT and CIRCUIT_BREAK messages), and an admitted TASK_SUBMIT    *)
(* never reports one (atp-node/src/dispatcher.rs).                         *)
(***************************************************************************)
EXTENDS Agents, BreakerOps, FiniteSets

CONSTANTS Caller,
          MaxFailures   \* bound: failures counted by one entry

ASSUME MaxFailuresAssumption == MaxFailures \in Nat

VARIABLES
    breakers,    \* CircuitBreaker::breakers
    grants,      \* requests that allow_request admitted, still to be reported
    \* history, never read by the code:
    streak,      \* failures reported since the last success or reset
    sinceTrip    \* ticks since the entry last became OPEN, up to Cooldown

breakerVars == <<breakers, grants, streak, sinceTrip>>

\* A caller has at most one request under way; `mode' is the state it was
\* admitted in.
Grant == [caller : Caller, agent : Agent, mode : {"Closed", "HalfOpen"}]

BreakerTypeOK ==
    /\ breakers \in [Agent -> BreakerState]
    /\ grants \in SUBSET Grant
    /\ streak \in [Agent -> Nat]
    /\ sinceTrip \in [Agent -> 0 .. Cooldown]

BreakerInit ==
    /\ breakers = [a \in Agent |-> NewBreaker]
    /\ grants = {}
    /\ streak = [a \in Agent |-> 0]
    /\ sinceTrip = [a \in Agent |-> Cooldown]

Idle(c) == \A g \in grants : g.caller # c

-----------------------------------------------------------------------------

AllowRequest(c, a) ==
    /\ Idle(c)
    /\ breakers' = [breakers EXCEPT ![a] = AfterAllow(@)]
    /\ grants' = IF Admits(breakers[a])
                 THEN grants \cup {[caller |-> c, agent |-> a,
                                    mode |-> AfterAllow(breakers[a]).state]}
                 ELSE grants
    /\ UNCHANGED <<streak, sinceTrip>>

RecordSuccess(a) ==
    /\ breakers' = [breakers EXCEPT ![a] = AfterSuccess(@)]
    /\ streak' = [streak EXCEPT ![a] = 0]
    /\ UNCHANGED sinceTrip

RecordFailure(a) ==
    /\ breakers[a].consecutive_failures < MaxFailures
    /\ streak[a] < MaxFailures
    /\ breakers' = [breakers EXCEPT ![a] = AfterFailure(@)]
    /\ streak' = [streak EXCEPT ![a] = @ + 1]
    /\ sinceTrip' = IF breakers[a].state # "Open" /\ breakers'[a].state = "Open"
                    THEN [sinceTrip EXCEPT ![a] = 0]
                    ELSE sinceTrip

\* The caller of g reports how its request ended.
ReportSuccess(g) == grants' = grants \ {g} /\ RecordSuccess(g.agent)
ReportFailure(g) == grants' = grants \ {g} /\ RecordFailure(g.agent)

\* handle_task_submit: nothing is reported for what allow_request admitted.
Abandon(g) ==
    /\ grants' = grants \ {g}
    /\ UNCHANGED <<breakers, streak, sinceTrip>>

\* handle_task_result, handle_circuit_break: outcomes nobody asked leave for.
PeerSuccess(a) == RecordSuccess(a) /\ UNCHANGED grants
PeerFailure(a) == RecordFailure(a) /\ UNCHANGED grants

Reset(a) ==
    /\ breakers' = [breakers EXCEPT ![a] = AfterReset(@)]
    /\ streak' = [streak EXCEPT ![a] = 0]
    /\ UNCHANGED <<grants, sinceTrip>>

BreakerTick ==
    /\ breakers' = [a \in Agent |-> Aged(breakers[a])]
    /\ sinceTrip' = [a \in Agent |->
                       IF sinceTrip[a] < Cooldown THEN sinceTrip[a] + 1
                                                  ELSE sinceTrip[a]]
    /\ UNCHANGED <<grants, streak>>

BreakerNext ==
    \/ \E c \in Caller, a \in Agent : AllowRequest(c, a)
    \/ \E g \in grants : ReportSuccess(g) \/ ReportFailure(g) \/ Abandon(g)
    \/ \E a \in Agent : PeerSuccess(a) \/ PeerFailure(a) \/ Reset(a)
    \/ BreakerTick

BreakerSpec == BreakerInit /\ [][BreakerNext]_breakerVars

\* Time passes, every caller gets an answer and lets go of its request, and
\* requests for every agent keep coming.
BreakerFairness ==
    /\ WF_breakerVars(BreakerTick)
    /\ \A c \in Caller :
         WF_breakerVars(\E g \in grants :
                   g.caller = c /\ (ReportSuccess(g) \/ ReportFailure(g) \/ Abandon(g)))
    /\ \A a \in Agent : SF_breakerVars(\E c \in Caller : AllowRequest(c, a))

FairBreakerSpec == BreakerSpec /\ BreakerFairness

-----------------------------------------------------------------------------
(* Properties                                                              *)

\* While CLOSED, consecutive_failures is exactly the number of failures
\* reported since the last success or reset, and stays below the threshold:
\* no success is forgotten, whoever reports it and whatever the breaker went
\* through before it closed (record_success, record_failure).
ClosedCountsExactly ==
    \A a \in Agent : breakers[a].state = "Closed" =>
        /\ breakers[a].consecutive_failures = streak[a]
        /\ streak[a] < Threshold

\* A breaker is HALF_OPEN only when a full cool-down has passed since it last
\* became OPEN: a failed probe starts a new cool-down, and neither rejected
\* requests nor late failures shorten it (allow_request, record_failure).
CooldownRespected ==
    \A a \in Agent : breakers[a].state = "HalfOpen" => sinceTrip[a] = Cooldown

\* The refinement mapping to BreakerProtocol.
PhaseOf(e) ==
    IF e.state = "Open"
    THEN IF e.elapsed >= Cooldown THEN "Cooled" ELSE "Cooling"
    ELSE e.state

Protocol == INSTANCE BreakerProtocol
              WITH phase <- [a \in Agent |-> PhaseOf(breakers[a])]

\* The breaker with its counters and clock implements the three-state protocol
\* of the header of circuit_breaker.rs, under any interleaving of callers.
ImplementsProtocol == Protocol!Spec

\* An OPEN breaker does not stay OPEN for ever while requests keep coming:
\* the requests it rejects do not push the end of the cool-down away.
OpenIsProbed ==
    \A a \in Agent : breakers[a].state = "Open" ~> breakers[a].state # "Open"

-----------------------------------------------------------------------------
(* What the comments say and the code does not do                          *)

\* circuit_breaker.rs, header: HALF_OPEN "allows exactly one probe request".
AtMostOneProbe ==
    \A a \in Agent : breakers[a].state = "HalfOpen" =>
        Cardinality({g \in grants : g.agent = a /\ g.mode = "HalfOpen"}) <= 1
=============================================================================
