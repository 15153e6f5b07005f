---------------------------- MODULE BreakerProtocol ----------------------------
(***************************************************************************)
(* What a circuit breaker promises, whatever it counts and however it      *)
(* measures time: the state machine of the header of circuit_breaker.rs.   *)
(* OPEN is split in two: a breaker is Cooling until its cool-down is over, *)
(* and Cooled afterwards; only a Cooled one may be probed.                 *)
(***************************************************************************)
CONSTANT Agent

VARIABLE phase

Phase == {"Closed", "Cooling", "Cooled", "HalfOpen"}

Init == phase = [a \in Agent |-> "Closed"]

Move(a, from, to) ==
    /\ phase[a] = from
    /\ phase' = [phase EXCEPT ![a] = to]

Trip(a)      == Move(a, "Closed", "Cooling")
Probe(a)     == Move(a, "Cooled", "HalfOpen")
ProbeOk(a)   == Move(a, "HalfOpen", "Closed")
ProbeFail(a) == Move(a, "HalfOpen", "Cooling")
Reset(a)     == phase' = [phase EXCEPT ![a] = "Closed"]

\* Time passes: any number of cool-downs end together.
CoolDown ==
    phase' \in [Agent -> Phase]
    /\ \A a \in Agent : \/ phase'[a] = phase[a]
                        \/ phase[a] = "Cooling" /\ phase'[a] = "Cooled"

Next ==
    \/ CoolDown
    \/ \E a \in Agent :
         Trip(a) \/ Probe(a) \/ ProbeOk(a) \/ ProbeFail(a) \/ Reset(a)

Spec == Init /\ [][Next]_phase
=============================================================================
