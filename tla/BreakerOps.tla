------------------------------ MODULE BreakerOps ------------------------------
(***************************************************************************)
(* What the methods of CircuitBreaker (atp-fault/src/circuit_breaker.rs) do *)
(* to the entry of one agent.  Every method takes the write lock once, for *)
(* its whole body, so each one is an atomic function from the old entry to *)
(* the new one.  Modules that call the breaker extend this one.            *)
(*                                                                         *)
(* `last_state_change' is only ever read through                           *)
(* `now - last_state_change >= cooldown', so an entry keeps that           *)
(* difference, saturated at Cooldown, instead of two instants.  An agent   *)
(* without an entry cannot be told from one with a fresh entry (state,     *)
(* failure_count and build_message default to Closed and 0, open_circuits  *)
(* and reset skip it), so the map is total and a missing entry is          *)
(* NewBreaker.  The two lifetime totals are metrics nothing reads.         *)
(***************************************************************************)
EXTENDS Naturals

CONSTANTS Threshold,   \* FaultConfig::circuit_breaker_threshold
          Cooldown     \* ticks before OPEN may become HALF_OPEN

ASSUME BreakerAssumption ==
    /\ Threshold \in Nat \ {0}
    /\ Cooldown \in Nat \ {0}

CircuitState == {"Closed", "Open", "HalfOpen"}

BreakerState ==
    [state : CircuitState, consecutive_failures : Nat, elapsed : 0 .. Cooldown]

NewBreaker == [state |-> "Closed", consecutive_failures |-> 0, elapsed |-> 0]

-----------------------------------------------------------------------------

\* Slips the runs must catch, each named for what it gets wrong.
AdmitsAlways(e) == TRUE

AllowsEarly(e) ==
    IF e.state = "Open" /\ e.elapsed + 1 >= Cooldown
    THEN [e EXCEPT !.state = "HalfOpen", !.elapsed = 0]
    ELSE e

AllowRestartsCooldown(e) ==
    IF e.state = "Open" /\ e.elapsed >= Cooldown
    THEN [e EXCEPT !.state = "HalfOpen", !.elapsed = 0]
    ELSE [e EXCEPT !.elapsed = 0]

SuccessKeepsCount(e) ==
    IF e.state = "HalfOpen" THEN [e EXCEPT !.state = "Closed", !.elapsed = 0] ELSE e

FailureKeepsClock(e) ==
    LET n == e.consecutive_failures + 1
    IN  IF e.state = "HalfOpen" \/ (e.state = "Closed" /\ n >= Threshold)
        THEN [e EXCEPT !.state = "Open", !.consecutive_failures = n]
        ELSE [e EXCEPT !.consecutive_failures = n]

\* allow_request returns Ok(()).
Admits(e) == e.state = "Open" => e.elapsed >= Cooldown

\* allow_request's side effect: a cooled OPEN breaker becomes HALF_OPEN.
AfterAllow(e) ==
    IF e.state = "Open" /\ e.elapsed >= Cooldown
    THEN [state |-> "HalfOpen", elapsed |-> 0,
          consecutive_failures |-> e.consecutive_failures]
    ELSE e

\* record_success: ignored while OPEN.
AfterSuccess(e) ==
    CASE e.state = "HalfOpen" -> NewBreaker
      [] e.state = "Closed"   -> [e EXCEPT !.consecutive_failures = 0]
      [] e.state = "Open"     -> e

\* record_failure: an OPEN breaker only counts.
AfterFailure(e) ==
    LET n     == e.consecutive_failures + 1
        trips == \/ e.state = "Closed" /\ n >= Threshold
                 \/ e.state = "HalfOpen"
    IN  IF trips
        THEN [state |-> "Open", consecutive_failures |-> n, elapsed |-> 0]
        ELSE [e EXCEPT !.consecutive_failures = n]

\* reset.
AfterReset(e) == NewBreaker

\* One tick of Utc::now(), seen through `now - last_state_change'.
Aged(e) == [e EXCEPT !.elapsed = IF @ < Cooldown THEN @ + 1 ELSE @]
=============================================================================
