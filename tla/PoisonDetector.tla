---------------------------- MODULE PoisonDetector ----------------------------
(***************************************************************************)
(* PoisonDetector (atp-fault/src/poison.rs) shared by worker threads.  The *)
(* set of poisoned tasks and the failure records have a lock each, and     *)
(* record_failure takes three locks one after the other: it looks the task *)
(* up in the set, pushes and counts in the records, and inserts in the set. *)
(* clear takes the same two locks, the set first.                          *)
(*                                                                         *)
(* Timestamps only ever meet `now - window', so a record keeps its age in   *)
(* ticks.  `now' is read before the records' lock is taken: the age a new  *)
(* record starts with is the time its thread waited for that lock.         *)
(***************************************************************************)
EXTENDS Workers, Naturals, FiniteSets

CONSTANTS AgentThreshold, \* FaultConfig::poison_agent_threshold
          Window,         \* FaultConfig::poison_detection_window, in ticks
          MaxWait         \* longest wait of a thread for the records' lock

\* A thread never waits for the lock as long as the window (60 s) lasts.
ASSUME PoisonAssumption ==
    /\ AgentThreshold \in Nat \ {0}
    /\ Window \in Nat
    /\ MaxWait \in 0 .. Window

\* From this age on a record is out of every cutoff still to be computed.
TooOld == Window + MaxWait + 1

FailureRecord == [agent_id : Agent, age : 0 .. TooOld]

VARIABLES
    poisoned,     \* PoisonDetector::poisoned
    failures,     \* PoisonDetector::failures, a missing list being empty
    checked,      \* record_failure calls past the lookup
    condemning,   \* record_failure calls about to insert, with the records
                  \* that decided
    clearing,     \* clear calls between their two halves
    \* history, never read by the code:
    reported      \* failures pushed since the last clear ended

poisonVars == <<poisoned, failures, checked, condemning, clearing, reported>>

PoisonTypeOK ==
    /\ poisoned \in SUBSET Task
    /\ failures \in [Task -> SUBSET FailureRecord]
    /\ checked \in SUBSET [worker : Worker, task_id : Task, agent_id : Agent,
                           waited : 0 .. MaxWait]
    /\ condemning \in SUBSET [worker : Worker, task_id : Task,
                              by : SUBSET FailureRecord]
    /\ clearing \in SUBSET [worker : Worker, task_id : Task]
    /\ reported \in [Task -> SUBSET FailureRecord]

PoisonInit ==
    /\ poisoned = {}
    /\ failures = [t \in Task |-> {}]
    /\ reported = [t \in Task |-> {}]
    /\ checked = {} /\ condemning = {} /\ clearing = {}

PoisonIdle(w) == \A call \in checked \cup condemning \cup clearing : call.worker # w

DistinctAgents(records) == {r.agent_id : r \in records}

\* Slips the runs must catch, each named for what it gets wrong.
RetainsAll(records, waited) == records

RetainsOpenWindow(records, waited) == {r \in records : r.age < waited + Window}

\* records.retain(|r| r.timestamp >= now - window), `now' being `waited' ticks ago.
Retained(records, waited) == {r \in records : r.age <= waited + Window}

-----------------------------------------------------------------------------

\* record_failure, first lock: a poisoned task short-circuits.
RecordLookup(w, t, a) ==
    /\ PoisonIdle(w)
    /\ t \notin poisoned
    /\ checked' = checked \cup
         {[worker |-> w, task_id |-> t, agent_id |-> a, waited |-> 0]}
    /\ UNCHANGED <<poisoned, failures, condemning, clearing, reported>>

\* record_failure, second lock: push, prune, count.  `now' was read at some
\* instant since the lookup.
RecordPush(call, waited) ==
    LET t       == call.task_id
        new     == [agent_id |-> call.agent_id, age |-> waited]
        records == Retained(failures[t] \cup {new}, waited)
    IN  /\ waited <= call.waited
        /\ checked' = checked \ {call}
        /\ failures' = [failures EXCEPT ![t] = records]
        /\ condemning' =
             IF Cardinality(DistinctAgents(records)) >= AgentThreshold
             THEN condemning \cup {[worker |-> call.worker, task_id |-> t, by |-> records]}
             ELSE condemning
        /\ reported' = [reported EXCEPT ![t] = @ \cup {new}]
        /\ UNCHANGED <<poisoned, clearing>>

\* record_failure, third lock.
RecordCondemn(call) ==
    /\ condemning' = condemning \ {call}
    /\ poisoned' = poisoned \cup {call.task_id}
    /\ UNCHANGED <<failures, checked, clearing, reported>>

ForcePoison(t) ==
    /\ poisoned' = poisoned \cup {t}
    /\ UNCHANGED <<failures, checked, condemning, clearing, reported>>

\* clear, first half.
ClearPoisoned(w, t) ==
    /\ PoisonIdle(w)
    /\ poisoned' = poisoned \ {t}
    /\ clearing' = clearing \cup {[worker |-> w, task_id |-> t]}
    /\ UNCHANGED <<failures, checked, condemning, reported>>

\* clear, second half.
ClearFailures(call) ==
    /\ clearing' = clearing \ {call}
    /\ failures' = [failures EXCEPT ![call.task_id] = {}]
    /\ reported' = [reported EXCEPT ![call.task_id] = {}]
    /\ UNCHANGED <<poisoned, checked, condemning>>

Older(records) == {[r EXCEPT !.age = IF @ < TooOld THEN @ + 1 ELSE @] : r \in records}

PoisonTick ==
    /\ \A call \in checked : call.waited < MaxWait
    /\ failures' = [t \in Task |-> Older(failures[t])]
    /\ reported' = [t \in Task |-> Older(reported[t])]
    /\ checked' = {[call EXCEPT !.waited = @ + 1] : call \in checked}
    /\ UNCHANGED <<poisoned, condemning, clearing>>

PoisonNext ==
    \/ \E w \in Worker, t \in Task, a \in Agent : RecordLookup(w, t, a)
    \/ \E call \in checked, waited \in 0 .. MaxWait : RecordPush(call, waited)
    \/ \E call \in condemning : RecordCondemn(call)
    \/ \E t \in Task : ForcePoison(t)
    \/ \E w \in Worker, t \in Task : ClearPoisoned(w, t)
    \/ \E call \in clearing : ClearFailures(call)
    \/ PoisonTick

PoisonSpec == PoisonInit /\ [][PoisonNext]_poisonVars

-----------------------------------------------------------------------------
(* Properties                                                              *)

\* The records that condemn a task come from enough distinct agents and lie
\* within one window of each other, although `now' is read before the lock
\* and later failures may be pushed first (record_failure).
CondemnedFairly ==
    \A call \in condemning :
        /\ Cardinality(DistinctAgents(call.by)) >= AgentThreshold
        /\ \A r1, r2 \in call.by : r1.age <= r2.age + Window

\* No poison task goes unnoticed: when enough distinct agents have reported a
\* failure within the window, is_poisoned answers true, unless the call that
\* will insert the task, or a clear of it, is half way.  Pruning and the gaps
\* between the locks lose no evidence.
NoMissedPoison ==
    \A t \in Task :
        Cardinality(DistinctAgents({r \in reported[t] : r.age <= Window})) >= AgentThreshold =>
            \/ t \in poisoned
            \/ \E call \in condemning \cup clearing : call.task_id = t

=============================================================================
