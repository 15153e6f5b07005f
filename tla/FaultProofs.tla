------------------------------ MODULE FaultProofs ------------------------------
(***************************************************************************)
(* Theorems about the structures of layer 5 (atp-fault), one after the     *)
(* other: PoisonDetector, for every threshold, window and wait;            *)
(* CheckpointStore, for every set of versions; HeartbeatMonitor, for every *)
(* timeout, wait and set of queue depths; and CircuitBreaker, for every    *)
(* threshold and cool-down.  All are about any tasks, agents and threads.  *)
(***************************************************************************)
EXTENDS PoisonDetector, CheckpointStore, HeartbeatMonitor, CircuitBreaker,
        FiniteSetTheorems, TLAPS

-----------------------------------------------------------------------------
(* PoisonDetector                                                          *)

\* Any two records of a task lie within one window: whoever pushed the later
\* one pruned with it.
WithinWindow ==
    \A t \in Task : \A r1, r2 \in failures[t] : r1.age <= r2.age + Window

Recent(t) == {r \in reported[t] : r.age <= Window}

\* What was reported within the window has not been pruned.
EvidenceKept == \A t \in Task : Recent(t) \subseteq failures[t]

\* Only finitely many agents have records, so that they can be counted.
FiniteAgents == \A t \in Task : IsFiniteSet(DistinctAgents(failures[t]))

\* The inductive invariant.
PoisonInv == PoisonTypeOK /\ WithinWindow /\ EvidenceKept /\ FiniteAgents
        /\ CondemnedFairly /\ NoMissedPoison

-----------------------------------------------------------------------------
\* Pushing a record keeps the type of the records.
LEMMA PushedRecords ==
    ASSUME PoisonTypeOK, NEW call \in checked, NEW waited \in 0 .. MaxWait
    PROVE  LET new == [agent_id |-> call.agent_id, age |-> waited]
           IN  /\ call.task_id \in Task /\ call.agent_id \in Agent
               /\ call.worker \in Worker
               /\ new \in FailureRecord
               /\ Retained(failures[call.task_id] \cup {new}, waited)
                    \in SUBSET FailureRecord
  <1> DEFINE new == [agent_id |-> call.agent_id, age |-> waited]
  <1>1. call.task_id \in Task /\ call.agent_id \in Agent /\ call.worker \in Worker
    BY DEF PoisonTypeOK
  <1>2. new \in FailureRecord
    BY <1>1, PoisonAssumption DEF FailureRecord, TooOld
  <1>3. Retained(failures[call.task_id] \cup {new}, waited) \in SUBSET FailureRecord
    BY <1>1, <1>2 DEF Retained, PoisonTypeOK
  <1>4. QED
    BY <1>1, <1>2, <1>3

\* A tick ages a record by one, up to TooOld, and keeps its agent.
LEMMA OlderRecord ==
    ASSUME NEW S \in SUBSET FailureRecord, NEW r \in Older(S)
    PROVE  /\ r \in FailureRecord
           /\ \E q \in S : /\ r = [q EXCEPT !.age = IF @ < TooOld THEN @ + 1 ELSE @]
                           /\ r.agent_id = q.agent_id
                           /\ r.age = IF q.age < TooOld THEN q.age + 1 ELSE q.age
  <1>1. PICK q \in S : r = [q EXCEPT !.age = IF @ < TooOld THEN @ + 1 ELSE @]
    BY DEF Older
  <1>2. q \in FailureRecord /\ TooOld \in Nat
    BY PoisonAssumption DEF TooOld
  <1>3. /\ r.agent_id = q.agent_id
        /\ r.age = IF q.age < TooOld THEN q.age + 1 ELSE q.age
        /\ r \in FailureRecord
    BY <1>1, <1>2 DEF FailureRecord
  <1>4. QED
    BY <1>1, <1>3

\* Types are kept by every part of every call.
LEMMA PoisonTypeStep == PoisonTypeOK /\ [PoisonNext]_poisonVars => PoisonTypeOK'
  <1> SUFFICES ASSUME PoisonTypeOK, [PoisonNext]_poisonVars PROVE PoisonTypeOK'
    OBVIOUS
  <1>1. ASSUME NEW w \in Worker, NEW t \in Task, NEW a \in Agent, RecordLookup(w, t, a)
        PROVE  PoisonTypeOK'
    BY <1>1, PoisonAssumption DEF RecordLookup, PoisonTypeOK
  <1>2. ASSUME NEW call \in checked, NEW waited \in 0 .. MaxWait, RecordPush(call, waited)
        PROVE  PoisonTypeOK'
    <2> DEFINE t       == call.task_id
               new     == [agent_id |-> call.agent_id, age |-> waited]
               records == Retained(failures[t] \cup {new}, waited)
    <2>1. /\ t \in Task /\ call.worker \in Worker /\ new \in FailureRecord
          /\ records \in SUBSET FailureRecord
      BY PushedRecords
    <2> HIDE DEF records
    <2>2. /\ failures' = [failures EXCEPT ![t] = records]
          /\ reported' = [reported EXCEPT ![t] = @ \cup {new}]
          /\ checked' = checked \ {call}
          /\ condemning' \subseteq condemning \cup
               {[worker |-> call.worker, task_id |-> t, by |-> records]}
          /\ UNCHANGED <<poisoned, clearing>>
      BY <1>2 DEF RecordPush, records
    <2> HIDE DEF t, new
    <2>3. condemning' \in SUBSET [worker : Worker, task_id : Task,
                                  by : SUBSET FailureRecord]
      BY <2>1, <2>2 DEF PoisonTypeOK
    <2>4. QED
      BY <2>1, <2>2, <2>3 DEF PoisonTypeOK
  <1>3. ASSUME NEW call \in condemning, RecordCondemn(call) PROVE PoisonTypeOK'
    BY <1>3 DEF RecordCondemn, PoisonTypeOK
  <1>4. ASSUME NEW t \in Task, ForcePoison(t) PROVE PoisonTypeOK'
    BY <1>4 DEF ForcePoison, PoisonTypeOK
  <1>5. ASSUME NEW w \in Worker, NEW t \in Task, ClearPoisoned(w, t) PROVE PoisonTypeOK'
    BY <1>5 DEF ClearPoisoned, PoisonTypeOK
  <1>6. ASSUME NEW call \in clearing, ClearFailures(call) PROVE PoisonTypeOK'
    BY <1>6 DEF ClearFailures, PoisonTypeOK
  <1>7. CASE PoisonTick
    <2>1. ASSUME NEW S \in SUBSET FailureRecord PROVE Older(S) \in SUBSET FailureRecord
      BY <2>1, OlderRecord
    <2>2. /\ failures' \in [Task -> SUBSET FailureRecord]
          /\ reported' \in [Task -> SUBSET FailureRecord]
      BY <1>7, <2>1 DEF PoisonTick, PoisonTypeOK
    <2>3. checked' \in SUBSET [worker : Worker, task_id : Task, agent_id : Agent,
                               waited : 0 .. MaxWait]
      BY <1>7, PoisonAssumption DEF PoisonTick, PoisonTypeOK
    <2>4. QED
      BY <1>7, <2>2, <2>3 DEF PoisonTick, PoisonTypeOK
  <1>8. CASE UNCHANGED poisonVars
    BY <1>8 DEF poisonVars, PoisonTypeOK
  <1>9. QED
    BY <1>1, <1>2, <1>3, <1>4, <1>5, <1>6, <1>7, <1>8 DEF PoisonNext

-----------------------------------------------------------------------------
\* The four facts that a step must keep besides the types, of one task.
TaskInv(t) ==
    /\ \A r1, r2 \in failures[t] : r1.age <= r2.age + Window
    /\ Recent(t) \subseteq failures[t]
    /\ IsFiniteSet(DistinctAgents(failures[t]))
    /\ Cardinality(DistinctAgents(Recent(t))) >= AgentThreshold =>
         \/ t \in poisoned
         \/ \E call \in condemning \cup clearing : call.task_id = t

\* They are the invariant's, task by task.
LEMMA PerTask ==
    WithinWindow /\ EvidenceKept /\ FiniteAgents /\ NoMissedPoison
      <=> \A t \in Task : TaskInv(t)
  BY DEF WithinWindow, EvidenceKept, FiniteAgents, NoMissedPoison, TaskInv, Recent

\* A task whose records and reports do not change, and which is neither
\* pardoned nor forgotten by a call that was to condemn or clear it.
LEMMA TaskUndisturbed ==
    ASSUME NEW t \in Task, TaskInv(t),
           failures'[t] = failures[t], reported'[t] = reported[t],
           t \in poisoned => t \in poisoned' \/ \E call \in clearing' : call.task_id = t,
           \A call \in condemning \cup clearing :
             call.task_id = t => call \in condemning' \cup clearing' \/ t \in poisoned'
    PROVE  TaskInv(t)'
  <1>1. Recent(t)' = Recent(t)
    BY DEF Recent
  <1>2. QED
    BY <1>1 DEF TaskInv

\* record_failure's second lock: the new record is within the window of what
\* it leaves, prunes nothing reported recently, and is counted.
LEMMA PushStep ==
    ASSUME PoisonTypeOK, \A t \in Task : TaskInv(t), CondemnedFairly,
           NEW call \in checked, NEW waited \in 0 .. MaxWait, RecordPush(call, waited)
    PROVE  (\A t \in Task : TaskInv(t)') /\ CondemnedFairly'
  <1> DEFINE t       == call.task_id
             new     == [agent_id |-> call.agent_id, age |-> waited]
             records == Retained(failures[t] \cup {new}, waited)
             enough  == Cardinality(DistinctAgents(records)) >= AgentThreshold
             verdict == [worker |-> call.worker, task_id |-> t, by |-> records]
  <1>1. /\ t \in Task /\ new \in FailureRecord /\ new.age = waited
        /\ new.agent_id = call.agent_id
        /\ records = {r \in failures[t] \cup {new} : r.age <= waited + Window}
        /\ records \in SUBSET FailureRecord
    BY PushedRecords DEF Retained
  <1>2. /\ failures' = [failures EXCEPT ![t] = records]
        /\ reported' = [reported EXCEPT ![t] = @ \cup {new}]
        /\ condemning' = IF enough THEN condemning \cup {verdict} ELSE condemning
        /\ UNCHANGED <<poisoned, clearing>>
    BY DEF RecordPush
  <1>3. verdict.task_id = t /\ verdict.by = records
    OBVIOUS
  <1> HIDE DEF t, new, records, enough, verdict
  <1>4. failures'[t] = records /\ reported'[t] = reported[t] \cup {new}
    BY <1>1, <1>2 DEF PoisonTypeOK
  <1>5. ASSUME NEW r1 \in records, NEW r2 \in records PROVE r1.age <= r2.age + Window
    <2>1. r1.age \in Nat /\ r2.age \in Nat /\ waited \in Nat /\ Window \in Nat /\ waited <= Window
      BY <1>1, <1>5, PoisonAssumption DEF FailureRecord, TooOld
    <2>2. r1.age <= waited + Window
      BY <1>1, <1>5
    <2>3. CASE r2 = new
      BY <1>1, <2>1, <2>2, <2>3
    <2>4. CASE r1 = new
      BY <1>1, <2>1, <2>4
    <2>5. CASE r1 \in failures[t] /\ r2 \in failures[t]
      BY <1>1, <2>5 DEF TaskInv
    <2>6. QED
      BY <1>1, <1>5, <2>3, <2>4, <2>5
  <1>6. Recent(t)' \subseteq records
    <2> SUFFICES ASSUME NEW r \in reported[t] \cup {new}, r.age <= Window PROVE r \in records
      BY <1>4 DEF Recent
    <2>1. r \in FailureRecord
      BY <1>1 DEF PoisonTypeOK
    <2>2. r.age <= waited + Window
      BY <2>1, PoisonAssumption DEF FailureRecord, TooOld
    <2>3. r \in failures[t] \cup {new}
      BY <1>1 DEF TaskInv, Recent
    <2>4. QED
      BY <1>1, <2>2, <2>3
  <1>7. IsFiniteSet(DistinctAgents(records))
    <2>1. IsFiniteSet(DistinctAgents(failures[t]))
      BY <1>1 DEF TaskInv
    <2>2. IsFiniteSet(DistinctAgents(failures[t]) \cup {call.agent_id})
      BY <2>1, FS_AddElement
    <2>3. DistinctAgents(records) \subseteq DistinctAgents(failures[t]) \cup {call.agent_id}
      BY <1>1 DEF DistinctAgents
    <2>4. QED
      BY <2>2, <2>3, FS_Subset
  <1>8. Cardinality(DistinctAgents(Recent(t)')) >= AgentThreshold => enough
    <2>1. DistinctAgents(Recent(t)') \subseteq DistinctAgents(records)
      BY <1>6 DEF DistinctAgents
    <2>2. /\ IsFiniteSet(DistinctAgents(Recent(t)'))
          /\ Cardinality(DistinctAgents(Recent(t)')) <= Cardinality(DistinctAgents(records))
      BY <1>7, <2>1, FS_Subset
    <2>3. /\ Cardinality(DistinctAgents(Recent(t)')) \in Nat
          /\ Cardinality(DistinctAgents(records)) \in Nat
      BY <1>7, <2>2, FS_CardinalityType
    <2>4. QED
      BY <2>2, <2>3, PoisonAssumption DEF enough
  <1>9. TaskInv(t)'
    <2>1. DistinctAgents(Recent(t))' = DistinctAgents(Recent(t)')
      BY DEF DistinctAgents
    <2>2. enough => \E c \in condemning' : c.task_id = t
      BY <1>2, <1>3
    <2>3. DistinctAgents(failures[t])' = DistinctAgents(records)
      BY <1>4 DEF DistinctAgents
    <2>4. QED
      BY <1>4, <1>5, <1>6, <1>7, <1>8, <2>1, <2>2, <2>3 DEF TaskInv
  <1>10. ASSUME NEW u \in Task, u # t PROVE TaskInv(u)'
    <2>1. failures'[u] = failures[u] /\ reported'[u] = reported[u]
      BY <1>1, <1>2, <1>10 DEF PoisonTypeOK
    <2>2. QED
      BY <1>2, <2>1, TaskUndisturbed
  <1>11. CondemnedFairly'
    <2>1. enough => /\ Cardinality(DistinctAgents(verdict.by)) >= AgentThreshold
                    /\ \A r1, r2 \in verdict.by : r1.age <= r2.age + Window
      BY <1>3, <1>5 DEF enough
    <2>2. QED
      BY <1>2, <2>1 DEF CondemnedFairly
  <1>12. QED
    BY <1>9, <1>10, <1>11

\* A tick ages records and reports alike: evidence leaves the window, none
\* enters it.
LEMMA PoisonTickStep ==
    ASSUME PoisonTypeOK, NEW t \in Task, TaskInv(t), PoisonTick
    PROVE  TaskInv(t)'
  <1> DEFINE F == failures[t]
             R == reported[t]
  <1>1. F \in SUBSET FailureRecord /\ R \in SUBSET FailureRecord
    BY DEF PoisonTypeOK
  <1>2. /\ failures'[t] = Older(F) /\ reported'[t] = Older(R)
        /\ UNCHANGED <<poisoned, condemning, clearing>>
    BY DEF PoisonTick
  <1>3. ASSUME NEW r1 \in Older(F), NEW r2 \in Older(F) PROVE r1.age <= r2.age + Window
    <2>1. PICK q1 \in F : r1.age = IF q1.age < TooOld THEN q1.age + 1 ELSE q1.age
      BY <1>1, OlderRecord
    <2>2. PICK q2 \in F : r2.age = IF q2.age < TooOld THEN q2.age + 1 ELSE q2.age
      BY <1>1, OlderRecord
    <2>3. /\ q1.age \in 0 .. TooOld /\ q2.age \in 0 .. TooOld
          /\ TooOld \in Nat /\ Window \in Nat
      BY <1>1, PoisonAssumption DEF FailureRecord, TooOld
    <2>4. q1.age <= q2.age + Window
      BY DEF TaskInv
    <2>5. QED
      BY <2>1, <2>2, <2>3, <2>4
  <1>4. ASSUME NEW r \in Older(R), r.age <= Window
        PROVE  \E q \in Recent(t) :
                 /\ r = [q EXCEPT !.age = IF @ < TooOld THEN @ + 1 ELSE @]
                 /\ r.agent_id = q.agent_id
    <2>1. PICK q \in R : /\ r = [q EXCEPT !.age = IF @ < TooOld THEN @ + 1 ELSE @]
                         /\ r.agent_id = q.agent_id
                         /\ r.age = IF q.age < TooOld THEN q.age + 1 ELSE q.age
      BY <1>1, <1>4, OlderRecord
    <2>2. q.age \in 0 .. TooOld /\ TooOld \in Nat /\ Window \in Nat
      BY <1>1, PoisonAssumption DEF FailureRecord, TooOld
    <2>3. q.age <= Window
      BY <1>4, <2>1, <2>2
    <2>4. QED
      BY <2>1, <2>3 DEF Recent
  <1>5. Recent(t)' \subseteq Older(F)
    <2>1. ASSUME NEW r \in Recent(t)' PROVE r \in Older(F)
      <3>1. r \in Older(R) /\ r.age <= Window
        BY <1>2, <2>1 DEF Recent
      <3>2. PICK q \in Recent(t) : r = [q EXCEPT !.age = IF @ < TooOld THEN @ + 1 ELSE @]
        BY <1>4, <3>1
      <3>3. q \in F
        BY DEF TaskInv
      <3>4. QED
        BY <3>2, <3>3 DEF Older
    <2>2. QED
      BY <2>1
  <1>6. IsFiniteSet(DistinctAgents(Older(F)))
    <2>1. DistinctAgents(Older(F)) \subseteq DistinctAgents(F)
      BY <1>1, OlderRecord DEF DistinctAgents
    <2>2. QED
      BY <2>1, FS_Subset DEF TaskInv
  <1>7. Cardinality(DistinctAgents(Recent(t)')) >= AgentThreshold
          => Cardinality(DistinctAgents(Recent(t))) >= AgentThreshold
    <2>1. DistinctAgents(Recent(t)') \subseteq DistinctAgents(Recent(t))
      <3>1. ASSUME NEW r \in Recent(t)' PROVE \E q \in Recent(t) : r.agent_id = q.agent_id
        BY <1>2, <1>4, <3>1 DEF Recent
      <3>2. QED
        BY <3>1 DEF DistinctAgents
    <2>2. DistinctAgents(Recent(t)) \subseteq DistinctAgents(F)
      BY DEF DistinctAgents, TaskInv
    <2>3. IsFiniteSet(DistinctAgents(Recent(t)))
      BY <2>2, FS_Subset DEF TaskInv
    <2>4. /\ IsFiniteSet(DistinctAgents(Recent(t)'))
          /\ Cardinality(DistinctAgents(Recent(t)')) <= Cardinality(DistinctAgents(Recent(t)))
      BY <2>1, <2>3, FS_Subset
    <2>5. /\ Cardinality(DistinctAgents(Recent(t)')) \in Nat
          /\ Cardinality(DistinctAgents(Recent(t))) \in Nat
      BY <2>3, <2>4, FS_CardinalityType
    <2>6. QED
      BY <2>4, <2>5, PoisonAssumption
  <1>8. /\ DistinctAgents(Recent(t))' = DistinctAgents(Recent(t)')
        /\ DistinctAgents(failures[t])' = DistinctAgents(Older(F))
    BY <1>2 DEF DistinctAgents
  <1>9. QED
    BY <1>2, <1>3, <1>5, <1>6, <1>7, <1>8 DEF TaskInv

\* Every step keeps the invariant.
LEMMA PoisonStep == PoisonInv /\ [PoisonNext]_poisonVars => PoisonInv'
  <1> SUFFICES ASSUME PoisonInv, [PoisonNext]_poisonVars PROVE PoisonInv'
    OBVIOUS
  <1>1. PoisonTypeOK /\ CondemnedFairly /\ \A t \in Task : TaskInv(t)
    BY PerTask DEF PoisonInv
  <1>2. PoisonTypeOK'
    BY <1>1, PoisonTypeStep
  <1>3. ASSUME (\A t \in Task : TaskInv(t)') /\ CondemnedFairly' PROVE PoisonInv'
    BY <1>2, <1>3 DEF PoisonInv, WithinWindow, EvidenceKept, FiniteAgents, NoMissedPoison,
                      TaskInv, Recent
  <1>4. ASSUME NEW w \in Worker, NEW t \in Task, NEW a \in Agent, RecordLookup(w, t, a)
        PROVE  PoisonInv'
    <2>1. UNCHANGED <<poisoned, failures, condemning, clearing, reported>>
      BY <1>4 DEF RecordLookup
    <2>2. QED
      BY <1>1, <1>3, <2>1, TaskUndisturbed DEF CondemnedFairly
  <1>5. ASSUME NEW call \in checked, NEW waited \in 0 .. MaxWait, RecordPush(call, waited)
        PROVE  PoisonInv'
    BY <1>1, <1>3, <1>5, PushStep
  <1>6. ASSUME NEW call \in condemning, RecordCondemn(call) PROVE PoisonInv'
    <2>1. /\ UNCHANGED <<failures, clearing, reported>>
          /\ condemning' = condemning \ {call} /\ poisoned' = poisoned \cup {call.task_id}
      BY <1>6 DEF RecordCondemn
    <2>2. QED
      BY <1>1, <1>3, <2>1, TaskUndisturbed DEF CondemnedFairly
  <1>7. ASSUME NEW t \in Task, ForcePoison(t) PROVE PoisonInv'
    <2>1. /\ UNCHANGED <<failures, condemning, clearing, reported>>
          /\ poisoned' = poisoned \cup {t}
      BY <1>7 DEF ForcePoison
    <2>2. QED
      BY <1>1, <1>3, <2>1, TaskUndisturbed DEF CondemnedFairly
  <1>8. ASSUME NEW w \in Worker, NEW t \in Task, ClearPoisoned(w, t) PROVE PoisonInv'
    <2> DEFINE c == [worker |-> w, task_id |-> t]
    <2>1. /\ UNCHANGED <<failures, condemning, reported>>
          /\ poisoned' = poisoned \ {t} /\ clearing' = clearing \cup {c} /\ c.task_id = t
      BY <1>8 DEF ClearPoisoned
    <2> HIDE DEF c
    <2>2. QED
      BY <1>1, <1>3, <2>1, TaskUndisturbed DEF CondemnedFairly
  <1>9. ASSUME NEW call \in clearing, ClearFailures(call) PROVE PoisonInv'
    <2> DEFINE t == call.task_id
    <2>1. /\ t \in Task
          /\ UNCHANGED <<poisoned, condemning>> /\ clearing' = clearing \ {call}
          /\ failures' = [failures EXCEPT ![t] = {}]
          /\ reported' = [reported EXCEPT ![t] = {}]
      BY <1>1, <1>9 DEF ClearFailures, PoisonTypeOK
    <2>2. ASSUME NEW u \in Task, u # t PROVE TaskInv(u)'
      BY <1>1, <2>1, <2>2, TaskUndisturbed DEF PoisonTypeOK
    <2>3. TaskInv(t)'
      <3>1. failures'[t] = {} /\ Recent(t)' = {}
        BY <1>1, <2>1 DEF PoisonTypeOK, Recent
      <3>2. DistinctAgents({}) = {}
        BY DEF DistinctAgents
      <3>3. /\ DistinctAgents(failures[t])' = {}
            /\ DistinctAgents(Recent(t))' = {}
        BY <3>1 DEF DistinctAgents
      <3>4. ~(Cardinality({}) >= AgentThreshold) /\ IsFiniteSet({})
        BY FS_EmptySet, PoisonAssumption
      <3>5. QED
        BY <3>1, <3>3, <3>4 DEF TaskInv
    <2>4. CondemnedFairly'
      BY <1>1, <2>1 DEF CondemnedFairly
    <2>5. QED
      BY <1>3, <2>2, <2>3, <2>4
  <1>10. CASE PoisonTick
    <2>1. CondemnedFairly'
      BY <1>1, <1>10 DEF PoisonTick, CondemnedFairly
    <2>2. QED
      BY <1>1, <1>3, <1>10, <2>1, PoisonTickStep
  <1>11. CASE UNCHANGED poisonVars
    BY <1>1, <1>3, <1>11, TaskUndisturbed DEF poisonVars, CondemnedFairly
  <1>12. QED
    BY <1>4, <1>5, <1>6, <1>7, <1>8, <1>9, <1>10, <1>11 DEF PoisonNext

\* The invariant holds throughout.
LEMMA PoisonInvariance == PoisonSpec => []PoisonInv
  <1>1. PoisonInit => PoisonInv
    <2> SUFFICES ASSUME PoisonInit PROVE PoisonInv
      OBVIOUS
    <2>1. PoisonTypeOK
      BY DEF PoisonInit, PoisonTypeOK
    <2>2. ASSUME NEW t \in Task PROVE TaskInv(t)
      <3>1. failures[t] = {} /\ Recent(t) = {} /\ DistinctAgents({}) = {}
        BY DEF PoisonInit, Recent, DistinctAgents
      <3>2. ~(Cardinality({}) >= AgentThreshold) /\ IsFiniteSet({})
        BY FS_EmptySet, PoisonAssumption
      <3>3. QED
        BY <3>1, <3>2 DEF TaskInv
    <2>3. CondemnedFairly
      BY DEF PoisonInit, CondemnedFairly
    <2>4. QED
      BY <2>1, <2>2, <2>3, PerTask DEF PoisonInv
  <1>2. QED
    BY <1>1, PoisonStep, PTL DEF PoisonSpec

-----------------------------------------------------------------------------
\* The detector's structures and the calls between their locks stay
\* well-formed.
THEOREM PoisonTypeCorrect == PoisonSpec => []PoisonTypeOK
  <1>1. PoisonInv => PoisonTypeOK
    BY DEF PoisonInv
  <1>2. QED
    BY <1>1, PoisonInvariance, PTL

\* record_failure condemns only on failures of enough distinct agents within
\* one window, however its threads overtake each other.
THEOREM CondemnsFairly == PoisonSpec => []CondemnedFairly
  <1>1. PoisonInv => CondemnedFairly
    BY DEF PoisonInv
  <1>2. QED
    BY <1>1, PoisonInvariance, PTL

\* Failures of enough distinct agents within the window always lead to the
\* set of poisoned tasks: pruning and the gaps between the locks lose none.
THEOREM MissesNoPoison == PoisonSpec => []NoMissedPoison
  <1>1. PoisonInv => NoMissedPoison
    BY DEF PoisonInv
  <1>2. QED
    BY <1>1, PoisonInvariance, PTL

-----------------------------------------------------------------------------
(* CheckpointStore                                                         *)

\* The hot store is a map: one checkpoint per task.
StoreIsMap ==
    \A c1, c2 \in store : c1.task_id = c2.task_id => c1 = c2

\* Every completed, unremoved save is covered by what the store holds.
DoneCovered ==
    \A s \in done : \E cp \in store :
        cp.task_id = s.task_id /\ cp.version >= s.version

\* The inductive invariant.
StoreInv == StoreTypeOK /\ StoreIsMap /\ DoneCovered /\ ResumesFromNewest /\ NoOrphanHistory

-----------------------------------------------------------------------------
\* Types are kept by every half of every call.
LEMMA StoreTypeStep == StoreTypeOK /\ [StoreNext]_storeVars => StoreTypeOK'
  <1> SUFFICES ASSUME StoreTypeOK, [StoreNext]_storeVars PROVE StoreTypeOK'
    OBVIOUS
  <1>1. ASSUME NEW w \in Worker, NEW data \in Checkpoint, SaveHistory(w, data)
        PROVE  StoreTypeOK'
    <2>1. data.task_id \in Task
      BY DEF Checkpoint
    <2>2. Append(history[data.task_id], data) \in Seq(Checkpoint)
      BY <2>1 DEF StoreTypeOK
    <2>3. history' \in [Task -> Seq(Checkpoint)]
      BY <1>1, <2>2 DEF SaveHistory, StoreTypeOK
    <2>4. QED
      BY <1>1, <2>3 DEF SaveHistory, StoreTypeOK
  <1>2. ASSUME NEW s \in saving, SaveStore(s) PROVE StoreTypeOK'
    BY <1>2 DEF SaveStore, StoreTypeOK, Of
  <1>3. ASSUME NEW w \in Worker, NEW t \in Task, RemoveStore(w, t) PROVE StoreTypeOK'
    BY <1>3 DEF RemoveStore, StoreTypeOK, Of
  <1>4. ASSUME NEW r \in removing, RemoveHistory(r) PROVE StoreTypeOK'
    BY <1>4 DEF RemoveHistory, StoreTypeOK
  <1>5. ASSUME NEW t \in Task, NEW failed \in Agent, NEW new \in Agent, Failover(t, failed, new)
        PROVE  StoreTypeOK'
    <2>1. Of(store, t) \in SUBSET Checkpoint /\ Of(done, t) \in SUBSET Checkpoint
      BY DEF StoreTypeOK, Of
    <2>2. decisions' \in SUBSET FailoverDecision
      BY <1>5, <2>1 DEF Failover, StoreTypeOK, FailoverDecision
    <2>3. QED
      BY <1>5, <2>2 DEF Failover, StoreTypeOK
  <1>6. CASE UNCHANGED storeVars
    BY <1>6 DEF storeVars, StoreTypeOK
  <1>7. QED
    BY <1>1, <1>2, <1>3, <1>4, <1>5, <1>6 DEF StoreNext

\* What the second half of save leaves in the store: still a map, and nothing
\* that was covered is uncovered, the new checkpoint included.
LEMMA SaveStoreStep ==
    ASSUME StoreTypeOK, StoreIsMap, DoneCovered, NEW s \in saving, SaveStore(s)
    PROVE  StoreIsMap' /\ DoneCovered'
  <1> DEFINE data == s.data
             t    == s.data.task_id
  <1>1. data \in Checkpoint /\ t \in Task /\ data.version \in Nat
    BY VersionAssumption DEF StoreTypeOK, Checkpoint
  <1>2. \A cp \in store \cup done : cp \in Checkpoint /\ cp.version \in Nat
    BY VersionAssumption DEF StoreTypeOK, Checkpoint
  <1>3. done' = done \cup {data}
    BY DEF SaveStore
  <1>4. CASE ShouldUpdate(data)
    <2>1. store' = {cp \in store : cp.task_id # t} \cup {data}
      BY <1>4 DEF SaveStore, Of
    <2>2. StoreIsMap'
      BY <2>1 DEF StoreIsMap
    <2>3. ASSUME NEW d \in done
          PROVE  \E cp \in store' : cp.task_id = d.task_id /\ cp.version >= d.version
      <3>1. PICK cp \in store : cp.task_id = d.task_id /\ cp.version >= d.version
        BY DEF DoneCovered
      <3>2. CASE d.task_id = t
        <4>1. data.version > cp.version
          BY <1>4, <3>1, <3>2 DEF ShouldUpdate, Of
        <4>2. data.version >= d.version
          BY <1>1, <1>2, <3>1, <4>1
        <4>3. QED
          BY <2>1, <3>2, <4>2
      <3>3. CASE d.task_id # t
        BY <2>1, <3>1, <3>3
      <3>4. QED
        BY <3>2, <3>3
    <2>4. data \in store' /\ data.version >= data.version
      BY <1>1, <2>1
    <2>5. QED
      BY <1>3, <2>2, <2>3, <2>4 DEF DoneCovered
  <1>5. CASE ~ShouldUpdate(data)
    <2>1. store' = store
      BY <1>5 DEF SaveStore
    <2>2. PICK cp \in store : cp.task_id = t /\ ~(data.version > cp.version)
      BY <1>5 DEF ShouldUpdate, Of
    <2>3. cp.version >= data.version
      BY <1>1, <1>2, <2>2
    <2>4. QED
      BY <1>3, <2>1, <2>2, <2>3 DEF StoreIsMap, DoneCovered
  <1>6. QED
    BY <1>4, <1>5

\* The store stays a map that covers every completed save.
LEMMA StoreStep ==
    ASSUME StoreTypeOK, StoreIsMap, DoneCovered, [StoreNext]_storeVars
    PROVE  StoreIsMap' /\ DoneCovered'
  <1>1. ASSUME UNCHANGED <<store, done>> PROVE StoreIsMap' /\ DoneCovered'
    BY <1>1 DEF StoreIsMap, DoneCovered
  <1>2. ASSUME NEW w \in Worker, NEW data \in Checkpoint, SaveHistory(w, data)
        PROVE  UNCHANGED <<store, done>>
    BY <1>2 DEF SaveHistory
  <1>3. ASSUME NEW s \in saving, SaveStore(s) PROVE StoreIsMap' /\ DoneCovered'
    BY <1>3, SaveStoreStep
  <1>4. ASSUME NEW w \in Worker, NEW t \in Task, RemoveStore(w, t)
        PROVE  StoreIsMap' /\ DoneCovered'
    BY <1>4 DEF RemoveStore, Of, StoreIsMap, DoneCovered
  <1>5. ASSUME NEW r \in removing, RemoveHistory(r) PROVE UNCHANGED <<store, done>>
    BY <1>5 DEF RemoveHistory
  <1>6. ASSUME NEW t \in Task, NEW failed \in Agent, NEW new \in Agent, Failover(t, failed, new)
        PROVE  UNCHANGED <<store, done>>
    BY <1>6 DEF Failover
  <1>7. QED
    BY <1>1, <1>2, <1>3, <1>4, <1>5, <1>6 DEF StoreNext, storeVars

\* A decision is taken when the store covers the completed saves, and is not
\* changed afterwards.
LEMMA DecisionStep ==
    ASSUME StoreIsMap, DoneCovered, ResumesFromNewest, [StoreNext]_storeVars
    PROVE  ResumesFromNewest'
  <1>1. ASSUME UNCHANGED decisions PROVE ResumesFromNewest'
    BY <1>1 DEF ResumesFromNewest
  <1>2. ASSUME NEW t \in Task, NEW failed \in Agent, NEW new \in Agent, Failover(t, failed, new)
        PROVE  ResumesFromNewest'
    <2>1. \A c1, c2 \in Of(store, t) : c1 = c2
      BY DEF Of, StoreIsMap
    <2>2. \A s \in Of(done, t) : \E cp \in Of(store, t) : cp.version >= s.version
      BY DEF Of, DoneCovered
    <2>3. ASSUME NEW d \in decisions'
          PROVE  /\ \A c1, c2 \in d.checkpoint : c1 = c2
                 /\ \A s \in d.done : \E cp \in d.checkpoint : cp.version >= s.version
      <3>1. CASE d \in decisions
        BY <3>1 DEF ResumesFromNewest
      <3>2. CASE d.checkpoint = Of(store, t) /\ d.done = Of(done, t)
        BY <2>1, <2>2, <3>2
      <3>3. QED
        BY <1>2, <3>1, <3>2 DEF Failover
    <2>4. QED
      BY <2>3 DEF ResumesFromNewest
  <1>3. QED
    BY <1>1, <1>2
       DEF StoreNext, storeVars, SaveHistory, SaveStore, RemoveStore, RemoveHistory

\* History never outlives its checkpoint and the calls that touch it.
LEMMA HistoryStep ==
    ASSUME StoreTypeOK, NoOrphanHistory, [StoreNext]_storeVars
    PROVE  NoOrphanHistory'
  <1>1. ASSUME NEW w \in Worker, NEW data \in Checkpoint, SaveHistory(w, data)
        PROVE  NoOrphanHistory'
    <2>1. \E s \in saving' : s.data.task_id = data.task_id
      <3>1. [worker |-> w, data |-> data] \in saving'
        BY <1>1 DEF SaveHistory
      <3>2. QED
        BY <3>1
    <2>2. \A t \in Task : t # data.task_id => history'[t] = history[t]
      BY <1>1 DEF SaveHistory, StoreTypeOK
    <2>3. saving \subseteq saving' /\ UNCHANGED <<store, removing>>
      BY <1>1 DEF SaveHistory
    <2>4. QED
      BY <2>1, <2>2, <2>3 DEF NoOrphanHistory, Of
  <1>2. ASSUME NEW s \in saving, SaveStore(s) PROVE NoOrphanHistory'
    <2>1. Of(store', s.data.task_id) # {}
      BY <1>2 DEF SaveStore, ShouldUpdate, Of
    <2>2. \A t \in Task : t # s.data.task_id => Of(store', t) = Of(store, t)
      BY <1>2 DEF SaveStore, Of
    <2>3. \A x \in saving : x \in saving' \/ x = s
      BY <1>2 DEF SaveStore
    <2>4. QED
      BY <1>2, <2>1, <2>2, <2>3 DEF SaveStore, NoOrphanHistory
  <1>3. ASSUME NEW w \in Worker, NEW t \in Task, RemoveStore(w, t) PROVE NoOrphanHistory'
    <2>1. \E r \in removing' : r.task_id = t
      <3>1. [worker |-> w, task_id |-> t] \in removing'
        BY <1>3 DEF RemoveStore
      <3>2. QED
        BY <3>1
    <2>2. \A u \in Task : u # t => Of(store', u) = Of(store, u)
      BY <1>3 DEF RemoveStore, Of
    <2>3. QED
      BY <1>3, <2>1, <2>2 DEF RemoveStore, NoOrphanHistory
  <1>4. ASSUME NEW r \in removing, RemoveHistory(r) PROVE NoOrphanHistory'
    <2>1. history'[r.task_id] = <<>>
      BY <1>4 DEF RemoveHistory, StoreTypeOK
    <2>2. \A t \in Task : t # r.task_id => history'[t] = history[t]
      BY <1>4 DEF RemoveHistory, StoreTypeOK
    <2>3. \A x \in removing : x \in removing' \/ x = r
      BY <1>4 DEF RemoveHistory
    <2>4. QED
      BY <1>4, <2>1, <2>2, <2>3 DEF RemoveHistory, NoOrphanHistory, Of
  <1>5. ASSUME UNCHANGED <<store, history, saving, removing>> PROVE NoOrphanHistory'
    BY <1>5 DEF NoOrphanHistory, Of
  <1>6. QED
    BY <1>1, <1>2, <1>3, <1>4, <1>5 DEF StoreNext, storeVars, Failover

-----------------------------------------------------------------------------
\* The inductive invariant holds in every reachable state.
THEOREM StoreInvariance == StoreSpec => []StoreInv
  <1>1. StoreInit => StoreInv
    BY DEF StoreInit, StoreInv, StoreTypeOK, StoreIsMap, DoneCovered, ResumesFromNewest, NoOrphanHistory
  <1>2. StoreInv /\ [StoreNext]_storeVars => StoreInv'
    BY StoreTypeStep, StoreStep, DecisionStep, HistoryStep DEF StoreInv
  <1>3. QED
    BY <1>1, <1>2, PTL DEF StoreSpec

\* Types are kept by concurrent saves, removes and failovers.
THEOREM StoreTypeCorrect == StoreSpec => []StoreTypeOK
  <1>1. StoreInv => StoreTypeOK
    BY DEF StoreInv
  <1>2. QED
    BY <1>1, StoreInvariance, PTL

\* A failover never resumes from a checkpoint older than a completed save.
THEOREM FailoverResumesFromNewest == StoreSpec => []ResumesFromNewest
  <1>1. StoreInv => ResumesFromNewest
    BY DEF StoreInv
  <1>2. QED
    BY <1>1, StoreInvariance, PTL

\* Removing a task never leaves its history behind.
THEOREM HistoryIsFreed == StoreSpec => []NoOrphanHistory
  <1>1. StoreInv => NoOrphanHistory
    BY DEF StoreInv
  <1>2. QED
    BY <1>1, StoreInvariance, PTL

-----------------------------------------------------------------------------
(* HeartbeatMonitor                                                        *)

\* last_seen lags behind the last accepted heartbeat by no more than a thread
\* may have waited for the lock.
AgeBounded ==
    \A a \in Agent : agents[a].status # "Absent" => agents[a].age <= silence[a] + MaxStall

\* No check under way, nor one that starts now, can find a suspected agent
\* alive: its age grows with the time the check waits.
SuspectsStayOld ==
    \A a \in Agent : agents[a].status \in {"Suspected", "Dead"} =>
        /\ agents[a].age > Timeout
        /\ \A waited \in checker : agents[a].age > waited + Timeout

\* The inductive invariant.
IInv == TypeOK /\ AgeBounded /\ SuspectsStayOld /\ SuspicionJustified

-----------------------------------------------------------------------------
\* The ages at which the model saturates are beyond every limit of the code.
LEMMA OldIsOld ==
    /\ Old \in Nat /\ Timeout \in Nat \ {0} /\ MaxStall \in Nat /\ MaxStall <= Timeout
    /\ Old = 2 * Timeout + MaxStall + 1
    /\ 0 \in 0 .. MaxStall
  BY HeartbeatAssumption DEF Old

\* The entry that record_heartbeat leaves.
LEMMA RecordedEntry ==
    ASSUME NEW e \in AgentHeartbeatState, NEW m \in HeartbeatMsg,
           NEW waited \in 0 .. MaxStall
    PROVE  LET r   == Recorded(e, m, waited)
               new == e.status = "Absent" \/ m.sequence > e.last_sequence
           IN  /\ r \in AgentHeartbeatState
               /\ new => r.status = "Alive" /\ r.age = waited
               /\ ~new => r = e
               /\ e.status # "Absent" /\ r # e => r.last_sequence > e.last_sequence
  <1>1. /\ waited \in 0 .. Old /\ m.sequence \in 0 .. MaxSeq /\ m.queue_depth \in Depth
        /\ 0 \in Depth /\ 0 \in 0 .. MaxSeq /\ MaxSeq \in Nat
    BY OldIsOld, HeartbeatAssumption DEF HeartbeatMsg
  <1>2. e.last_sequence \in 0 .. MaxSeq
    BY DEF AgentHeartbeatState
  <1> DEFINE fresh(n, d) == [status |-> "Alive", last_sequence |-> n, age |-> waited,
                             queue_depth |-> d]
  <1>3. /\ fresh(0, 0) \in AgentHeartbeatState
        /\ fresh(m.sequence, m.queue_depth) \in AgentHeartbeatState
    BY <1>1 DEF AgentHeartbeatState
  <1>4. CASE e.status = "Absent"
    <2>1. Recorded(e, m, waited) \in {fresh(0, 0), fresh(m.sequence, m.queue_depth)}
      BY <1>4 DEF Recorded
    <2>2. QED
      BY <1>3, <1>4, <2>1
  <1>5. CASE e.status # "Absent"
    <2>1. Recorded(e, m, waited) = IF m.sequence > e.last_sequence
                                   THEN fresh(m.sequence, m.queue_depth) ELSE e
      BY <1>5 DEF Recorded
    <2>2. QED
      BY <1>3, <1>5, <2>1
  <1>6. QED
    BY <1>4, <1>5

\* The entry that check_all leaves.
LEMMA CheckedEntry ==
    ASSUME NEW e \in AgentHeartbeatState, NEW waited \in 0 .. MaxStall
    PROVE  LET c == Checked(e, waited)
           IN  /\ c \in AgentHeartbeatState
               /\ c.age = e.age /\ c.last_sequence = e.last_sequence
               /\ c.status = "Absent" <=> e.status = "Absent"
               /\ c.status = "Suspected" => e.age > waited + Timeout
               /\ c.status = "Dead" => e.age > waited + 2 * Timeout
               /\ c.status = "Alive" => e.age <= waited + Timeout
  <1>1. CASE e.status = "Absent"
    BY <1>1 DEF Checked
  <1>2. CASE e.status # "Absent"
    <2> DEFINE v == Verdict(e, waited)
    <2>1. e.age \in 0 .. Old /\ waited \in Nat /\ Timeout \in Nat /\ Old \in Nat
      BY OldIsOld DEF AgentHeartbeatState
    <2>2. /\ v \in {"Alive", "Suspected", "Dead"}
          /\ v = "Suspected" => e.age > waited + Timeout
          /\ v = "Dead" => e.age > waited + 2 * Timeout
          /\ v = "Alive" => e.age <= waited + Timeout
      BY <2>1 DEF Verdict
    <2> HIDE DEF v
    <2>3. Checked(e, waited) = [e EXCEPT !.status = v]
      BY <1>2 DEF Checked, v
    <2>4. /\ [e EXCEPT !.status = v] \in AgentHeartbeatState
          /\ [e EXCEPT !.status = v].status = v
          /\ [e EXCEPT !.status = v].age = e.age
          /\ [e EXCEPT !.status = v].last_sequence = e.last_sequence
      BY <2>2 DEF AgentHeartbeatState
    <2>5. QED
      BY <1>2, <2>2, <2>3, <2>4
  <1>3. QED
    BY <1>1, <1>2

\* A tick, on one entry.
OlderEntry(e) == IF e.status = "Absent" THEN e ELSE [e EXCEPT !.age = Later(@)]

LEMMA AgedEntry ==
    ASSUME NEW e \in AgentHeartbeatState
    PROVE  /\ OlderEntry(e) \in AgentHeartbeatState
           /\ OlderEntry(e).status = e.status /\ OlderEntry(e).last_sequence = e.last_sequence
           /\ e.status # "Absent" => OlderEntry(e).age = Later(e.age)
  <1>1. e.age \in 0 .. Old /\ Later(e.age) \in 0 .. Old
    BY OldIsOld DEF AgentHeartbeatState, Later
  <1>2. QED
    BY <1>1 DEF OlderEntry, AgentHeartbeatState

-----------------------------------------------------------------------------
\* The invariant of one agent besides its type.
AgentInv(a) ==
    /\ agents[a].status # "Absent" => agents[a].age <= silence[a] + MaxStall
    /\ agents[a].status \in {"Suspected", "Dead"} =>
         /\ agents[a].age > Timeout
         /\ \A waited \in checker : agents[a].age > waited + Timeout
    /\ agents[a].status = "Suspected" => silence[a] + MaxStall > Timeout
    /\ agents[a].status = "Dead" => silence[a] + MaxStall > 2 * Timeout

\* An agent whose entry and silence a step leaves alone.
LEMMA Undisturbed ==
    ASSUME NEW a \in Agent, TypeOK, AgentInv(a), checker' \subseteq checker \cup {0},
           agents'[a] = agents[a], silence'[a] = silence[a]
    PROVE  AgentInv(a)'
  <1>1. agents[a].age \in Nat /\ Timeout \in Nat
    BY OldIsOld DEF TypeOK, AgentHeartbeatState
  <1>2. QED
    BY <1>1 DEF AgentInv

\* A handler that moves on, or ends, is still a handler.
LEMMA HandlerMoves ==
    ASSUME NEW h \in Handler, NEW s \in {"record", "update", "is_overloaded", "build_message"}
    PROVE  /\ [h EXCEPT !.stage = s] \in Handler
           /\ [h EXCEPT !.stage = s, !.waited = 0] \in Handler
  BY OldIsOld DEF Handler

\* record_heartbeat.
LEMMA RecordStep ==
    ASSUME TypeOK, \A a \in Agent : AgentInv(a), NEW h \in handlers, Record(h)
    PROVE  TypeOK' /\ \A a \in Agent : AgentInv(a)'
  <1> DEFINE b == h.msg.from
             r == Recorded(agents[b], h.msg, h.waited)
             new == agents[b].status = "Absent" \/ h.msg.sequence > agents[b].last_sequence
  <1>1. /\ h \in Handler /\ h.msg \in HeartbeatMsg /\ b \in Agent
        /\ h.waited \in 0 .. MaxStall /\ agents[b] \in AgentHeartbeatState
    BY DEF TypeOK, Handler, HeartbeatMsg
  <1>2. /\ r \in AgentHeartbeatState
        /\ new => r.status = "Alive" /\ r.age = h.waited
        /\ ~new => r = agents[b]
    BY <1>1, RecordedEntry
  <1>3. /\ agents' = [agents EXCEPT ![b] = r]
        /\ silence' = IF new THEN [silence EXCEPT ![b] = 0] ELSE silence
        /\ handlers' = (handlers \ {h}) \cup {[h EXCEPT !.stage = "update", !.waited = 0]}
        /\ UNCHANGED <<load, checker, net, next_seq, crashed>>
    BY DEF Record
  <1> HIDE DEF b, r, new
  <1>4. [h EXCEPT !.stage = "update", !.waited = 0] \in Handler
    BY <1>1, HandlerMoves
  <1>5. 0 \in 0 .. Old
    BY OldIsOld
  <1>6. TypeOK'
    BY <1>1, <1>2, <1>3, <1>4, <1>5 DEF TypeOK
  <1>7. ASSUME NEW a \in Agent, a # b PROVE AgentInv(a)'
    <2>1. agents'[a] = agents[a] /\ silence'[a] = silence[a] /\ checker' = checker
      BY <1>3, <1>7 DEF TypeOK
    <2>2. QED
      BY <2>1, Undisturbed
  <1>8. AgentInv(b)'
    <2>1. CASE new
      <3>1. agents'[b] = r /\ silence'[b] = 0
        BY <1>1, <1>3, <2>1 DEF TypeOK
      <3>2. r.status = "Alive" /\ r.age <= 0 + MaxStall
        BY <1>1, <1>2, <2>1, OldIsOld
      <3>3. QED
        BY <3>1, <3>2 DEF AgentInv
    <2>2. CASE ~new
      <3>1. agents'[b] = agents[b] /\ silence'[b] = silence[b] /\ checker' = checker
        BY <1>1, <1>2, <1>3, <2>2 DEF TypeOK
      <3>2. QED
        BY <1>1, <3>1, Undisturbed
    <2>3. QED
      BY <2>1, <2>2
  <1>9. QED
    BY <1>6, <1>7, <1>8

\* check_all.
LEMMA CheckStep ==
    ASSUME TypeOK, \A a \in Agent : AgentInv(a), CheckAll
    PROVE  TypeOK' /\ \A a \in Agent : AgentInv(a)'
  <1>1. PICK waited \in checker :
          /\ agents' = [a \in Agent |-> Checked(agents[a], waited)]
          /\ checker' = {}
          /\ UNCHANGED <<load, handlers, net, next_seq, crashed, silence>>
    BY DEF CheckAll
  <1>2. waited \in 0 .. MaxStall /\ waited \in Nat
    BY OldIsOld DEF TypeOK
  <1>3. ASSUME NEW a \in Agent
        PROVE  LET c == Checked(agents[a], waited)
               IN  /\ c \in AgentHeartbeatState
                   /\ c.age = agents[a].age
                   /\ c.status = "Absent" <=> agents[a].status = "Absent"
                   /\ c.status = "Suspected" => agents[a].age > waited + Timeout
                   /\ c.status = "Dead" => agents[a].age > waited + 2 * Timeout
    <2>1. agents[a] \in AgentHeartbeatState
      BY DEF TypeOK
    <2>2. QED
      BY <1>2, <2>1, CheckedEntry
  <1>4. TypeOK'
    BY <1>1, <1>3 DEF TypeOK
  <1>5. ASSUME NEW a \in Agent PROVE AgentInv(a)'
    <2>1. /\ agents'[a] = Checked(agents[a], waited) /\ silence'[a] = silence[a]
          /\ agents[a].age \in Nat /\ silence[a] \in Nat /\ Timeout \in Nat
          /\ MaxStall \in Nat
      BY <1>1, OldIsOld DEF TypeOK, AgentHeartbeatState
    <2>2. agents'[a].age = agents[a].age
      BY <1>3, <2>1
    <2>3. agents'[a].status # "Absent" => agents[a].age <= silence[a] + MaxStall
      BY <1>3, <2>1 DEF AgentInv
    <2>4. agents'[a].status = "Suspected" => agents[a].age > waited + Timeout
      BY <1>3, <2>1
    <2>5. agents'[a].status = "Dead" => agents[a].age > waited + 2 * Timeout
      BY <1>3, <2>1
    <2>6. agents'[a].status \in {"Suspected", "Dead"} => agents[a].age > Timeout
      BY <1>2, <2>1, <2>4, <2>5
    <2>7. /\ agents'[a].status = "Suspected" => silence[a] + MaxStall > Timeout
          /\ agents'[a].status = "Dead" => silence[a] + MaxStall > 2 * Timeout
      BY <1>2, <2>1, <2>3, <2>4, <2>5
    <2>8. QED
      BY <1>1, <2>1, <2>2, <2>3, <2>6, <2>7 DEF AgentInv
  <1>6. QED
    BY <1>4, <1>5

\* Time passes.
LEMMA TickStep ==
    ASSUME TypeOK, \A a \in Agent : AgentInv(a), Tick
    PROVE  TypeOK' /\ \A a \in Agent : AgentInv(a)'
  <1>1. /\ agents' = [a \in Agent |-> OlderEntry(agents[a])]
        /\ silence' = [a \in Agent |-> Later(silence[a])]
        /\ checker' = {waited + 1 : waited \in checker}
        /\ UNCHANGED <<load, net, next_seq, crashed>>
    BY DEF Tick, OlderEntry
  <1>2. ASSUME NEW a \in Agent
        PROVE  /\ OlderEntry(agents[a]) \in AgentHeartbeatState
               /\ OlderEntry(agents[a]).status = agents[a].status
               /\ agents[a].status # "Absent" =>
                    OlderEntry(agents[a]).age = Later(agents[a].age)
    <2>1. agents[a] \in AgentHeartbeatState
      BY DEF TypeOK
    <2>2. QED
      BY <2>1, AgedEntry
  <1>3. \A n \in 0 .. Old : Later(n) \in 0 .. Old
    BY OldIsOld DEF Later
  <1>4. silence' \in [Agent -> 0 .. Old] /\ agents' \in [Agent -> AgentHeartbeatState]
    BY <1>1, <1>2, <1>3 DEF TypeOK
  <1>5. checker' \in SUBSET (0 .. MaxStall)
    <2>1. \A waited \in checker : waited \in 0 .. MaxStall /\ waited < MaxStall
      BY DEF TypeOK, Tick
    <2>2. QED
      BY <1>1, <2>1, OldIsOld
  <1>6. handlers' \in SUBSET Handler
    <2>1. ASSUME NEW h \in handlers
          PROVE  (IF h.stage = "record" THEN [h EXCEPT !.waited = @ + 1] ELSE h) \in Handler
      <3>1. h \in Handler
        BY DEF TypeOK
      <3>2. CASE h.stage = "record"
        <4>1. h.waited + 1 \in 0 .. MaxStall
          BY <3>1, <3>2, OldIsOld DEF Tick, Handler
        <4>2. [h EXCEPT !.waited = h.waited + 1] \in Handler
          BY <3>1, <4>1 DEF Handler
        <4>3. QED
          BY <3>2, <4>2
      <3>3. CASE h.stage # "record"
        BY <3>1, <3>3
      <3>4. QED
        BY <3>2, <3>3
    <2>2. handlers' = {IF h.stage = "record" THEN [h EXCEPT !.waited = @ + 1] ELSE h :
                         h \in handlers}
      BY DEF Tick
    <2>3. QED
      BY <2>1, <2>2
  <1>7. TypeOK'
    BY <1>1, <1>4, <1>5, <1>6 DEF TypeOK
  <1>8. ASSUME NEW a \in Agent PROVE AgentInv(a)'
    <2> DEFINE x == agents[a].age
               s == silence[a]
    <2>1. /\ agents'[a].status = agents[a].status
          /\ agents[a].status # "Absent" => agents'[a].age = Later(x)
          /\ silence'[a] = Later(s)
          /\ x \in 0 .. Old /\ s \in 0 .. Old
      BY <1>1, <1>2 DEF TypeOK, AgentHeartbeatState
    <2>2. agents[a].status # "Absent" => x <= s + MaxStall
      BY DEF AgentInv
    <2>3. x <= s + MaxStall => Later(x) <= Later(s) + MaxStall
      BY <2>1, OldIsOld DEF Later
    <2>4. x > Timeout => Later(x) > Timeout
      BY <2>1, OldIsOld DEF Later
    <2>5. ASSUME NEW w \in checker, x > w + Timeout PROVE Later(x) > (w + 1) + Timeout
      <3>1. w \in 0 .. MaxStall /\ w < MaxStall
        BY DEF TypeOK, Tick
      <3>2. QED
        BY <2>1, <2>5, <3>1, OldIsOld DEF Later
    <2>6. /\ s + MaxStall > Timeout => Later(s) + MaxStall > Timeout
          /\ s + MaxStall > 2 * Timeout => Later(s) + MaxStall > 2 * Timeout
      BY <2>1, OldIsOld DEF Later
    <2> HIDE DEF x, s
    <2>7. agents[a].status \in {"Suspected", "Dead"} =>
            x > Timeout /\ \A w \in checker : x > w + Timeout
      BY DEF AgentInv, x
    <2>8. agents'[a].status \in {"Suspected", "Dead"} =>
            /\ agents'[a].age > Timeout
            /\ \A w \in checker' : agents'[a].age > w + Timeout
      BY <1>1, <2>1, <2>4, <2>5, <2>7
    <2>9. /\ agents'[a].status # "Absent" => agents'[a].age <= silence'[a] + MaxStall
          /\ agents'[a].status = "Suspected" => silence'[a] + MaxStall > Timeout
          /\ agents'[a].status = "Dead" => silence'[a] + MaxStall > 2 * Timeout
      BY <2>1, <2>2, <2>3, <2>6 DEF AgentInv, s
    <2>10. QED
      BY <2>8, <2>9 DEF AgentInv
  <1>9. QED
    BY <1>7, <1>8

\* remove_agent of the monitor.
LEMMA RemoveStep ==
    ASSUME TypeOK, \A a \in Agent : AgentInv(a), NEW b \in Agent, RemoveAgent(b)
    PROVE  TypeOK' /\ \A a \in Agent : AgentInv(a)'
  <1>1. NoAgent \in AgentHeartbeatState /\ NoAgent.status = "Absent"
    BY OldIsOld, HeartbeatAssumption DEF NoAgent, AgentHeartbeatState
  <1>2. /\ agents' = [agents EXCEPT ![b] = NoAgent]
        /\ UNCHANGED <<load, handlers, checker, net, next_seq, crashed, silence>>
    BY DEF RemoveAgent
  <1>3. TypeOK'
    BY <1>1, <1>2 DEF TypeOK
  <1>4. agents'[b].status = "Absent"
    BY <1>1, <1>2 DEF TypeOK
  <1>5. ASSUME NEW a \in Agent, a # b PROVE AgentInv(a)'
    BY <1>2, <1>5, Undisturbed DEF TypeOK
  <1>6. QED
    BY <1>3, <1>4, <1>5 DEF AgentInv

\* The steps that leave every entry of the monitor alone.
LEMMA OtherStep ==
    ASSUME TypeOK, \A a \in Agent : AgentInv(a),
           \/ \E a \in Agent, d \in Depth : Send(a, d) \/ HandleBackpressure(a, d)
           \/ \E a \in Agent : Crash(a) \/ RemoveLoad(a)
           \/ \E w \in HandlerThread, m \in net : Deliver(w, m)
           \/ \E h \in handlers : UpdateLoad(h) \/ TestOverload(h) \/ Reply(h)
           \/ CheckStart
           \/ UNCHANGED vars
    PROVE  /\ TypeOK' /\ \A a \in Agent : AgentInv(a)'
           /\ agents' = agents
  <1>1. ASSUME TypeOK', checker' \subseteq checker \cup {0}, UNCHANGED <<agents, silence>>
        PROVE  TypeOK' /\ (\A a \in Agent : AgentInv(a)') /\ agents' = agents
    BY <1>1, Undisturbed
  <1>2. ASSUME NEW a \in Agent, NEW d \in Depth, Send(a, d)
        PROVE  TypeOK' /\ (\A b \in Agent : AgentInv(b)') /\ agents' = agents
    <2>1. next_seq[a] \in 0 .. MaxSeq /\ next_seq[a] + 1 \in 0 .. MaxSeq + 1
      BY <1>2, HeartbeatAssumption DEF Send, TypeOK
    <2>2. [from |-> a, sequence |-> next_seq[a], queue_depth |-> d] \in HeartbeatMsg
      BY <2>1 DEF HeartbeatMsg
    <2>3. TypeOK'
      BY <1>2, <2>1, <2>2 DEF Send, TypeOK
    <2>4. QED
      BY <1>1, <1>2, <2>3 DEF Send
  <1>3. ASSUME NEW a \in Agent, NEW d \in Depth, HandleBackpressure(a, d)
        PROVE  TypeOK' /\ (\A b \in Agent : AgentInv(b)') /\ agents' = agents
    BY <1>1, <1>3 DEF HandleBackpressure, TypeOK
  <1>4. ASSUME NEW a \in Agent, Crash(a) \/ RemoveLoad(a)
        PROVE  TypeOK' /\ (\A b \in Agent : AgentInv(b)') /\ agents' = agents
    BY <1>1, <1>4, HeartbeatAssumption DEF Crash, RemoveLoad, TypeOK
  <1>5. ASSUME NEW w \in HandlerThread, NEW m \in net, Deliver(w, m)
        PROVE  TypeOK' /\ (\A b \in Agent : AgentInv(b)') /\ agents' = agents
    <2>1. [worker |-> w, msg |-> m, waited |-> 0, stage |-> "record"] \in Handler
      BY OldIsOld DEF Handler, TypeOK
    <2>2. TypeOK'
      BY <1>5, <2>1 DEF Deliver, TypeOK
    <2>3. QED
      BY <1>1, <1>5, <2>2 DEF Deliver
  <1>6. ASSUME NEW h \in handlers, UpdateLoad(h) \/ TestOverload(h) \/ Reply(h)
        PROVE  TypeOK' /\ (\A b \in Agent : AgentInv(b)') /\ agents' = agents
    <2>1. /\ h \in Handler /\ h.msg.from \in Agent /\ h.msg.queue_depth \in Depth
      BY DEF TypeOK, Handler, HeartbeatMsg
    <2>2. /\ [h EXCEPT !.stage = "is_overloaded"] \in Handler
          /\ [h EXCEPT !.stage = "build_message"] \in Handler
      BY <2>1, HandlerMoves
    <2>3. handlers' \in SUBSET Handler
      BY <1>6, <2>2 DEF UpdateLoad, TestOverload, Reply, TypeOK
    <2>4. load' \in [Agent -> Depth]
      BY <1>6, <2>1 DEF UpdateLoad, TestOverload, Reply, TypeOK
    <2>5. UNCHANGED <<agents, checker, net, next_seq, crashed, silence>>
      BY <1>6 DEF UpdateLoad, TestOverload, Reply
    <2>6. TypeOK'
      BY <2>3, <2>4, <2>5 DEF TypeOK
    <2>7. QED
      BY <1>1, <2>5, <2>6
  <1>7. CASE CheckStart
    <2>1. TypeOK'
      BY <1>7, OldIsOld DEF CheckStart, TypeOK
    <2>2. QED
      BY <1>1, <1>7, <2>1 DEF CheckStart
  <1>8. CASE UNCHANGED vars
    BY <1>1, <1>8 DEF vars, TypeOK
  <1>9. QED
    BY <1>2, <1>3, <1>4, <1>5, <1>6, <1>7, <1>8

\* Every step keeps the invariant.
LEMMA InvStep == IInv /\ [Next]_vars => IInv'
  <1> SUFFICES ASSUME IInv, [Next]_vars PROVE IInv'
    OBVIOUS
  <1>1. TypeOK /\ \A a \in Agent : AgentInv(a)
    BY DEF IInv, AgeBounded, SuspectsStayOld, SuspicionJustified, AgentInv
  <1>2. TypeOK' /\ \A a \in Agent : AgentInv(a)'
    <2>1. ASSUME NEW h \in handlers, Record(h)
          PROVE  TypeOK' /\ \A a \in Agent : AgentInv(a)'
      BY <1>1, <2>1, RecordStep
    <2>2. CASE CheckAll
      BY <1>1, <2>2, CheckStep
    <2>3. CASE Tick
      BY <1>1, <2>3, TickStep
    <2>4. ASSUME NEW b \in Agent, RemoveAgent(b)
          PROVE  TypeOK' /\ \A a \in Agent : AgentInv(a)'
      BY <1>1, <2>4, RemoveStep
    <2>5. QED
      BY <1>1, <2>1, <2>2, <2>3, <2>4, OtherStep DEF Next, Handle
  <1>3. QED
    BY <1>2 DEF IInv, AgeBounded, SuspectsStayOld, SuspicionJustified, AgentInv

\* The invariant holds throughout.
LEMMA Invariance == Spec => []IInv
  <1>1. Init => IInv
    <2> SUFFICES ASSUME Init PROVE IInv
      OBVIOUS
    <2>1. NoAgent \in AgentHeartbeatState /\ NoAgent.status = "Absent"
      BY OldIsOld, HeartbeatAssumption DEF NoAgent, AgentHeartbeatState
    <2>2. TypeOK
      BY <2>1, OldIsOld, HeartbeatAssumption DEF Init, TypeOK
    <2>3. \A a \in Agent : agents[a].status = "Absent"
      BY <2>1 DEF Init
    <2>4. QED
      BY <2>2, <2>3 DEF IInv, AgeBounded, SuspectsStayOld, SuspicionJustified
  <1>2. QED
    BY <1>1, InvStep, PTL DEF Spec

-----------------------------------------------------------------------------
\* The monitor, the tracker, and the calls between their locks stay
\* well-formed.
THEOREM TypeCorrect == Spec => []TypeOK
  <1>1. IInv => TypeOK
    BY DEF IInv
  <1>2. QED
    BY <1>1, Invariance, PTL

\* check_all suspects nobody, and declares nobody dead, who was not silent
\* for the timeout, or twice the timeout, up to the wait for a lock.
THEOREM SuspectsJustly == Spec => []SuspicionJustified
  <1>1. IInv => SuspicionJustified
    BY DEF IInv
  <1>2. QED
    BY <1>1, Invariance, PTL

\* Only a heartbeat newer than all accepted before brings a suspected or dead
\* agent back: no duplicate, no late one, and no check with an early `now'.
THEOREM RevivesOnNews == Spec => RevivalIsNews
  <1> DEFINE News(a) == agents[a].status \in {"Suspected", "Dead"}
                          /\ agents'[a].status = "Alive"
                            => agents'[a].last_sequence > agents[a].last_sequence
  <1>1. ASSUME IInv, Next, NEW a \in Agent PROVE News(a)
    <2>1. /\ TypeOK /\ agents[a] \in AgentHeartbeatState
          /\ \A b \in Agent : AgentInv(b)
      BY <1>1 DEF IInv, AgeBounded, SuspectsStayOld, SuspicionJustified, AgentInv, TypeOK
    <2>2. agents'[a] = agents[a] => News(a)
      OBVIOUS
    <2>3. ASSUME NEW h \in handlers, Record(h) PROVE News(a)
      <3>1. /\ h.msg \in HeartbeatMsg /\ h.msg.from \in Agent /\ h.waited \in 0 .. MaxStall
        BY <2>1 DEF TypeOK, Handler, HeartbeatMsg
      <3>2. CASE h.msg.from = a
        <4>1. agents'[a] = Recorded(agents[a], h.msg, h.waited)
          BY <2>1, <2>3, <3>2 DEF Record, TypeOK
        <4>2. agents[a].status # "Absent" /\ agents'[a] # agents[a] =>
                agents'[a].last_sequence > agents[a].last_sequence
          BY <2>1, <3>1, <4>1, RecordedEntry
        <4>3. QED
          BY <4>2
      <3>3. CASE h.msg.from # a
        BY <2>1, <2>2, <2>3, <3>3 DEF Record, TypeOK
      <3>4. QED
        BY <3>2, <3>3
    <2>4. ASSUME CheckAll PROVE News(a)
      <3>1. PICK waited \in checker : agents'[a] = Checked(agents[a], waited)
        BY <2>4 DEF CheckAll
      <3>2. waited \in 0 .. MaxStall /\ waited \in Nat
        BY <2>1, OldIsOld DEF TypeOK
      <3>3. agents'[a].status = "Alive" => agents[a].age <= waited + Timeout
        BY <2>1, <3>1, <3>2, CheckedEntry
      <3>4. agents[a].status \in {"Suspected", "Dead"} => agents[a].age > waited + Timeout
        BY <2>1 DEF AgentInv
      <3>5. agents[a].age \in Nat /\ Timeout \in Nat
        BY <2>1, OldIsOld DEF AgentHeartbeatState
      <3>6. QED
        BY <3>2, <3>3, <3>4, <3>5
    <2>5. ASSUME Tick PROVE News(a)
      <3>1. agents'[a] = OlderEntry(agents[a])
        BY <2>5 DEF Tick, OlderEntry
      <3>2. agents'[a].status = agents[a].status
        BY <2>1, <3>1, AgedEntry
      <3>3. QED
        BY <3>2
    <2>6. ASSUME NEW b \in Agent, RemoveAgent(b) PROVE News(a)
      <3>1. NoAgent.status = "Absent"
        BY DEF NoAgent
      <3>2. agents'[a] = IF a = b THEN NoAgent ELSE agents[a]
        BY <2>1, <2>6 DEF RemoveAgent, TypeOK
      <3>3. QED
        BY <3>1, <3>2
    <2>7. QED
      BY <1>1, <2>1, <2>2, <2>3, <2>4, <2>5, <2>6, OtherStep DEF Next, Handle
  <1>2. IInv /\ [Next]_vars => [\A a \in Agent : News(a)]_vars
    BY <1>1
  <1>3. QED
    BY <1>2, Invariance, PTL DEF Spec, RevivalIsNews

-----------------------------------------------------------------------------
(* CircuitBreaker                                                          *)

\* CooldownRespected is not inductive: what keeps it is that an OPEN entry's
\* own clock and the ghost clock agree.
OpenClock ==
    \A a \in Agent :
        breakers[a].state = "Open" => breakers[a].elapsed = sinceTrip[a]

\* The inductive invariant behind every theorem of this module.
BreakerInv == BreakerTypeOK /\ ClosedCountsExactly /\ CooldownRespected /\ OpenClock

-----------------------------------------------------------------------------
\* Each method maps an entry to an entry (the bodies in circuit_breaker.rs).
LEMMA OpsType ==
    ASSUME NEW e \in BreakerState
    PROVE  /\ AfterAllow(e) \in BreakerState
           /\ AfterSuccess(e) \in BreakerState
           /\ AfterFailure(e) \in BreakerState
           /\ AfterReset(e) \in BreakerState
           /\ Aged(e) \in BreakerState
  <1> USE BreakerAssumption
  <1>1. AfterAllow(e) \in BreakerState
    BY DEF AfterAllow, BreakerState, CircuitState
  <1>2. AfterSuccess(e) \in BreakerState
    BY DEF AfterSuccess, NewBreaker, BreakerState, CircuitState
  <1>3. AfterFailure(e) \in BreakerState
    BY DEF AfterFailure, BreakerState, CircuitState
  <1>4. AfterReset(e) \in BreakerState
    BY DEF AfterReset, NewBreaker, BreakerState, CircuitState
  <1>5. Aged(e) \in BreakerState
    BY DEF Aged, BreakerState, CircuitState
  <1>6. QED
    BY <1>1, <1>2, <1>3, <1>4, <1>5

\* What a step of BreakerNext does to the variables, without the grants' identity.
StepOf(a) ==
    \/ breakers' = [breakers EXCEPT ![a] = AfterAllow(@)]
       /\ streak' = streak /\ sinceTrip' = sinceTrip
    \/ RecordSuccess(a)
    \/ RecordFailure(a)
    \/ breakers' = [breakers EXCEPT ![a] = AfterReset(@)]
       /\ streak' = [streak EXCEPT ![a] = 0] /\ sinceTrip' = sinceTrip

\* Every step changes at most one agent's entry by one method, or lets time
\* pass, or leaves the entries alone; admitted requests stay well formed.
LEMMA StepShape ==
    ASSUME BreakerTypeOK, [BreakerNext]_breakerVars
    PROVE  /\ grants' \in SUBSET Grant
           /\ \/ \E a \in Agent : StepOf(a)
              \/ BreakerTick
              \/ UNCHANGED <<breakers, streak, sinceTrip>>
  <1>1. ASSUME NEW c \in Caller, NEW a \in Agent, AllowRequest(c, a)
        PROVE  grants' \in SUBSET Grant /\ StepOf(a)
    <2>1. StepOf(a)
      BY <1>1 DEF AllowRequest, StepOf
    <2>2. Admits(breakers[a]) => AfterAllow(breakers[a]).state \in {"Closed", "HalfOpen"}
      BY DEF BreakerTypeOK, BreakerState, CircuitState, Admits, AfterAllow
    <2>3. grants' \in SUBSET Grant
      BY <1>1, <2>2 DEF AllowRequest, BreakerTypeOK, Grant
    <2>4. QED
      BY <2>1, <2>3
  <1>2. ASSUME NEW g \in grants, ReportSuccess(g) \/ ReportFailure(g) \/ Abandon(g)
        PROVE  /\ grants' \in SUBSET Grant
               /\ (\E a \in Agent : StepOf(a)) \/ UNCHANGED <<breakers, streak, sinceTrip>>
    <2>1. g.agent \in Agent
      BY DEF BreakerTypeOK, Grant
    <2>2. QED
      BY <1>2, <2>1 DEF ReportSuccess, ReportFailure, Abandon, StepOf, BreakerTypeOK
  <1>3. ASSUME NEW a \in Agent, PeerSuccess(a) \/ PeerFailure(a) \/ Reset(a)
        PROVE  grants' \in SUBSET Grant /\ StepOf(a)
    BY <1>3 DEF PeerSuccess, PeerFailure, Reset, StepOf, BreakerTypeOK
  <1>4. CASE BreakerTick
    BY <1>4 DEF BreakerTick, BreakerTypeOK
  <1>5. CASE UNCHANGED breakerVars
    BY <1>5 DEF breakerVars, BreakerTypeOK
  <1>6. QED
    BY <1>1, <1>2, <1>3, <1>4, <1>5 DEF BreakerNext

-----------------------------------------------------------------------------
\* The invariant read at one agent.
EntryInv(a) ==
    /\ breakers[a].state = "Closed" =>
         breakers[a].consecutive_failures = streak[a] /\ streak[a] < Threshold
    /\ breakers[a].state = "HalfOpen" => sinceTrip[a] = Cooldown
    /\ breakers[a].state = "Open" => breakers[a].elapsed = sinceTrip[a]

\* The invariant holds initially and every step keeps it.
LEMMA Inductive == (BreakerInit => BreakerInv) /\ (BreakerInv /\ [BreakerNext]_breakerVars => BreakerInv')
  <1> USE BreakerAssumption
  <1>1. BreakerInit => BreakerInv
    BY DEF BreakerInit, BreakerInv, BreakerTypeOK, ClosedCountsExactly, CooldownRespected, OpenClock,
           NewBreaker, BreakerState, CircuitState
  <1>2. ASSUME BreakerInv, [BreakerNext]_breakerVars PROVE BreakerInv'
    <2>0. BreakerTypeOK /\ \A b \in Agent : EntryInv(b)
      BY <1>2 DEF BreakerInv, EntryInv, ClosedCountsExactly, CooldownRespected, OpenClock
    <2>1. SUFFICES BreakerTypeOK' /\ \A b \in Agent : EntryInv(b)'
      BY DEF BreakerInv, EntryInv, ClosedCountsExactly, CooldownRespected, OpenClock
    <2>2. grants' \in SUBSET Grant
      BY <1>2, <2>0, StepShape
    <2>3. ASSUME NEW a \in Agent, StepOf(a)
          PROVE  BreakerTypeOK' /\ \A b \in Agent : EntryInv(b)'
      <3>1. breakers[a] \in BreakerState /\ streak[a] \in Nat /\ sinceTrip[a] \in 0 .. Cooldown
        BY <2>0 DEF BreakerTypeOK
      <3>2. BreakerTypeOK'
        BY <2>0, <2>2, <2>3, <3>1, OpsType
           DEF BreakerTypeOK, StepOf, RecordSuccess, RecordFailure
      <3>3. ASSUME NEW b \in Agent, b # a PROVE EntryInv(b)'
        BY <2>0, <2>3, <3>3 DEF BreakerTypeOK, StepOf, RecordSuccess, RecordFailure, EntryInv
      <3>4. EntryInv(a)'
        <4>1. CASE /\ breakers' = [breakers EXCEPT ![a] = AfterAllow(@)]
                   /\ streak' = streak /\ sinceTrip' = sinceTrip
          <5>1. /\ breakers'[a] = AfterAllow(breakers[a])
                /\ streak'[a] = streak[a] /\ sinceTrip'[a] = sinceTrip[a]
            BY <2>0, <4>1 DEF BreakerTypeOK
          <5>2. CASE breakers[a].state = "Open" /\ breakers[a].elapsed >= Cooldown
            <6>1. sinceTrip[a] = Cooldown
              BY <2>0, <3>1, <5>2 DEF EntryInv, BreakerState
            <6>2. breakers'[a].state = "HalfOpen"
              BY <5>1, <5>2 DEF AfterAllow
            <6>3. QED
              BY <5>1, <6>1, <6>2 DEF EntryInv
          <5>3. CASE ~(breakers[a].state = "Open" /\ breakers[a].elapsed >= Cooldown)
            <6>1. breakers'[a] = breakers[a]
              BY <5>1, <5>3 DEF AfterAllow
            <6>2. QED
              BY <2>0, <5>1, <6>1 DEF EntryInv
          <5>4. QED
            BY <5>2, <5>3
        <4>2. CASE RecordSuccess(a)
          BY <2>0, <3>1, <4>2
             DEF BreakerTypeOK, EntryInv, RecordSuccess, AfterSuccess, NewBreaker,
                 BreakerState, CircuitState
        <4>3. CASE RecordFailure(a)
          BY <2>0, <3>1, <4>3
             DEF BreakerTypeOK, EntryInv, RecordFailure, AfterFailure, BreakerState, CircuitState
        <4>4. CASE /\ breakers' = [breakers EXCEPT ![a] = AfterReset(@)]
                   /\ streak' = [streak EXCEPT ![a] = 0] /\ sinceTrip' = sinceTrip
          BY <2>0, <3>1, <4>4
             DEF BreakerTypeOK, EntryInv, AfterReset, NewBreaker, BreakerState, CircuitState
        <4>5. QED
          BY <2>3, <4>1, <4>2, <4>3, <4>4 DEF StepOf
      <3>5. QED
        BY <3>2, <3>3, <3>4
    <2>4. ASSUME BreakerTick PROVE BreakerTypeOK' /\ \A b \in Agent : EntryInv(b)'
      <3>1. BreakerTypeOK'
        BY <2>0, <2>4, OpsType DEF BreakerTypeOK, BreakerTick
      <3>2. ASSUME NEW b \in Agent PROVE EntryInv(b)'
        BY <2>0, <2>4 DEF BreakerTypeOK, BreakerTick, EntryInv, Aged, BreakerState, CircuitState
      <3>3. QED
        BY <3>1, <3>2
    <2>5. ASSUME UNCHANGED <<breakers, streak, sinceTrip>>
          PROVE  BreakerTypeOK' /\ \A b \in Agent : EntryInv(b)'
      BY <2>0, <2>2, <2>5 DEF BreakerTypeOK, EntryInv
    <2>6. QED
      BY <1>2, <2>0, <2>3, <2>4, <2>5, StepShape
  <1>3. QED
    BY <1>1, <1>2

\* The inductive invariant holds in every reachable state.
THEOREM BreakerInvariance == BreakerSpec => []BreakerInv
  BY Inductive, PTL DEF BreakerSpec

\* Every field of every entry keeps its type, whoever calls the breaker.
THEOREM BreakerTypeCorrect == BreakerSpec => []BreakerTypeOK
  <1>1. BreakerInv => BreakerTypeOK
    BY DEF BreakerInv
  <1>2. QED
    BY <1>1, BreakerInvariance, PTL

\* A CLOSED breaker counts exactly the failures since the last success or
\* reset, and has fewer than the threshold.
THEOREM CountsExactly == BreakerSpec => []ClosedCountsExactly
  <1>1. BreakerInv => ClosedCountsExactly
    BY DEF BreakerInv
  <1>2. QED
    BY <1>1, BreakerInvariance, PTL

\* No breaker is probed before a full cool-down has passed since it last
\* tripped.
THEOREM CooldownIsRespected == BreakerSpec => []CooldownRespected
  <1>1. BreakerInv => CooldownRespected
    BY DEF BreakerInv
  <1>2. QED
    BY <1>1, BreakerInvariance, PTL

-----------------------------------------------------------------------------
\* The abstract state of CircuitBreaker under the refinement mapping.
AbsPhase == [a \in Agent |-> PhaseOf(breakers[a])]

\* A method changes the phase of an entry as BreakerProtocol allows.
LEMMA EntryPhase ==
    ASSUME NEW e \in BreakerState
    PROVE  /\ PhaseOf(e) \in Protocol!Phase
           /\ \/ PhaseOf(AfterAllow(e)) = PhaseOf(e)
              \/ PhaseOf(e) = "Cooled" /\ PhaseOf(AfterAllow(e)) = "HalfOpen"
           /\ \/ PhaseOf(AfterSuccess(e)) = PhaseOf(e)
              \/ PhaseOf(e) = "HalfOpen" /\ PhaseOf(AfterSuccess(e)) = "Closed"
           /\ \/ PhaseOf(AfterFailure(e)) = PhaseOf(e)
              \/ PhaseOf(e) \in {"Closed", "HalfOpen"} /\ PhaseOf(AfterFailure(e)) = "Cooling"
           /\ PhaseOf(AfterReset(e)) = "Closed"
           /\ \/ PhaseOf(Aged(e)) = PhaseOf(e)
              \/ PhaseOf(e) = "Cooling" /\ PhaseOf(Aged(e)) = "Cooled"
  <1> USE BreakerAssumption DEF PhaseOf, BreakerState, CircuitState
  <1>1. PhaseOf(e) \in Protocol!Phase
    BY DEF Protocol!Phase
  <1>2. \/ PhaseOf(AfterAllow(e)) = PhaseOf(e)
        \/ PhaseOf(e) = "Cooled" /\ PhaseOf(AfterAllow(e)) = "HalfOpen"
    BY DEF AfterAllow
  <1>3. \/ PhaseOf(AfterSuccess(e)) = PhaseOf(e)
        \/ PhaseOf(e) = "HalfOpen" /\ PhaseOf(AfterSuccess(e)) = "Closed"
    BY DEF AfterSuccess, NewBreaker
  <1>4. \/ PhaseOf(AfterFailure(e)) = PhaseOf(e)
        \/ PhaseOf(e) \in {"Closed", "HalfOpen"} /\ PhaseOf(AfterFailure(e)) = "Cooling"
    BY DEF AfterFailure
  <1>5. PhaseOf(AfterReset(e)) = "Closed"
    BY DEF AfterReset, NewBreaker
  <1>6. \/ PhaseOf(Aged(e)) = PhaseOf(e)
        \/ PhaseOf(e) = "Cooling" /\ PhaseOf(Aged(e)) = "Cooled"
    BY DEF Aged
  <1> HIDE DEF PhaseOf, BreakerState, CircuitState
  <1>7. QED
    BY <1>1, <1>2, <1>3, <1>4, <1>5, <1>6

\* Every step of the breaker is a step of the protocol, or leaves it alone.
LEMMA StepRefines ==
    ASSUME BreakerTypeOK, [BreakerNext]_breakerVars
    PROVE  [Protocol!Next]_AbsPhase
  <1> USE DEF AbsPhase
  <1>1. ASSUME NEW a \in Agent, StepOf(a)
        PROVE  [Protocol!Next]_AbsPhase
    <2>1. breakers[a] \in BreakerState
      BY DEF BreakerTypeOK
    <2>2. PICK e \in {AfterAllow(breakers[a]), AfterSuccess(breakers[a]),
                     AfterFailure(breakers[a]), AfterReset(breakers[a])} :
            breakers' = [breakers EXCEPT ![a] = e]
      BY <1>1 DEF StepOf, RecordSuccess, RecordFailure
    <2>3. AbsPhase' = [AbsPhase EXCEPT ![a] = PhaseOf(e)]
      BY <2>2 DEF BreakerTypeOK
    <2>4. CASE PhaseOf(e) = PhaseOf(breakers[a])
      <3>1. AbsPhase' = AbsPhase
        BY <2>3, <2>4
      <3>2. QED
        BY <3>1
    <2>5. CASE PhaseOf(e) = "Closed"
      <3>1. Protocol!Reset(a)
        BY <2>3, <2>5 DEF Protocol!Reset
      <3>2. QED
        BY <3>1 DEF Protocol!Next
    <2>6. CASE PhaseOf(breakers[a]) = "Cooled" /\ PhaseOf(e) = "HalfOpen"
      <3>1. Protocol!Probe(a)
        BY <2>3, <2>6 DEF Protocol!Probe, Protocol!Move
      <3>2. QED
        BY <3>1 DEF Protocol!Next
    <2>7. CASE PhaseOf(breakers[a]) \in {"Closed", "HalfOpen"} /\ PhaseOf(e) = "Cooling"
      <3>1. Protocol!Trip(a) \/ Protocol!ProbeFail(a)
        BY <2>3, <2>7 DEF Protocol!Trip, Protocol!ProbeFail, Protocol!Move
      <3>2. QED
        BY <3>1 DEF Protocol!Next
    <2>8. QED
      BY <2>1, <2>2, <2>4, <2>5, <2>6, <2>7, EntryPhase
  <1>2. CASE BreakerTick
    <2>1. \A a \in Agent : breakers[a] \in BreakerState /\ Aged(breakers[a]) \in BreakerState
      BY OpsType DEF BreakerTypeOK
    <2>2. AbsPhase' = [a \in Agent |-> PhaseOf(Aged(breakers[a]))]
      BY <1>2 DEF BreakerTick
    <2>3. AbsPhase' \in [Agent -> Protocol!Phase]
      BY <2>1, <2>2, EntryPhase
    <2>4. \A a \in Agent : \/ AbsPhase'[a] = AbsPhase[a]
                           \/ AbsPhase[a] = "Cooling" /\ AbsPhase'[a] = "Cooled"
      <3>1. TAKE a \in Agent
      <3>2. AbsPhase'[a] = PhaseOf(Aged(breakers[a])) /\ AbsPhase[a] = PhaseOf(breakers[a])
        BY <2>2
      <3> HIDE DEF AbsPhase
      <3>3. QED
        BY <2>1, <3>2, EntryPhase
    <2>5. Protocol!CoolDown
      BY <2>3, <2>4 DEF Protocol!CoolDown
    <2>6. QED
      BY <2>5 DEF Protocol!Next
  <1>3. CASE UNCHANGED <<breakers, streak, sinceTrip>>
    BY <1>3
  <1>4. QED
    BY <1>1, <1>2, <1>3, StepShape

\* The breaker implements the three-state protocol of its header comment:
\* CLOSED -> OPEN -> (cool-down) -> HALF_OPEN -> CLOSED or OPEN, or a reset.
THEOREM RefinesProtocol == BreakerSpec => ImplementsProtocol
  <1>1. BreakerInit => Protocol!Init
    BY BreakerAssumption DEF BreakerInit, Protocol!Init, PhaseOf, NewBreaker
  <1>2. BreakerTypeOK /\ [BreakerNext]_breakerVars => [Protocol!Next]_AbsPhase
    BY StepRefines
  <1>3. QED
    BY <1>1, <1>2, BreakerTypeCorrect, PTL DEF BreakerSpec, ImplementsProtocol, Protocol!Spec, AbsPhase
================================================================================
