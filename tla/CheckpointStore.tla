---------------------------- MODULE CheckpointStore ----------------------------
(***************************************************************************)
(* CheckpointStore (atp-fault/src/checkpoint.rs) shared by worker threads. *)
(* The hot store and the history have a lock each and no method holds both: *)
(* save writes the history, then the store; remove clears the store, then  *)
(* the history.  Each half is an action, so other calls run between them.  *)
(* The snapshot's bytes are opaque to the store and are left out.          *)
(***************************************************************************)
EXTENDS Workers, Naturals, Sequences

CONSTANTS Version,
          MaxHistory   \* bound: length of one task's history

ASSUME VersionAssumption == Version \subseteq Nat /\ MaxHistory \in Nat

Checkpoint == [task_id : Task, agent_id : Agent, version : Version]

VARIABLES
    store,       \* the hot store: the checkpoints it holds, one per task
    history,     \* per task, every checkpoint pushed since the last remove
    saving,      \* saves between their two halves
    removing,    \* removes between their two halves
    decisions,   \* the latest FailoverDecision of each task
    done         \* history variable: checkpoints whose save has completed
                 \* since the store last dropped their task

storeVars == <<store, history, saving, removing, decisions, done>>

\* A decision carries the checkpoint to resume from (a set of at most one)
\* and, for the properties, what had been saved when it was taken.
FailoverDecision ==
    [task_id : Task, failed_agent : Agent, new_agent : Agent,
     checkpoint : SUBSET Checkpoint, done : SUBSET Checkpoint]

StoreTypeOK ==
    /\ store \in SUBSET Checkpoint
    /\ history \in [Task -> Seq(Checkpoint)]
    /\ saving \in SUBSET [worker : Worker, data : Checkpoint]
    /\ removing \in SUBSET [worker : Worker, task_id : Task]
    /\ decisions \in SUBSET FailoverDecision
    /\ done \in SUBSET Checkpoint

StoreInit ==
    /\ store = {}
    /\ history = [t \in Task |-> <<>>]
    /\ saving = {} /\ removing = {}
    /\ decisions = {}
    /\ done = {}

Of(S, t) == {cp \in S : cp.task_id = t}

StoreIdle(w) ==
    /\ \A s \in saving : s.worker # w
    /\ \A r \in removing : r.worker # w

-----------------------------------------------------------------------------

\* Slips the runs must catch, each named for what it gets wrong.
LastWriterWins(data) == TRUE

RemoveForgetsHistory(r) ==
    /\ removing' = removing \ {r}
    /\ UNCHANGED <<store, history, saving, decisions, done>>

\* save, first half: "Update history first."
SaveHistory(w, data) ==
    /\ StoreIdle(w)
    /\ Len(history[data.task_id]) < MaxHistory
    /\ history' = [history EXCEPT ![data.task_id] = Append(@, data)]
    /\ saving' = saving \cup {[worker |-> w, data |-> data]}
    /\ UNCHANGED <<store, removing, decisions, done>>

ShouldUpdate(data) == \A existing \in Of(store, data.task_id) :
                         data.version > existing.version

\* save, second half: the hot store keeps the newer version.
SaveStore(s) ==
    /\ saving' = saving \ {s}
    /\ store' = IF ShouldUpdate(s.data)
                THEN (store \ Of(store, s.data.task_id)) \cup {s.data}
                ELSE store
    /\ done' = done \cup {s.data}
    /\ UNCHANGED <<history, removing, decisions>>

\* remove, first half.
RemoveStore(w, t) ==
    /\ StoreIdle(w)
    /\ store' = store \ Of(store, t)
    /\ removing' = removing \cup {[worker |-> w, task_id |-> t]}
    /\ done' = done \ Of(done, t)
    /\ UNCHANGED <<history, saving, decisions>>

\* remove, second half.
RemoveHistory(r) ==
    /\ removing' = removing \ {r}
    /\ history' = [history EXCEPT ![r.task_id] = <<>>]
    /\ UNCHANGED <<store, saving, decisions, done>>

\* failover: Err when the new agent is the failed one, else whatever get returns.
Failover(t, failed, new) ==
    /\ failed # new
    /\ decisions' =
         {d \in decisions : d.task_id # t} \cup
         {[task_id |-> t, failed_agent |-> failed, new_agent |-> new,
           checkpoint |-> Of(store, t), done |-> Of(done, t)]}
    /\ UNCHANGED <<store, history, saving, removing, done>>

StoreNext ==
    \/ \E w \in Worker, data \in Checkpoint : SaveHistory(w, data)
    \/ \E s \in saving : SaveStore(s)
    \/ \E w \in Worker, t \in Task : RemoveStore(w, t)
    \/ \E r \in removing : RemoveHistory(r)
    \/ \E t \in Task, failed, new \in Agent : Failover(t, failed, new)

StoreSpec == StoreInit /\ [][StoreNext]_storeVars

-----------------------------------------------------------------------------
(* Properties                                                              *)

\* A failover resumes from one checkpoint at least as new as every save that
\* had completed, and was not removed, when it was decided, in whatever order
\* concurrent saves reached the two locks (save, failover).
ResumesFromNewest ==
    \A d \in decisions :
        /\ \A c1, c2 \in d.checkpoint : c1 = c2
        /\ \A s \in d.done : \E cp \in d.checkpoint : cp.version >= s.version

\* History without a checkpoint is never left behind: a task that has history
\* is in the hot store, or a save or remove of it is half way.  This is what
\* the opposite lock orders of save and remove are for: remove frees the
\* memory of a completed task whatever ran beside it.
NoOrphanHistory ==
    \A t \in Task : history[t] # <<>> =>
        \/ Of(store, t) # {}
        \/ \E s \in saving : s.data.task_id = t
        \/ \E r \in removing : r.task_id = t
=============================================================================
