---------------------------- MODULE HeartbeatMonitor ----------------------------
(***************************************************************************)
(* How a node follows the health and the load of remote agents:            *)
(* HeartbeatMonitor and AgentLoadTracker (atp-fault/src/heartbeat.rs,      *)
(* backpressure.rs), fed by MessageDispatcher::handle_heartbeat            *)
(* (atp-node/src/dispatcher.rs) and evaluated by a periodic check_all.     *)
(* Handlers run concurrently: the monitor and the tracker have a lock      *)
(* each, and `now' is read before the monitor's lock is taken.  The        *)
(* network loses, duplicates and reorders heartbeats.                      *)
(*                                                                         *)
(* An entry keeps `now - last_seen', saturated, instead of last_seen.  The *)
(* tracker's rate estimate feeds no decision and is left out; an agent the *)
(* tracker does not know has depth 0 (is_overloaded: unwrap_or(false)).    *)
(***************************************************************************)
EXTENDS Agents, Naturals

CONSTANTS HandlerThread,
          Depth,            \* queue depths an agent may report
          QueueThreshold,   \* FaultConfig::backpressure_threshold
          Timeout,          \* heartbeat_interval * heartbeat_timeout_multiplier
          MaxSeq,           \* bound: sequence numbers used
          MaxStall          \* longest wait of a thread for the monitor's lock

ASSUME HeartbeatAssumption ==
    /\ Depth \subseteq Nat /\ 0 \in Depth
    /\ QueueThreshold \in Nat /\ MaxSeq \in Nat
    /\ Timeout \in Nat \ {0}
    /\ MaxStall \in 0 .. Timeout

VARIABLES
    agents,     \* HeartbeatMonitor::agents; status "Absent": no entry
    load,       \* AgentLoadTracker::agents, the queue depths
    handlers,   \* handle_heartbeat calls under way
    checker,    \* check_all calls that have read `now' (the one checker task)
    net,        \* heartbeats sent; any of them may be delivered, again too
    next_seq,   \* per agent, the sequence number of its next heartbeat
    crashed,    \* agents that have stopped for good
    silence     \* history: ticks since the monitor last accepted a heartbeat

vars == <<agents, load, handlers, checker, net, next_seq, crashed, silence>>

\* From this age on an entry is dead for every check still to come.
Old == 2 * Timeout + MaxStall + 1

HeartbeatMsg == [from : Agent, sequence : 0 .. MaxSeq, queue_depth : Depth]

AgentHeartbeatState ==
    [status : {"Absent", "Alive", "Suspected", "Dead"},
     last_sequence : 0 .. MaxSeq, age : 0 .. Old, queue_depth : Depth]

NoAgent == [status |-> "Absent", last_sequence |-> 0, age |-> 0, queue_depth |-> 0]

\* stage: the next lock the handler takes.
Handler == [worker : HandlerThread, msg : HeartbeatMsg, waited : 0 .. MaxStall,
            stage : {"record", "update", "is_overloaded", "build_message"}]

TypeOK ==
    /\ agents \in [Agent -> AgentHeartbeatState]
    /\ load \in [Agent -> Depth]
    /\ handlers \in SUBSET Handler
    /\ checker \in SUBSET (0 .. MaxStall)
    /\ net \in SUBSET HeartbeatMsg
    /\ next_seq \in [Agent -> 0 .. MaxSeq + 1]
    /\ crashed \in SUBSET Agent
    /\ silence \in [Agent -> 0 .. Old]

Init ==
    /\ agents = [a \in Agent |-> NoAgent]
    /\ load = [a \in Agent |-> 0]
    /\ handlers = {} /\ checker = {}
    /\ net = {}
    /\ next_seq = [a \in Agent |-> 0]
    /\ crashed = {}
    /\ silence = [a \in Agent |-> Old]

-----------------------------------------------------------------------------
(* The remote agents                                                       *)

\* generate_heartbeat: the agent's caller supplies increasing sequence numbers.
Send(a, depth) ==
    /\ a \notin crashed
    /\ next_seq[a] <= MaxSeq
    /\ net' = net \cup {[from |-> a, sequence |-> next_seq[a], queue_depth |-> depth]}
    /\ next_seq' = [next_seq EXCEPT ![a] = @ + 1]
    /\ UNCHANGED <<agents, load, handlers, checker, crashed, silence>>

Crash(a) ==
    /\ a \notin crashed
    /\ crashed' = crashed \cup {a}
    /\ UNCHANGED <<agents, load, handlers, checker, net, next_seq, silence>>

-----------------------------------------------------------------------------
(* handle_heartbeat                                                        *)

\* The handler starts: record_heartbeat has read `now'.
Deliver(w, m) ==
    /\ \A h \in handlers : h.worker # w
    /\ handlers' = handlers \cup
         {[worker |-> w, msg |-> m, waited |-> 0, stage |-> "record"]}
    /\ UNCHANGED <<agents, load, checker, net, next_seq, crashed, silence>>

\* Slips the runs must catch, each named for what it gets wrong.
KeepsLastSeen(e, m, waited) ==
    IF e.status = "Absent" \/ m.sequence > e.last_sequence
    THEN [e EXCEPT !.status = "Alive", !.last_sequence = m.sequence,
                   !.queue_depth = m.queue_depth]
    ELSE e

RevivesAnyway(e, m, waited) ==
    IF m.sequence > e.last_sequence
    THEN [status |-> "Alive", last_sequence |-> m.sequence, age |-> waited,
          queue_depth |-> m.queue_depth]
    ELSE [e EXCEPT !.status = "Alive"]

AcceptsDuplicates(e, m, waited) ==
    IF e.status = "Absent" \/ m.sequence >= e.last_sequence
    THEN [status |-> "Alive", last_sequence |-> m.sequence, age |-> waited,
          queue_depth |-> m.queue_depth]
    ELSE e

\* record_heartbeat on the entry e, `now' having been read `waited' ticks ago.
Recorded(e, m, waited) ==
    LET entry == IF e.status = "Absent"
                 THEN [status |-> "Alive", last_sequence |-> 0, age |-> waited,
                       queue_depth |-> 0]
                 ELSE e
    IN  IF m.sequence > entry.last_sequence
        THEN [status |-> "Alive", last_sequence |-> m.sequence, age |-> waited,
              queue_depth |-> m.queue_depth]
        ELSE entry

Record(h) ==
    LET a == h.msg.from IN
    /\ h.stage = "record"
    /\ agents' = [agents EXCEPT ![a] = Recorded(@, h.msg, h.waited)]
    /\ silence' = IF \/ agents[a].status = "Absent"
                     \/ h.msg.sequence > agents[a].last_sequence
                  THEN [silence EXCEPT ![a] = 0]
                  ELSE silence
    /\ handlers' = (handlers \ {h}) \cup {[h EXCEPT !.stage = "update", !.waited = 0]}
    /\ UNCHANGED <<load, checker, net, next_seq, crashed>>

\* AgentLoadTracker::update_from_heartbeat.
UpdateLoad(h) ==
    /\ h.stage = "update"
    /\ load' = [load EXCEPT ![h.msg.from] = h.msg.queue_depth]
    /\ handlers' = (handlers \ {h}) \cup {[h EXCEPT !.stage = "is_overloaded"]}
    /\ UNCHANGED <<agents, checker, net, next_seq, crashed, silence>>

IsOverloaded(a) == load[a] > QueueThreshold

TestOverload(h) ==
    /\ h.stage = "is_overloaded"
    /\ handlers' = IF IsOverloaded(h.msg.from)
                   THEN (handlers \ {h}) \cup {[h EXCEPT !.stage = "build_message"]}
                   ELSE handlers \ {h}
    /\ UNCHANGED <<agents, load, checker, net, next_seq, crashed, silence>>

\* build_message: the BACKPRESSURE reply is the handler's last step.
Reply(h) ==
    /\ h.stage = "build_message"
    /\ handlers' = handlers \ {h}
    /\ UNCHANGED <<agents, load, checker, net, next_seq, crashed, silence>>

Handle(h) == Record(h) \/ UpdateLoad(h) \/ TestOverload(h) \/ Reply(h)

-----------------------------------------------------------------------------
(* The checker task, departures, time                                      *)

CheckStart ==
    /\ checker = {}
    /\ checker' = {0}
    /\ UNCHANGED <<agents, load, handlers, net, next_seq, crashed, silence>>

\* The verdict of check_all on an entry, `now' having been read `waited' ticks ago.
Verdict(e, waited) ==
    CASE e.age <= waited + Timeout -> "Alive"
      [] e.age > waited + Timeout /\ e.age <= waited + 2 * Timeout -> "Suspected"
      [] OTHER -> "Dead"

Checked(e, waited) ==
    IF e.status = "Absent" THEN e ELSE [e EXCEPT !.status = Verdict(e, waited)]

CheckAll ==
    \E waited \in checker :
        /\ agents' = [a \in Agent |-> Checked(agents[a], waited)]
        /\ checker' = {}
        /\ UNCHANGED <<load, handlers, net, next_seq, crashed, silence>>

\* remove_agent of the monitor and of the tracker.
RemoveAgent(a) ==
    /\ agents' = [agents EXCEPT ![a] = NoAgent]
    /\ UNCHANGED <<load, handlers, checker, net, next_seq, crashed, silence>>

RemoveLoad(a) ==
    /\ load' = [load EXCEPT ![a] = 0]
    /\ UNCHANGED <<agents, handlers, checker, net, next_seq, crashed, silence>>

\* handle_backpressure: update_from_backpressure overwrites the depth too.
HandleBackpressure(a, depth) ==
    /\ load' = [load EXCEPT ![a] = depth]
    /\ UNCHANGED <<agents, handlers, checker, net, next_seq, crashed, silence>>

Later(n) == IF n < Old THEN n + 1 ELSE n

\* Ages grow, and so does the time the threads have been waiting for the lock.
Tick ==
    /\ \A h \in handlers : h.stage = "record" => h.waited < MaxStall
    /\ \A waited \in checker : waited < MaxStall
    /\ agents' = [a \in Agent |->
                    IF agents[a].status = "Absent" THEN agents[a]
                    ELSE [agents[a] EXCEPT !.age = Later(@)]]
    /\ silence' = [a \in Agent |-> Later(silence[a])]
    /\ handlers' = {IF h.stage = "record" THEN [h EXCEPT !.waited = @ + 1] ELSE h :
                      h \in handlers}
    /\ checker' = {waited + 1 : waited \in checker}
    /\ UNCHANGED <<load, net, next_seq, crashed>>

Next ==
    \/ \E a \in Agent, d \in Depth : Send(a, d)
    \/ \E a \in Agent : Crash(a)
    \/ \E w \in HandlerThread, m \in net : Deliver(w, m)
    \/ \E h \in handlers : Handle(h)
    \/ CheckStart
    \/ CheckAll
    \/ Tick
    \/ \E a \in Agent : RemoveAgent(a) \/ RemoveLoad(a)
    \/ \E a \in Agent, d \in Depth : HandleBackpressure(a, d)

Spec == Init /\ [][Next]_vars

\* Time passes, handlers finish, and the check task runs on its timer.
Fairness ==
    /\ WF_vars(Tick)
    /\ \A w \in HandlerThread : WF_vars(\E h \in handlers : h.worker = w /\ Handle(h))
    /\ WF_vars(CheckStart)
    /\ WF_vars(CheckAll)

FairSpec == Spec /\ Fairness

-----------------------------------------------------------------------------
(* Properties                                                              *)

\* No agent is suspected, or declared dead, unless it has been silent for the
\* timeout, or twice the timeout, up to the time a thread may wait for the
\* lock: last_seen can move backwards when handlers overtake each other, but
\* by no more than that (record_heartbeat, check_all).
SuspicionJustified ==
    \A a \in Agent :
        /\ agents[a].status = "Suspected" => silence[a] + MaxStall > Timeout
        /\ agents[a].status = "Dead" => silence[a] + MaxStall > 2 * Timeout

\* What brings a suspected or dead agent back is a heartbeat newer than all
\* those accepted before: never a duplicate or a late one, and never check_all
\* working with a `now' read before the lock.
RevivalIsNews ==
    [][\A a \in Agent :
         agents[a].status \in {"Suspected", "Dead"} /\ agents'[a].status = "Alive"
            => agents'[a].last_sequence > agents[a].last_sequence]_vars

\* A crashed agent the monitor tracks is eventually declared dead, or removed:
\* old heartbeats still in the network, delivered late or twice, cannot keep
\* it alive (record_heartbeat, check_all).
FailureDetected ==
    \A a \in Agent :
        a \in crashed /\ agents[a].status # "Absent"
            ~> agents[a].status \in {"Dead", "Absent"}

=============================================================================
