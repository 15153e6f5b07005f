----------------------------- MODULE Transport -----------------------------
(***************************************************************************)
(* A call of the ATP gRPC service: AtpClient (client.rs), the connection,  *)
(* AtpServer with its handlers (server.rs), and the task that streams the  *)
(* results of stream_results.                                              *)
(*                                                                         *)
(* AtpServer is used through &self and keeps nothing between calls, and a  *)
(* call touches one handler, so a behaviour is one call after another; the *)
(* parties of a call run concurrently.  tonic, the connection and handlers *)
(* other than DefaultHandler are external: a request or an answer may be   *)
(* lost with the connection, the caller may drop its future at any await,  *)
(* and a server that notices drops the handler's future.                   *)
(***************************************************************************)
EXTENDS Codec, FiniteSets

CONSTANTS
  Requests(_),      \* messages an AtpClient may send, per method
  Distortions(_, _),\* Distortions(m, w): requests a foreign peer may send
                    \* that differ from a well formed w
  Answers(_),       \* answers a custom handler may give, per method
  Capacity,         \* mpsc::channel(64)
  MaxNow            \* bound on the clock

VARIABLES
  now,         \* Utc::now(), in ticks
  caller,      \* idle, waiting, reading, or one of Ended
  method,      \* the RPC called
  sent,        \* Some(message) an AtpClient was given; None for a foreign peer
  asked,       \* Some(request) as it was put on the wire
  wire,        \* the request is on its way
  linked,      \* the connection carries the call
  handler,     \* idle, running, returned, refused, failed or cancelled
  got,         \* Some(message) the handler was given
  given,       \* what the handler returned: the messages of its answer
  reply,       \* Some(answer) on its way back
  todo,        \* results the streaming task has still to send
  chan,        \* the mpsc channel: encoded results
  producer,    \* the streaming task: none, running or done
  received     \* messages the client has decoded

vars == <<now, caller, method, sent, asked, wire, linked, handler, got, given,
          reply, todo, chan, producer, received>>

clientVars == <<caller, method, sent, asked>>
serverVars == <<handler, got, given>>
streamVars == <<todo, chan, producer>>

RequestSchema ==
  [probe                    |-> ProbeSchema,
   accept_contract          |-> ContractAcceptSchema,
   submit_task              |-> TaskSubmitSchema,
   stream_results           |-> TaskQuerySchema,
   request_context          |-> ContextRequestSchema,
   query_route              |-> RouteQuerySchema,
   send_heartbeat           |-> HeartbeatSchema,
   report_backpressure      |-> BackpressureSchema,
   report_circuit_break     |-> CircuitBreakSchema,
   submit_interaction_proof |-> InteractionProofSchema]

Methods == DOMAIN RequestSchema

(* The messages an answer consists of: one, but for the lists of routes    *)
(* and of results.                                                         *)
ResponseSchema ==
  [m \in Methods |->
     CASE m = "probe"           -> OfferSchema
       [] m = "stream_results"  -> TaskResultSchema
       [] m = "request_context" -> ContextResponseSchema
       [] m = "query_route"     -> RouteSchema
       [] OTHER                 -> AckSchema]

(* Messages are what the types allow, and the clock shows what chrono      *)
(* holds.                                                                  *)
ASSUME TransportAssumption ==
  /\ Capacity \in Nat \ {0}
  /\ MaxNow \in Nat /\ IsInstant(MaxNow + 1)
  /\ \A m \in Methods :
       /\ \A msg \in Requests(m) : Typed(RequestSchema[m], msg)
       /\ \A msg \in Requests(m), t \in 0..MaxNow :
            \A w \in Distortions(m, Encode(RequestSchema[m], msg, t)) :
              \A f \in DomainFields(RequestSchema[m]) :
                WireTyped(RequestSchema[m][f], w[f])
       /\ \A answer \in Answers(m) :
            /\ answer \in Seq(Members(answer))
            /\ \A i \in DOMAIN answer : Typed(ResponseSchema[m], answer[i])

Ended == {"ok", "error", "dropped"}

EncodeAll(m, msgs) ==
  [i \in DOMAIN msgs |-> Encode(ResponseSchema[m], msgs[i], now)]
AllDecodable(m, ws) ==
  \A i \in DOMAIN ws : Decodable(ResponseSchema[m], ws[i])
DecodeAll(m, ws) ==
  [i \in DOMAIN ws |-> Decode(ResponseSchema[m], ws[i], now)]

-----------------------------------------------------------------------------
(* The caller.                                                             *)

AtRest ==
  /\ caller = "idle" /\ method = "probe" /\ sent = None /\ asked = None
  /\ wire = FALSE /\ linked = TRUE
  /\ handler = "idle" /\ got = None /\ given = <<>>
  /\ reply = None /\ todo = <<>> /\ chan = <<>> /\ producer = "none"
  /\ received = <<>>

Init == AtRest /\ now = 0

(* A typed method of AtpClient encodes its message and awaits the answer.  *)
Call(m, msg) ==
  /\ caller = "idle"
  /\ caller' = "waiting"
  /\ method' = m
  /\ sent' = Some(msg)
  /\ asked' = Some(Encode(RequestSchema[m], msg, now))
  /\ wire' = TRUE
  /\ UNCHANGED <<now, linked, serverVars, reply, streamVars, received>>

(* A peer that is not an AtpClient sends what it likes.                    *)
ForeignCall(m, w) ==
  /\ caller = "idle"
  /\ caller' = "waiting"
  /\ method' = m
  /\ asked' = Some(w)
  /\ wire' = TRUE
  /\ UNCHANGED <<now, sent, linked, serverVars, reply, streamVars, received>>

(* The answer arrives: a status ends the call, results are read one by     *)
(* one, any other answer is decoded.                                       *)
Answered ==
  /\ caller = "waiting" /\ linked /\ reply # None
  /\ LET answer == reply[1]
         readable == AllDecodable(method, answer.msgs)
     IN /\ caller' = IF answer.status # "ok" THEN "error"
                     ELSE IF method = "stream_results" THEN "reading"
                     ELSE IF readable THEN "ok" ELSE "error"
        /\ received' = IF caller' = "ok" THEN DecodeAll(method, answer.msgs)
                       ELSE <<>>
  /\ reply' = None
  /\ UNCHANGED <<now, method, sent, asked, wire, linked, serverVars,
                 streamVars>>

(* stream.message(): the next result, which must decode; on an error the   *)
(* stream is dropped with the results read so far.                         *)
ReadResult ==
  /\ caller = "reading" /\ linked /\ chan # <<>>
  /\ chan' = Tail(chan)
  /\ IF Decodable(TaskResultSchema, Head(chan))
     THEN /\ received' =
               Append(received, Decode(TaskResultSchema, Head(chan), now))
          /\ UNCHANGED <<caller, linked>>
     ELSE /\ caller' = "error" /\ linked' = FALSE
          /\ UNCHANGED received
  /\ UNCHANGED <<now, method, sent, asked, wire, serverVars, reply, todo,
                 producer>>

(* stream.message() is None once the sender is gone and all is read.       *)
EndOfStream ==
  /\ caller = "reading" /\ linked /\ chan = <<>> /\ producer = "done"
  /\ caller' = "ok"
  /\ UNCHANGED <<now, method, sent, asked, wire, linked, serverVars, reply,
                 streamVars, received>>

(* The connection fails, or the caller drops the future it was awaiting.   *)
Interrupt(end) ==
  /\ caller \in {"waiting", "reading"}
  /\ caller' = end
  /\ linked' = FALSE
  /\ received' = <<>>
  /\ UNCHANGED <<now, method, sent, asked, wire, serverVars, reply,
                 streamVars>>

(* Calls are independent: the next one starts when this one has left       *)
(* nothing running.                                                        *)
NextCall ==
  /\ caller \in Ended
  /\ ~wire /\ handler # "running" /\ producer # "running"
  /\ caller' = "idle" /\ method' = "probe" /\ sent' = None /\ asked' = None
  /\ wire' = FALSE /\ linked' = TRUE
  /\ handler' = "idle" /\ got' = None /\ given' = <<>>
  /\ reply' = None /\ todo' = <<>> /\ chan' = <<>> /\ producer' = "none"
  /\ received' = <<>>
  /\ UNCHANGED now

-----------------------------------------------------------------------------
(* The server.                                                             *)

(* Each RPC decodes first; a CodecError is INVALID_ARGUMENT.               *)
Receive ==
  /\ wire /\ handler = "idle"
  /\ wire' = FALSE
  /\ IF Decodable(RequestSchema[method], asked[1])
     THEN /\ handler' = "running"
          /\ got' = Some(Decode(RequestSchema[method], asked[1], now))
          /\ UNCHANGED reply
     ELSE /\ handler' = "refused"
          /\ reply' = Some([status |-> "INVALID_ARGUMENT", msgs |-> <<>>])
          /\ UNCHANGED got
  /\ UNCHANGED <<now, clientVars, linked, given, streamVars, received>>

(* DefaultHandler: a stub answer to each request.                          *)
DefaultTtl == 60 * TicksPerSec
DefaultLatency == 100 * TicksPerMs

DefaultAnswer(m, req) ==
  CASE m = "probe" ->
         <<[from |-> "fresh", ttl |-> DefaultTtl, timestamp |-> now,
            capability |-> [task_type |-> req.task_type, body |-> "stub",
                            estimated_latency |-> DefaultLatency],
            body |-> req.body]>>
    [] m = "request_context" ->
         <<[task_id |-> ToText(req.task_id), body |-> "no chunks"]>>
    [] m \in {"stream_results", "query_route"} -> <<>>
    [] OTHER -> <<[body |-> "accepted"]>>

(* build() gives each layer its custom handler or the default one.         *)
HandlerAnswers(m, req) == {DefaultAnswer(m, req)} \cup Answers(m)

(* The handler answers: results are handed to a task of their own, any     *)
(* other answer is encoded and returned.                                   *)
HandlerReturns(msgs) ==
  /\ handler = "running"
  /\ handler' = "returned"
  /\ given' = msgs
  /\ IF method = "stream_results"
     THEN /\ producer' = "running"
          /\ todo' = msgs
          /\ reply' = Some([status |-> "ok", msgs |-> <<>>])
     ELSE /\ reply' = Some([status |-> "ok",
                            msgs |-> EncodeAll(method, msgs)])
          /\ UNCHANGED <<todo, producer>>
  /\ UNCHANGED <<now, clientVars, wire, linked, got, chan, received>>

HandlerFails ==
  /\ handler = "running"
  /\ handler' = "failed"
  /\ reply' = Some([status |-> "handler status", msgs |-> <<>>])
  /\ UNCHANGED <<now, clientVars, wire, linked, got, given, streamVars,
                 received>>

(* Slips of the streaming task: it drops a result when there is no room,   *)
(* retries a send that failed because the receiver is gone, or keeps its   *)
(* sender after the loop.                                                  *)
TrySend ==
  /\ producer = "running" /\ todo # <<>> /\ linked
  /\ chan' = IF Len(chan) < Capacity
             THEN Append(chan, Encode(TaskResultSchema, Head(todo), now))
             ELSE chan
  /\ todo' = Tail(todo)
  /\ UNCHANGED <<now, clientVars, wire, linked, serverVars, reply, producer,
                 received>>

RetriesSend ==
  /\ producer = "running" /\ todo # <<>> /\ ~linked
  /\ UNCHANGED vars

SenderKept ==
  /\ producer = "running" /\ todo = <<>>
  /\ UNCHANGED vars

(* tx.send(..).await waits for room.                                       *)
SendResult ==
  /\ producer = "running" /\ todo # <<>> /\ linked
  /\ Len(chan) < Capacity
  /\ chan' = Append(chan, Encode(TaskResultSchema, Head(todo), now))
  /\ todo' = Tail(todo)
  /\ UNCHANGED <<now, clientVars, wire, linked, serverVars, reply, producer,
                 received>>

(* It fails once the receiver is dropped, waiting or not: break.           *)
ReceiverGone ==
  /\ producer = "running" /\ todo # <<>> /\ ~linked
  /\ producer' = "done"
  /\ UNCHANGED <<now, clientVars, wire, linked, serverVars, reply, todo, chan,
                 received>>

(* The loop is over, and dropping tx closes the channel.                   *)
AllSent ==
  /\ producer = "running" /\ todo = <<>>
  /\ producer' = "done"
  /\ UNCHANGED <<now, clientVars, wire, linked, serverVars, reply, todo, chan,
                 received>>

-----------------------------------------------------------------------------
(* The connection and the clock.                                           *)

(* With the connection gone the request may never arrive, ...              *)
RequestLost ==
  /\ wire /\ ~linked
  /\ wire' = FALSE
  /\ UNCHANGED <<now, clientVars, linked, serverVars, reply, streamVars,
                 received>>

(* ... and tonic drops a handler that is still running.                    *)
HandlerDropped ==
  /\ handler = "running" /\ ~linked
  /\ handler' = "cancelled"
  /\ UNCHANGED <<now, clientVars, wire, linked, got, given, reply, streamVars,
                 received>>

Tick ==
  /\ now < MaxNow
  /\ now' = now + 1
  /\ UNCHANGED <<clientVars, wire, linked, serverVars, reply, streamVars,
                 received>>

Next ==
  \/ \E m \in Methods : \E msg \in Requests(m) :
       \/ Call(m, msg)
       \/ \E w \in Distortions(m, Encode(RequestSchema[m], msg, now)) :
            ForeignCall(m, w)
  \/ Answered \/ ReadResult \/ EndOfStream
  \/ \E end \in {"error", "dropped"} : Interrupt(end)
  \/ NextCall
  \/ Receive
  \/ /\ handler = "running"
     /\ \E msgs \in HandlerAnswers(method, got[1]) : HandlerReturns(msgs)
  \/ HandlerFails
  \/ SendResult \/ ReceiverGone \/ AllSent
  \/ RequestLost \/ HandlerDropped
  \/ Tick

(* The runtime polls every task that is ready, tonic delivers what a live  *)
(* connection carries, and a handler's future completes.                   *)
Fairness ==
  /\ WF_vars(Receive) /\ WF_vars(Answered) /\ WF_vars(ReadResult)
  /\ WF_vars(EndOfStream) /\ WF_vars(SendResult) /\ WF_vars(ReceiverGone)
  /\ WF_vars(AllSent)
  /\ WF_vars(HandlerFails \/ HandlerDropped
             \/ /\ handler = "running"
                /\ \E msgs \in HandlerAnswers(method, got[1]) :
                     HandlerReturns(msgs))

Spec == Init /\ [][Next]_vars
FairSpec == Spec /\ Fairness
-----------------------------------------------------------------------------
(* A handler is given what the client was given: every field of the        *)
(* request survives encoding and decoding, deadlines and limits lose less  *)
(* than a millisecond and are never extended.  The widths of the wire are  *)
(* the limit: a duration of more milliseconds than a u64, and a probe's    *)
(* embedding of more dimensions than a u32, arrive smaller than they were  *)
(* sent, never larger (codec.rs; server.rs RPCs).                          *)
HandledAsSent ==
  got # None /\ sent # None =>
    MessagePreserved(RequestSchema[method], sent[1], got[1])

(* The wire values the code replaces instead of refusing: an absent or     *)
(* unrepresentable timestamp or expiry becomes the receiver's clock, an    *)
(* unknown preferred pattern none, a hash of another length a full one.    *)
Replaced(kind, w) ==
  CASE kind = "instant" ->
         w = None \/ w # Some(DatetimeToProto(ProtoToDatetime(w[1], MaxNow + 1)))
    [] kind = "expiry" -> ~ExpiryRepresentable(w)
    [] kind = "preferred" -> w \notin 0..Len(Patterns)
    [] kind = "diff" -> w # None /\ Len(w[1].base_hash) # HashLen
    [] OTHER -> FALSE

(* Whatever peer sends it, a request reaches a handler only if every field *)
(* says what the handler is told: encoding what the handler was given      *)
(* yields the request again, but for the documented replacements.          *)
NothingGuessed ==
  got # None =>
    \A f \in DomainFields(RequestSchema[method]) :
      LET kind == RequestSchema[method][f]
      IN \/ EncodeField(kind, got[1][f], now) = asked[1][f]
         \/ Replaced(kind, asked[1][f])

(* Ok means served: when a typed client method returns Ok, the handler has *)
(* run and returned, and the caller holds all of its answer in order, not  *)
(* a prefix (client.rs stream_results, server.rs stream_results).          *)
OkIsTheAnswer ==
  caller = "ok" /\ sent # None =>
    /\ handler = "returned"
    /\ Len(received) = Len(given)
    /\ \A i \in DOMAIN given :
         MessagePreserved(ResponseSchema[method], given[i], received[i])

(* Every call ends: the caller's future completes whatever the handler     *)
(* answers and however much it streams through the bounded channel.        *)
CallEnds == caller \in {"waiting", "reading"} ~> caller \in Ended

(* A caller that goes away leaves nothing running: the handler ends and    *)
(* the streaming task does not wait for ever on a channel nobody reads     *)
(* (server.rs:398 breaks when the receiver is dropped).                    *)
NothingLeftBehind ==
  ~linked ~> handler # "running" /\ producer # "running"

=============================================================================
