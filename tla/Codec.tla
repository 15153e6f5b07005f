------------------------------- MODULE Codec -------------------------------
(***************************************************************************)
(* The conversions between domain messages and their protobuf form         *)
(* (crates/atp-transport/src/codec.rs).                                    *)
(*                                                                         *)
(* A message is described once, by the kind of each of its fields: the     *)
(* code's x_to_proto and proto_to_x treat the fields of a kind alike.  The *)
(* fields that are copied in both directions are one field, body.          *)
(*                                                                         *)
(* Time counts in ticks, TicksPerMs to the millisecond: the finest         *)
(* difference a Duration or a DateTime can hold.  A wire u64 has Width     *)
(* bits, a wire u32 HalfWidth.                                             *)
(***************************************************************************)
EXTENDS Integers, Sequences

CONSTANTS
  TicksPerMs,     \* ticks in a millisecond
  MsPerSec,       \* milliseconds in a second
  Width,          \* bits of the wire's 64 bit integers
  HalfWidth,      \* bits of the wire's 32 bit integers
  MaxSecond,      \* chrono holds instants from -MaxSecond to MaxSecond seconds
  HashLen         \* bytes of ContextDiff.base_hash

TicksPerSec == TicksPerMs * MsPerSec

U64 == 2 ^ Width
U32 == 2 ^ HalfWidth

ASSUME CodecAssumption ==
  /\ TicksPerMs \in Nat \ {0} /\ MsPerSec \in Nat \ {0}
  /\ Width \in Nat \ {0} /\ HalfWidth \in Nat \ {0}
  /\ MaxSecond \in Nat /\ HashLen \in Nat
  \* arithmetic, for the provers, which do not know powers
  /\ U64 \in Nat \ {0} /\ U32 \in Nat \ {0}
  \* every instant chrono holds has a millisecond count that fits an i64
  /\ MsPerSec * (MaxSecond + 1) < U64 \div 2

(* Option<T>.                                                              *)
None == <<>>
Some(x) == <<x>>

-----------------------------------------------------------------------------
(* Identifiers: a uuid is sent as text, and text need not be a uuid.       *)

ToText(id) == <<"uuid", id>>
NotUuid == <<"not a uuid">>
IsUuid(text) == text[1] = "uuid"
ParseUuid(text) == text[2]

(* An AgentId is a message of its own, so the wire may lack it.            *)
HasAgentId(w) == w # None /\ IsUuid(w[1])

(* Enums: the wire value is the position; 0 is UNSPECIFIED.                *)
TaskTypes ==
  <<"CodeGeneration", "Analysis", "CreativeWriting", "DataProcessing">>
Patterns ==
  <<"DraftRefine", "ParallelMerge", "Cascade", "Ensemble", "Pipeline">>
CircuitStates == <<"Closed", "Open", "HalfOpen">>

ToI32(enum, x) == CHOOSE i \in DOMAIN enum : enum[i] = x

(* Slip: an unknown value is let through, and read as the first one.       *)
AnyI32(enum, i) == TRUE

KnownI32(enum, i) == i \in DOMAIN enum

(* Used on known values only; the other branch gives the slip a meaning.   *)
FromI32(enum, i) == IF i \in DOMAIN enum THEN enum[i] ELSE enum[1]

(* The optional pattern of a route query: 0 stands for none, and whatever  *)
(* is not a pattern is read as none.                                       *)
PreferredToI32(p) == IF p = None THEN 0 ELSE ToI32(Patterns, p[1])
PreferredFromI32(i) ==
  IF i \in DOMAIN Patterns THEN Some(Patterns[i]) ELSE None

(* Slip: a started millisecond is rounded up.                              *)
MillisRoundedUp(d) == ((d + TicksPerMs - 1) \div TicksPerMs) % U64

(* Duration::as_millis() as u64, and Duration::from_millis.                *)
AsMillis(d) == (d \div TicksPerMs) % U64
FromMillis(ms) == ms * TicksPerMs

DatetimeToProto(t) ==
  [seconds |-> t \div TicksPerSec, nanos |-> t % TicksPerSec]

(* from_timestamp: None outside chrono's range or for a whole second or    *)
(* more of nanos (leap seconds are left out); negative nanos count as 0.   *)
ProtoToDatetime(ts, now) ==
  LET nanos == IF ts.nanos < 0 THEN 0 ELSE ts.nanos
  IN IF ts.seconds \in -MaxSecond..MaxSecond /\ nanos < TicksPerSec
     THEN ts.seconds * TicksPerSec + nanos
     ELSE now

(* A missing timestamp is read as the receiver's clock.                    *)
DatetimeOrNow(w, now) == IF w = None THEN now ELSE ProtoToDatetime(w[1], now)

(* expires_ms: an i64 count of milliseconds cast to u64 and back.          *)
ExpiryToProto(t) == (t \div TicksPerMs) % U64
AsI64(u) == IF u < U64 \div 2 THEN u ELSE u - U64
ExpiryRepresentable(u) ==
  (AsI64(u) \div MsPerSec) \in -MaxSecond..MaxSecond
ExpiryFromProto(u, now) ==
  IF ExpiryRepresentable(u) THEN AsI64(u) * TicksPerMs ELSE now

-----------------------------------------------------------------------------
(* Messages inside messages.                                               *)

QosToProto(q) == [max_latency_ms |-> AsMillis(q.max_latency), body |-> q.body]
ProtoToQos(pb) ==
  [max_latency |-> FromMillis(pb.max_latency_ms), body |-> pb.body]

CapabilityToProto(c) ==
  [task_type |-> ToI32(TaskTypes, c.task_type),
   estimated_latency_ms |-> AsMillis(c.estimated_latency), body |-> c.body]
ProtoToCapability(pb) ==
  [task_type |-> FromI32(TaskTypes, pb.task_type),
   estimated_latency |-> FromMillis(pb.estimated_latency_ms),
   body |-> pb.body]

RouteMetricsToProto(m) == [latency_ms |-> AsMillis(m.latency), body |-> m.body]
ProtoToRouteMetrics(pb) ==
  [latency |-> FromMillis(pb.latency_ms), body |-> pb.body]

(* dimensions, a usize, is cast to u32 and back; the values are copied.    *)
EmbeddingToProto(e) == [dimensions |-> e.dimensions % U32, body |-> e.body]
ProtoToEmbedding(pb) == pb

(* base_hash has a fixed length: longer ones are cut, shorter ones padded. *)
FixedHash(h) == [i \in 1..HashLen |-> IF i <= Len(h) THEN h[i] ELSE 0]

ContextDiffToProto(d) == d
ProtoToContextDiff(pb) ==
  [base_hash |-> FixedHash(pb.base_hash), body |-> pb.body]

-----------------------------------------------------------------------------
(* The kinds of fields.  "stamp" is a timestamp that is sent and not read; *)
(* "text" a uuid the handler supplies as text and the client parses.       *)

EncodeField(kind, x, now) ==
  CASE kind = "agent"      -> Some(ToText(x))
    [] kind = "agents"     -> [i \in DOMAIN x |-> ToText(x[i])]
    [] kind = "uuid"       -> ToText(x)
    [] kind = "task_type"  -> ToI32(TaskTypes, x)
    [] kind = "pattern"    -> ToI32(Patterns, x)
    [] kind = "preferred"  -> PreferredToI32(x)
    [] kind = "state"      -> ToI32(CircuitStates, x)
    [] kind = "millis"     -> AsMillis(x)
    [] kind = "instant"    -> Some(DatetimeToProto(x))
    [] kind = "stamp"      -> Some(DatetimeToProto(now))
    [] kind = "expiry"     -> ExpiryToProto(x)
    [] kind = "qos"        -> Some(QosToProto(x))
    [] kind = "capability" -> Some(CapabilityToProto(x))
    [] kind = "metrics"    -> Some(RouteMetricsToProto(x))
    [] kind = "diff"       -> Some(ContextDiffToProto(x))
    [] kind = "embedding"  -> IF x = None THEN None ELSE Some(EmbeddingToProto(x[1]))
    [] kind \in {"text", "body"} -> x

(* What proto_to_x checks before it returns Ok: MissingField, InvalidUuid  *)
(* and InvalidEnum are the ways to fail.                                   *)
FieldOk(kind, w) ==
  CASE kind = "agent"     -> HasAgentId(w)
    [] kind = "agents"    -> \A i \in DOMAIN w : IsUuid(w[i])
    [] kind \in {"uuid", "text"} -> IsUuid(w)
    [] kind = "task_type" -> KnownI32(TaskTypes, w)
    [] kind = "pattern"   -> KnownI32(Patterns, w)
    [] kind = "state"     -> KnownI32(CircuitStates, w)
    [] kind \in {"qos", "metrics", "diff"} -> w # None
    [] kind = "capability" ->
         w # None /\ KnownI32(TaskTypes, w[1].task_type)
    [] kind \in {"preferred", "millis", "instant", "stamp", "expiry",
                 "embedding", "body"} -> TRUE

DecodeField(kind, w, now) ==
  CASE kind = "agent"      -> ParseUuid(w[1])
    [] kind = "agents"     -> [i \in DOMAIN w |-> ParseUuid(w[i])]
    [] kind \in {"uuid", "text"} -> ParseUuid(w)
    [] kind = "task_type"  -> FromI32(TaskTypes, w)
    [] kind = "pattern"    -> FromI32(Patterns, w)
    [] kind = "preferred"  -> PreferredFromI32(w)
    [] kind = "state"      -> FromI32(CircuitStates, w)
    [] kind = "millis"     -> FromMillis(w)
    [] kind = "instant"    -> DatetimeOrNow(w, now)
    [] kind = "expiry"     -> ExpiryFromProto(w, now)
    [] kind = "qos"        -> ProtoToQos(w[1])
    [] kind = "capability" -> ProtoToCapability(w[1])
    [] kind = "metrics"    -> ProtoToRouteMetrics(w[1])
    [] kind = "diff"       -> ProtoToContextDiff(w[1])
    [] kind = "embedding"  -> IF w = None THEN None ELSE Some(ProtoToEmbedding(w[1]))
    [] kind = "body"       -> w

DomainFields(schema) == {f \in DOMAIN schema : schema[f] # "stamp"}

Encode(schema, msg, now) ==
  [f \in DOMAIN schema |->
     IF schema[f] = "stamp" THEN EncodeField("stamp", now, now)
                            ELSE EncodeField(schema[f], msg[f], now)]

Decodable(schema, w) == \A f \in DOMAIN schema : FieldOk(schema[f], w[f])

Decode(schema, w, now) ==
  [f \in DomainFields(schema) |-> DecodeField(schema[f], w[f], now)]

-----------------------------------------------------------------------------
(* The values a field can have: on either side what the types of the code  *)
(* allow.  Ids and bodies are any value.                                   *)

Members(enum) == {enum[i] : i \in DOMAIN enum}

IsInstant(t) == t \in Int /\ (t \div TicksPerSec) \in -MaxSecond..MaxSecond

IsText(w) == w = NotUuid \/ w = ToText(w[2])

FieldTyped(kind, x) ==
  CASE kind = "agents"     -> x = [i \in DOMAIN x |-> x[i]]
    [] kind = "task_type"  -> x \in Members(TaskTypes)
    [] kind = "pattern"    -> x \in Members(Patterns)
    [] kind = "preferred"  -> x = None \/ \E p \in Members(Patterns) : x = Some(p)
    [] kind = "state"      -> x \in Members(CircuitStates)
    [] kind = "millis"     -> x \in Nat
    [] kind \in {"instant", "expiry"} -> IsInstant(x)
    [] kind = "qos" ->
         x = [max_latency |-> x.max_latency, body |-> x.body] /\ x.max_latency \in Nat
    [] kind = "capability" ->
         /\ x = [task_type |-> x.task_type, body |-> x.body,
                 estimated_latency |-> x.estimated_latency]
         /\ x.task_type \in Members(TaskTypes) /\ x.estimated_latency \in Nat
    [] kind = "metrics" ->
         x = [latency |-> x.latency, body |-> x.body] /\ x.latency \in Nat
    [] kind = "diff" ->
         /\ x = [base_hash |-> x.base_hash, body |-> x.body]
         /\ x.base_hash = [i \in 1..HashLen |-> x.base_hash[i]]
    [] kind = "embedding" ->
         \/ x = None
         \/ /\ x = Some([dimensions |-> x[1].dimensions, body |-> x[1].body])
            /\ x[1].dimensions \in Nat
    [] kind = "text" -> IsText(x)
    [] OTHER -> TRUE

Typed(schema, msg) == \A f \in DomainFields(schema) : FieldTyped(schema[f], msg[f])

WireTyped(kind, w) ==
  CASE kind = "agent" -> w = None \/ (w = Some(w[1]) /\ IsText(w[1]))
    [] kind = "uuid"  -> IsText(w)
    [] kind \in {"task_type", "preferred", "state"} -> w \in Int
    [] kind \in {"millis", "expiry"} -> w \in 0..(U64 - 1)
    [] kind = "instant" ->
         \/ w = None
         \/ /\ w = Some([seconds |-> w[1].seconds, nanos |-> w[1].nanos])
            /\ w[1].seconds \in Int /\ w[1].nanos \in Int
    [] kind = "qos" ->
         \/ w = None
         \/ /\ w = Some([max_latency_ms |-> w[1].max_latency_ms, body |-> w[1].body])
            /\ w[1].max_latency_ms \in 0..(U64 - 1)
    [] kind = "diff" ->
         \/ w = None
         \/ /\ w = Some([base_hash |-> w[1].base_hash, body |-> w[1].body])
            /\ Len(w[1].base_hash) \in Nat
            /\ w[1].base_hash = [i \in 1..Len(w[1].base_hash) |-> w[1].base_hash[i]]
    [] kind = "embedding" ->
         \/ w = None
         \/ /\ w = Some([dimensions |-> w[1].dimensions, body |-> w[1].body])
            /\ w[1].dimensions \in 0..(U32 - 1)
    [] OTHER -> TRUE

-----------------------------------------------------------------------------
(* The messages.                                                           *)

ProbeSchema ==
  [from |-> "agent", task_type |-> "task_type", qos |-> "qos",
   context_embedding |-> "embedding", timestamp |-> "instant", body |-> "body"]

OfferSchema ==
  [from |-> "agent", capability |-> "capability", ttl |-> "millis",
   timestamp |-> "instant", body |-> "body"]

ContractAcceptSchema ==
  [from |-> "agent", to |-> "agent", agreed_qos |-> "qos",
   contract_id |-> "uuid", expires_at |-> "expiry", timestamp |-> "instant",
   body |-> "body"]

ContextRequestSchema ==
  [from |-> "agent", to |-> "agent", task_id |-> "uuid", body |-> "body",
   timestamp |-> "stamp"]

TaskSubmitSchema ==
  [from |-> "agent", to |-> "agent", task_id |-> "uuid",
   task_type |-> "task_type", context |-> "diff", contract_id |-> "uuid",
   body |-> "body", timestamp |-> "stamp"]

TaskResultSchema ==
  [from |-> "agent", task_id |-> "uuid", elapsed |-> "millis",
   body |-> "body", timestamp |-> "stamp"]

RouteSchema ==
  [id |-> "uuid", pattern |-> "pattern", agents |-> "agents",
   metrics |-> "metrics", computed_at |-> "instant", ttl |-> "millis"]

InteractionProofSchema ==
  [evaluator |-> "agent", subject |-> "agent", task_id |-> "uuid",
   task_type |-> "task_type", timestamp |-> "instant", body |-> "body"]

HeartbeatSchema == [from |-> "agent", body |-> "body", timestamp |-> "stamp"]

BackpressureSchema ==
  [from |-> "agent", body |-> "body", timestamp |-> "stamp"]

CircuitBreakSchema ==
  [from |-> "agent", target |-> "agent", state |-> "state", body |-> "body",
   timestamp |-> "stamp"]

(* Messages the server and the client put together themselves.             *)
TaskQuerySchema == [task_id |-> "uuid"]

RouteQuerySchema ==
  [task_type |-> "task_type", qos |-> "qos",
   preferred_pattern |-> "preferred", body |-> "body"]

ContextResponseSchema == [task_id |-> "text", body |-> "body"]

AckSchema == [body |-> "body"]

-----------------------------------------------------------------------------
(* What the conversions must preserve, stated without them.                *)

(* y is x less a fraction of a millisecond, and never more than x; a       *)
(* duration whose milliseconds overflow the wire keeps only "never more".  *)
Shortened(x, y) == y <= x /\ (x < U64 * TicksPerMs => x - y < TicksPerMs)

(* y is x if x fits 32 bits, and otherwise no more than x.                 *)
Narrowed(x, y) == y <= x /\ (x < U32 => y = x)

SameBut(x, y, f) == [g \in DOMAIN x \ {f} |-> x[g]] = [g \in DOMAIN y \ {f} |-> y[g]]

(* The receiver's field y is the sender's field x as the protocol allows.  *)
Preserved(kind, x, y) ==
  CASE kind \in {"millis", "expiry"} -> Shortened(x, y)
    [] kind = "qos" ->
         SameBut(x, y, "max_latency") /\ Shortened(x.max_latency, y.max_latency)
    [] kind = "capability" ->
         /\ SameBut(x, y, "estimated_latency")
         /\ Shortened(x.estimated_latency, y.estimated_latency)
    [] kind = "metrics" ->
         SameBut(x, y, "latency") /\ Shortened(x.latency, y.latency)
    [] kind = "embedding" ->
         \/ x = None /\ y = None
         \/ /\ x # None /\ y = Some(y[1])
            /\ SameBut(x[1], y[1], "dimensions")
            /\ Narrowed(x[1].dimensions, y[1].dimensions)
    [] kind = "text" -> y = ParseUuid(x)
    [] OTHER -> x = y

MessagePreserved(schema, x, y) ==
  \A f \in DomainFields(schema) : Preserved(schema[f], x[f], y[f])

=============================================================================
