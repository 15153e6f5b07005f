---------------------------- MODULE MCTransport ----------------------------
(* Every message in its base form and with each field varied alone: the    *)
(* conversions treat fields one by one.  Two ticks to the millisecond, two *)
(* milliseconds to the second, an eight bit u64, a four bit u32, seven     *)
(* seconds of chrono.                                                      *)
EXTENDS Transport, TLC

(* Sub-millisecond parts, zero, and a duration that overflows the wire.    *)
Durations == {5, 0, 3 + U64 * TicksPerMs}
Instants == {7, -3}

(* Dimensions within and beyond a u32.                                     *)
Dimensions == {3, U32 - 1, U32 + 2}

Nested(g, ds) == {[body |-> "x"] @@ (g :> d) : d \in ds}

Values(kind) ==
  CASE kind \in {"agent", "uuid"} -> {"id1"}
    [] kind = "agents"     -> {<<"id1", "id2">>, <<>>}
    [] kind = "task_type"  -> {"Analysis", "DataProcessing"}
    [] kind = "pattern"    -> {"Cascade", "Pipeline"}
    [] kind = "preferred"  -> {None, Some("Ensemble")}
    [] kind = "state"      -> {"Open", "HalfOpen"}
    [] kind = "millis"     -> Durations
    [] kind \in {"instant", "expiry"} -> Instants
    [] kind = "qos"        -> Nested("max_latency", Durations)
    [] kind = "metrics"    -> Nested("latency", Durations)
    [] kind = "capability" ->
         {[task_type |-> "Analysis", estimated_latency |-> 5, body |-> "x"]}
    [] kind = "diff"       -> {[base_hash |-> <<7, 8>>, body |-> "x"]}
    [] kind = "embedding"  ->
         {None} \cup {Some([dimensions |-> d, body |-> "x"]) : d \in Dimensions}
    [] kind = "text"       -> {ToText("id1"), NotUuid}
    [] kind = "body"       -> {"b1"}

Base(schema) ==
  [f \in DomainFields(schema) |-> CHOOSE x \in Values(schema[f]) : TRUE]

Variants(schema) ==
  UNION {{[Base(schema) EXCEPT ![f] = x] : x \in Values(schema[f])} :
         f \in DomainFields(schema)}

MCRequests(m) == Variants(RequestSchema[m])

(* Wire values a field may have and no AtpClient sends.                    *)
Odd(kind) ==
  CASE kind = "agent" -> {None, Some(NotUuid)}
    [] kind = "uuid" -> {NotUuid}
    [] kind \in {"task_type", "state", "preferred"} -> {0, 9}
    [] kind = "instant" ->
         {None, Some([seconds |-> 9, nanos |-> 0]),
          Some([seconds |-> 1, nanos |-> -1]),
          Some([seconds |-> 0, nanos |-> TicksPerSec])}
    [] kind = "expiry" -> {U64 - 1, U64 \div 2}
    [] kind = "qos" -> {None}
    [] kind = "diff" -> {None, Some([base_hash |-> <<7>>, body |-> "x"]),
                         Some([base_hash |-> <<7, 8, 9>>, body |-> "x"])}
    [] kind \in {"embedding", "stamp", "body"} -> {}

MCDistortions(m, w) ==
  UNION {{[w EXCEPT ![f] = o] : o \in Odd(RequestSchema[m][f])} :
         f \in DOMAIN RequestSchema[m]}

Result(d) == [Base(TaskResultSchema) EXCEPT !.elapsed = d]

(* A stream of one more than the channel holds and the client has read.    *)
MCAnswers(m) ==
  CASE m = "stream_results" ->
         {<<Result(5), Result(1), Result(0), Result(3)>>, <<Result(4)>>}
    [] m = "query_route" ->
         {<<r, Base(RouteSchema)>> : r \in Variants(RouteSchema)}
    [] m \in {"probe", "request_context"} ->
         {<<x>> : x \in Variants(ResponseSchema[m])}
    [] OTHER -> {<<[body |-> "rejected"]>>}

=============================================================================
