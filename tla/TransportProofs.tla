--------------------------- MODULE TransportProofs ---------------------------
(* Theorems about Codec and Transport, for every message the types allow,  *)
(* every channel capacity, clock, tick length and width of the wire's      *)
(* integers.                                                               *)
EXTENDS Transport, SequenceTheorems, TLAPS

-----------------------------------------------------------------------------
(* Division.                                                               *)

LEMMA DivMod ==
  ASSUME NEW x \in Int, NEW t \in Nat \ {0}
  PROVE  /\ x \div t \in Int /\ x % t \in 0..(t - 1)
         /\ x = t * (x \div t) + (x % t)
  OBVIOUS

LEMMA TimesDiv ==
  ASSUME NEW q \in Int, NEW t \in Nat \ {0}, NEW r \in 0..(t - 1)
  PROVE  (q * t + r) \div t = q /\ (q * t + r) % t = r
  OBVIOUS

LEMMA TimesMono ==
  \A a, b \in Int, k \in Nat \ {0} : (a <= b <=> a * k <= b * k) /\ (a < b <=> a * k < b * k)
  OBVIOUS

(* A quotient lies between two bounds if the dividend lies between their   *)
(* multiples.                                                              *)
LEMMA DivBounds ==
  ASSUME NEW x \in Int, NEW t \in Nat \ {0}, NEW a \in Int, NEW b \in Int
  PROVE  /\ a <= x \div t <=> a * t <= x
         /\ x \div t < b <=> x < b * t
  <1> DEFINE q == x \div t
             r == x % t
  <1>1. q \in Int /\ r \in 0..(t - 1) /\ x = t * q + r
    BY DivMod
  <1> HIDE DEF q, r
  <1>2. x = q * t + r
    BY <1>1
  <1>3. q < a => q * t + r < a * t
    <2>1. q < a => (q + 1) * t <= a * t
      BY <1>1, TimesMono
    <2>2. (q + 1) * t = q * t + t
      BY <1>1
    <2>3. q * t \in Int /\ a * t \in Int
      BY <1>1
    <2>4. QED
      BY <1>1, <2>1, <2>2, <2>3
  <1>4. q < b => q * t + r < b * t
    <2>1. q < b => (q + 1) * t <= b * t
      BY <1>1, TimesMono
    <2>2. (q + 1) * t = q * t + t
      BY <1>1
    <2>3. q * t \in Int /\ b * t \in Int
      BY <1>1
    <2>4. QED
      BY <1>1, <2>1, <2>2, <2>3
  <1>5. a <= q => a * t <= q * t
    BY <1>1, TimesMono
  <1>6. b <= q => b * t <= q * t
    BY <1>1, TimesMono
  <1>7. q * t \in Int /\ a * t \in Int /\ b * t \in Int
    BY <1>1
  <1>8. a <= q <=> a * t <= x
    BY <1>1, <1>2, <1>3, <1>5, <1>7
  <1>9. q < b <=> x < b * t
    BY <1>1, <1>2, <1>4, <1>6, <1>7
  <1>10. QED
    BY <1>8, <1>9 DEF q

-----------------------------------------------------------------------------
(* Durations and instants.                                                 *)

LEMMA Units ==
  /\ TicksPerMs \in Nat \ {0} /\ MsPerSec \in Nat \ {0} /\ TicksPerSec \in Nat \ {0}
  /\ U64 \in Nat \ {0} /\ MaxSecond \in Nat /\ HashLen \in Nat
  BY CodecAssumption DEF TicksPerSec

(* A duration loses less than a millisecond, or wraps and gets shorter.    *)
LEMMA MillisShortened ==
  ASSUME NEW d \in Nat
  PROVE  /\ AsMillis(d) \in 0..(U64 - 1)
         /\ Shortened(d, FromMillis(AsMillis(d)))
  <1> DEFINE q == d \div TicksPerMs
             m == q % U64
  <1>1. q \in Int /\ d = TicksPerMs * q + (d % TicksPerMs) /\ d % TicksPerMs \in 0..(TicksPerMs - 1)
    BY Units, DivMod
  <1>2. 0 <= q
    BY <1>1, Units, DivBounds
  <1>3. m \in 0..(U64 - 1) /\ m <= q /\ (q < U64 => m = q)
    BY <1>1, <1>2, Units
  <1>4. d < U64 * TicksPerMs => q < U64
    BY <1>1, Units, DivBounds
  <1> HIDE DEF q, m
  <1>5. m * TicksPerMs <= q * TicksPerMs
    BY <1>1, <1>3, Units, TimesMono
  <1>6. m * TicksPerMs <= d /\ (d < U64 * TicksPerMs => d - m * TicksPerMs < TicksPerMs)
    BY <1>1, <1>3, <1>4, <1>5, Units
  <1>7. AsMillis(d) = m
    BY DEF AsMillis, q, m
  <1>8. QED
    BY <1>3, <1>6, <1>7 DEF Shortened, FromMillis

LEMMA MillisBack ==
  ASSUME NEW w \in 0..(U64 - 1)
  PROVE  AsMillis(FromMillis(w)) = w
  <1>1. (w * TicksPerMs) \div TicksPerMs = w
    BY Units, TimesDiv
  <1>2. w % U64 = w
    BY Units
  <1>3. QED
    BY <1>1, <1>2 DEF AsMillis, FromMillis

(* A timestamp survives whatever the receiver's clock shows.               *)
LEMMA InstantBack ==
  ASSUME NEW t, IsInstant(t), NEW clock
  PROVE  DatetimeOrNow(Some(DatetimeToProto(t)), clock) = t
  <1>1. /\ t \in Int /\ t \div TicksPerSec \in -MaxSecond..MaxSecond
        /\ t % TicksPerSec \in 0..(TicksPerSec - 1)
        /\ t = TicksPerSec * (t \div TicksPerSec) + (t % TicksPerSec)
        /\ t \div TicksPerSec \in Int
    BY Units, DivMod DEF IsInstant
  <1>2. (t \div TicksPerSec) * TicksPerSec + (t % TicksPerSec) = t
    BY <1>1, Units
  <1>3. QED
    BY <1>1, <1>2, Units DEF DatetimeOrNow, ProtoToDatetime, DatetimeToProto, Some, None

(* A wire timestamp that chrono can hold is what the instant read from it  *)
(* is written as.                                                          *)
LEMMA TimestampBack ==
  ASSUME NEW ts, NEW clock, ts = [seconds |-> ts.seconds, nanos |-> ts.nanos],
         ts.seconds \in -MaxSecond..MaxSecond, ts.nanos \in 0..(TicksPerSec - 1)
  PROVE  DatetimeToProto(ProtoToDatetime(ts, clock)) = ts
  <1>1. ProtoToDatetime(ts, clock) = ts.seconds * TicksPerSec + ts.nanos
    BY Units DEF ProtoToDatetime
  <1>2. /\ (ts.seconds * TicksPerSec + ts.nanos) \div TicksPerSec = ts.seconds
        /\ (ts.seconds * TicksPerSec + ts.nanos) % TicksPerSec = ts.nanos
    BY Units, TimesDiv
  <1>3. QED
    BY <1>1, <1>2 DEF DatetimeToProto

(* An i64 within half the range of the wire survives the casts.            *)
LEMMA CastBack ==
  ASSUME NEW n \in Int, -(U64 \div 2) < n, n < U64 \div 2
  PROVE  n % U64 \in 0..(U64 - 1) /\ AsI64(n % U64) = n
  <1>1. U64 \div 2 \in Nat /\ 2 * (U64 \div 2) <= U64
    BY Units
  <1>2. n >= 0 => n % U64 = n
    BY <1>1, Units
  <1>3. n < 0 => n % U64 = n + U64
    BY <1>1, Units
  <1>4. QED
    BY <1>1, <1>2, <1>3, Units DEF AsI64

LEMMA ExpiryShortened ==
  ASSUME NEW t, IsInstant(t), NEW clock
  PROVE  /\ ExpiryToProto(t) \in 0..(U64 - 1)
         /\ Shortened(t, ExpiryFromProto(ExpiryToProto(t), clock))
  <1> DEFINE ms == t \div TicksPerMs
  <1>1. /\ t \in Int /\ -MaxSecond <= t \div TicksPerSec
        /\ t \div TicksPerSec < MaxSecond + 1
    BY Units, DivMod DEF IsInstant
  <1>2. /\ ms \in Int /\ t = TicksPerMs * ms + (t % TicksPerMs)
        /\ t % TicksPerMs \in 0..(TicksPerMs - 1)
    BY <1>1, Units, DivMod
  <1>3. (-MaxSecond) * TicksPerSec <= t /\ t < (MaxSecond + 1) * TicksPerSec
    BY <1>1, Units, DivBounds
  <1>4. /\ (-MaxSecond) * TicksPerSec = ((-MaxSecond) * MsPerSec) * TicksPerMs
        /\ (MaxSecond + 1) * TicksPerSec = ((MaxSecond + 1) * MsPerSec) * TicksPerMs
    BY Units DEF TicksPerSec
  <1>5. (-MaxSecond) * MsPerSec \in Int /\ (MaxSecond + 1) * MsPerSec \in Int
    BY Units
  <1>6. (-MaxSecond) * MsPerSec <= ms /\ ms < (MaxSecond + 1) * MsPerSec
    BY <1>1, <1>3, <1>4, <1>5, Units, DivBounds
  <1> HIDE DEF ms
  <1>7. ms \div MsPerSec \in -MaxSecond..MaxSecond
    <2> DEFINE lo == -MaxSecond
               hi == MaxSecond + 1
    <2>a. lo \in Int /\ hi \in Int /\ lo * MsPerSec <= ms /\ ms < hi * MsPerSec
      BY <1>6, Units
    <2>b. lo <= ms \div MsPerSec /\ ms \div MsPerSec < hi
      <3> HIDE DEF lo, hi
      <3>1. QED
        BY <1>2, <2>a, Units, DivBounds
    <2>1. -MaxSecond <= ms \div MsPerSec /\ ms \div MsPerSec < MaxSecond + 1
      BY <2>b
    <2>2. ms \div MsPerSec \in Int
      BY <1>2, Units, DivMod
    <2>3. QED
      BY <2>1, <2>2, Units
  <1>8. -(U64 \div 2) < ms /\ ms < U64 \div 2
    <2>1. (-MaxSecond) * MsPerSec = -(MaxSecond * MsPerSec)
            /\ (MaxSecond + 1) * MsPerSec = MaxSecond * MsPerSec + MsPerSec
            /\ MsPerSec * (MaxSecond + 1) = MaxSecond * MsPerSec + MsPerSec
            /\ MaxSecond * MsPerSec \in Nat
      BY Units
    <2>2. MaxSecond * MsPerSec + MsPerSec < U64 \div 2
      BY <2>1, CodecAssumption
    <2>3. U64 \div 2 \in Nat
      BY Units
    <2>4. QED
      BY <1>2, <1>6, <2>1, <2>2, <2>3, Units
  <1>9. ms % U64 \in 0..(U64 - 1) /\ AsI64(ms % U64) = ms
    BY <1>2, <1>8, CastBack
  <1>10. ExpiryToProto(t) = ms % U64
    BY DEF ExpiryToProto, ms
  <1>11. ExpiryFromProto(ExpiryToProto(t), clock) = ms * TicksPerMs
    BY <1>7, <1>9, <1>10 DEF ExpiryFromProto, ExpiryRepresentable
  <1>12. ms * TicksPerMs <= t /\ t - ms * TicksPerMs < TicksPerMs
    BY <1>2, Units
  <1>13. QED
    BY <1>9, <1>10, <1>11, <1>12 DEF Shortened

LEMMA ExpiryBack ==
  ASSUME NEW w \in 0..(U64 - 1), ExpiryRepresentable(w), NEW clock
  PROVE  ExpiryToProto(ExpiryFromProto(w, clock)) = w
  <1>1. AsI64(w) \in Int /\ AsI64(w) % U64 = w
    BY Units DEF AsI64
  <1>2. (AsI64(w) * TicksPerMs) \div TicksPerMs = AsI64(w)
    BY <1>1, Units, TimesDiv
  <1>3. QED
    BY <1>1, <1>2 DEF ExpiryToProto, ExpiryFromProto

(* A usize sent as a u32 arrives as it was if it fits, and never larger.   *)
LEMMA CastNarrows ==
  ASSUME NEW d \in Nat
  PROVE  d % U32 \in 0..(U32 - 1) /\ Narrowed(d, d % U32)
  <1>1. U32 \in Nat /\ U32 > 0
    BY CodecAssumption
  <1>2. d % U32 \in 0..(U32 - 1) /\ d = U32 * (d \div U32) + (d % U32) /\ d \div U32 \in Int
    BY <1>1, DivMod
  <1>3. d < U32 => d % U32 = d
    BY <1>1
  <1>4. d % U32 <= d
    BY <1>1, <1>2, <1>3
  <1>5. QED
    BY <1>2, <1>3, <1>4 DEF Narrowed

-----------------------------------------------------------------------------
(* Fields.                                                                 *)

Kinds ==
  {"agent", "agents", "uuid", "task_type", "pattern", "preferred", "state",
   "millis", "instant", "expiry", "qos", "capability", "metrics", "diff",
   "embedding", "text", "body"}

(* An enum's value is found again at its position.                         *)
LEMMA EnumBack ==
  /\ \A x \in Members(TaskTypes) : FromI32(TaskTypes, ToI32(TaskTypes, x)) = x
  /\ \A x \in Members(Patterns) :
       /\ FromI32(Patterns, ToI32(Patterns, x)) = x
       /\ ToI32(Patterns, x) \in DOMAIN Patterns
  /\ \A x \in Members(CircuitStates) :
       FromI32(CircuitStates, ToI32(CircuitStates, x)) = x
  <1>1. \A x \in Members(TaskTypes) : FromI32(TaskTypes, ToI32(TaskTypes, x)) = x
    BY DEF Members, TaskTypes, FromI32, ToI32
  <1>2. \A x \in Members(Patterns) :
          /\ FromI32(Patterns, ToI32(Patterns, x)) = x
          /\ ToI32(Patterns, x) \in DOMAIN Patterns
    BY DEF Members, Patterns, FromI32, ToI32
  <1>3. \A x \in Members(CircuitStates) :
          FromI32(CircuitStates, ToI32(CircuitStates, x)) = x
    BY DEF Members, CircuitStates, FromI32, ToI32
  <1>4. QED
    BY <1>1, <1>2, <1>3

(* The position of an enum's value is found again.                         *)
LEMMA PositionBack ==
  /\ \A i \in DOMAIN TaskTypes :
       /\ FromI32(TaskTypes, i) \in Members(TaskTypes)
       /\ ToI32(TaskTypes, FromI32(TaskTypes, i)) = i
  /\ \A i \in DOMAIN Patterns : ToI32(Patterns, Patterns[i]) = i
  /\ \A i \in DOMAIN CircuitStates :
       ToI32(CircuitStates, FromI32(CircuitStates, i)) = i
  <1>1. \A i \in DOMAIN TaskTypes :
          /\ FromI32(TaskTypes, i) \in Members(TaskTypes)
          /\ ToI32(TaskTypes, FromI32(TaskTypes, i)) = i
    BY DEF Members, TaskTypes, FromI32, ToI32
  <1>2. \A i \in DOMAIN Patterns : ToI32(Patterns, Patterns[i]) = i
    BY DEF Patterns, ToI32
  <1>3. \A i \in DOMAIN CircuitStates :
          ToI32(CircuitStates, FromI32(CircuitStates, i)) = i
    BY DEF CircuitStates, FromI32, ToI32
  <1>4. QED
    BY <1>1, <1>2, <1>3

(* A field of a message survives encoding at one time and decoding at      *)
(* another.                                                                *)
LEMMA FieldBack ==
  ASSUME NEW kind \in Kinds, NEW x, FieldTyped(kind, x), NEW t1, NEW t2
  PROVE  Preserved(kind, x, DecodeField(kind, EncodeField(kind, x, t1), t2))
  <1>1. CASE kind \in {"agent", "uuid", "body", "agents", "text"}
    BY <1>1 DEF FieldTyped, Preserved, EncodeField, DecodeField, ParseUuid, ToText,
                Some
  <1>2. CASE kind = "task_type"
    BY <1>2, EnumBack DEF FieldTyped, Preserved, EncodeField, DecodeField
  <1>3. CASE kind = "pattern"
    BY <1>3, EnumBack DEF FieldTyped, Preserved, EncodeField, DecodeField
  <1>4. CASE kind = "state"
    BY <1>4, EnumBack DEF FieldTyped, Preserved, EncodeField, DecodeField
  <1>5. CASE kind = "preferred"
    <2>1. PreferredFromI32(PreferredToI32(x)) = x
      <3>1. CASE x = None
        BY <3>1 DEF PreferredFromI32, PreferredToI32, Patterns
      <3>2. CASE \E p \in Members(Patterns) : x = Some(p)
        <4>1. PICK p \in Members(Patterns) : x = Some(p)
          BY <3>2
        <4>2. x # None /\ x[1] = p
          BY <4>1 DEF None, Some
        <4>3. PreferredToI32(x) = ToI32(Patterns, p)
          BY <4>2 DEF PreferredToI32
        <4>4. QED
          BY <4>1, <4>3, EnumBack DEF PreferredFromI32, FromI32
      <3>3. QED
        BY <1>5, <3>1, <3>2 DEF FieldTyped
    <2>2. QED
      BY <1>5, <2>1 DEF Preserved, EncodeField, DecodeField
  <1>6. CASE kind = "millis"
    BY <1>6, MillisShortened DEF FieldTyped, Preserved, EncodeField, DecodeField
  <1>7. CASE kind = "instant"
    BY <1>7, InstantBack DEF FieldTyped, Preserved, EncodeField, DecodeField
  <1>8. CASE kind = "expiry"
    BY <1>8, ExpiryShortened DEF FieldTyped, Preserved, EncodeField, DecodeField
  <1>9. CASE kind = "qos"
    <2> DEFINE y == ProtoToQos(QosToProto(x))
    <2>1. /\ x = [max_latency |-> x.max_latency, body |-> x.body]
          /\ x.max_latency \in Nat
      BY <1>9 DEF FieldTyped
    <2>2. y = [max_latency |-> FromMillis(AsMillis(x.max_latency)), body |-> x.body]
      BY DEF QosToProto, ProtoToQos
    <2>3. DecodeField(kind, EncodeField(kind, x, t1), t2) = y
      BY <1>9 DEF EncodeField, DecodeField, Some
    <2>4. Shortened(x.max_latency, y.max_latency)
      BY <2>1, <2>2, MillisShortened
    <2>5. SameBut(x, y, "max_latency")
      BY <2>1, <2>2 DEF SameBut
    <2>6. QED
      BY <1>9, <2>3, <2>4, <2>5 DEF Preserved
  <1>10. CASE kind = "metrics"
    <2> DEFINE y == ProtoToRouteMetrics(RouteMetricsToProto(x))
    <2>1. x = [latency |-> x.latency, body |-> x.body] /\ x.latency \in Nat
      BY <1>10 DEF FieldTyped
    <2>2. y = [latency |-> FromMillis(AsMillis(x.latency)), body |-> x.body]
      BY DEF RouteMetricsToProto, ProtoToRouteMetrics
    <2>3. DecodeField(kind, EncodeField(kind, x, t1), t2) = y
      BY <1>10 DEF EncodeField, DecodeField, Some
    <2>4. Shortened(x.latency, y.latency)
      BY <2>1, <2>2, MillisShortened
    <2>5. SameBut(x, y, "latency")
      BY <2>1, <2>2 DEF SameBut
    <2>6. QED
      BY <1>10, <2>3, <2>4, <2>5 DEF Preserved
  <1>11. CASE kind = "capability"
    <2> DEFINE y == ProtoToCapability(CapabilityToProto(x))
    <2>1. /\ x = [task_type |-> x.task_type, body |-> x.body,
                  estimated_latency |-> x.estimated_latency]
          /\ x.task_type \in Members(TaskTypes) /\ x.estimated_latency \in Nat
      BY <1>11 DEF FieldTyped
    <2>2. y = [task_type |-> x.task_type, body |-> x.body,
               estimated_latency |-> FromMillis(AsMillis(x.estimated_latency))]
      BY <2>1, EnumBack DEF CapabilityToProto, ProtoToCapability
    <2>3. DecodeField(kind, EncodeField(kind, x, t1), t2) = y
      BY <1>11 DEF EncodeField, DecodeField, Some
    <2>4. Shortened(x.estimated_latency, y.estimated_latency)
      BY <2>1, <2>2, MillisShortened
    <2>5. SameBut(x, y, "estimated_latency")
      BY <2>1, <2>2 DEF SameBut
    <2>6. QED
      BY <1>11, <2>3, <2>4, <2>5 DEF Preserved
  <1>12. CASE kind = "diff"
    <2>1. /\ x = [base_hash |-> x.base_hash, body |-> x.body]
          /\ x.base_hash = [i \in 1..HashLen |-> x.base_hash[i]]
      BY <1>12 DEF FieldTyped
    <2>2. FixedHash(x.base_hash) = x.base_hash
      <3> DEFINE h == x.base_hash
      <3>1. h = [i \in 1..HashLen |-> h[i]]
        BY <2>1
      <3> HIDE DEF h
      <3>2. Len(h) = HashLen
        BY <3>1, Units
      <3>3. QED
        BY <3>1, <3>2, Units DEF FixedHash, h
    <2>3. ProtoToContextDiff(ContextDiffToProto(x)) = x
      BY <2>1, <2>2 DEF ProtoToContextDiff, ContextDiffToProto
    <2>4. QED
      BY <1>12, <2>3 DEF Preserved, EncodeField, DecodeField, Some
  <1>13. CASE kind = "embedding"
    <2>1. CASE x = None
      BY <1>13, <2>1 DEF Preserved, EncodeField, DecodeField
    <2>2. CASE x # None
      <3> DEFINE e == x[1]
                 y == [dimensions |-> e.dimensions % U32, body |-> e.body]
      <3>1. /\ x = Some([dimensions |-> e.dimensions, body |-> e.body])
            /\ e.dimensions \in Nat
        BY <1>13, <2>2 DEF FieldTyped
      <3>2. e = [dimensions |-> e.dimensions, body |-> e.body]
        BY <3>1 DEF Some
      <3>3. EncodeField(kind, x, t1) = Some(y)
        BY <1>13, <2>2 DEF EncodeField, EmbeddingToProto
      <3>4. DecodeField(kind, Some(y), t2) = Some(y)
        BY <1>13 DEF DecodeField, ProtoToEmbedding, Some, None
      <3>5. Narrowed(e.dimensions, y.dimensions)
        BY <3>1, CastNarrows
      <3>6. SameBut(e, y, "dimensions")
        BY <3>2 DEF SameBut
      <3>7. Some(y)[1] = y
        BY DEF Some
      <3> HIDE DEF y
      <3>8. QED
        BY <1>13, <2>2, <3>3, <3>4, <3>5, <3>6, <3>7 DEF Preserved
    <2>3. QED
      BY <2>1, <2>2
  <1>14. QED
    BY <1>1, <1>2, <1>3, <1>4, <1>5, <1>6, <1>7, <1>8, <1>9, <1>10, <1>11, <1>12,
       <1>13 DEF Kinds

-----------------------------------------------------------------------------
(* Requests.                                                               *)

RequestKinds ==
  {"agent", "uuid", "task_type", "preferred", "state", "instant", "expiry",
   "qos", "diff", "embedding", "body"}

(* What a client puts on the wire has the wire's types and is accepted.    *)
LEMMA FieldOnWire ==
  ASSUME NEW kind \in RequestKinds, NEW x, FieldTyped(kind, x), NEW t
  PROVE  /\ WireTyped(kind, EncodeField(kind, x, t))
         /\ FieldOk(kind, EncodeField(kind, x, t))
  <1>1. CASE kind \in {"agent", "uuid", "body"}
    BY <1>1 DEF WireTyped, FieldOk, EncodeField, HasAgentId, IsUuid, IsText, ToText,
                Some, None
  <1>2. CASE kind = "task_type"
    <2>1. x \in Members(TaskTypes)
      BY <1>2 DEF FieldTyped
    <2>2. ToI32(TaskTypes, x) \in Int /\ KnownI32(TaskTypes, ToI32(TaskTypes, x))
      BY <2>1 DEF Members, TaskTypes, ToI32, KnownI32
    <2>3. QED
      BY <1>2, <2>2 DEF WireTyped, FieldOk, EncodeField
  <1>3. CASE kind = "state"
    <2>1. x \in Members(CircuitStates)
      BY <1>3 DEF FieldTyped
    <2>2. /\ ToI32(CircuitStates, x) \in Int
          /\ KnownI32(CircuitStates, ToI32(CircuitStates, x))
      BY <2>1 DEF Members, CircuitStates, ToI32, KnownI32
    <2>3. QED
      BY <1>3, <2>2 DEF WireTyped, FieldOk, EncodeField
  <1>4. CASE kind = "preferred"
    <2>1. PreferredToI32(x) \in Int
      <3>1. CASE x = None
        BY <3>1 DEF PreferredToI32
      <3>2. CASE \E p \in Members(Patterns) : x = Some(p)
        BY <3>2, EnumBack DEF PreferredToI32, Some, None, Patterns
      <3>3. QED
        BY <1>4, <3>1, <3>2 DEF FieldTyped
    <2>2. QED
      BY <1>4, <2>1 DEF WireTyped, FieldOk, EncodeField
  <1>5. CASE kind = "instant"
    <2>1. x \div TicksPerSec \in Int /\ x % TicksPerSec \in Int
      BY <1>5, Units, DivMod DEF FieldTyped, IsInstant
    <2>2. QED
      BY <1>5, <2>1 DEF WireTyped, FieldOk, EncodeField, DatetimeToProto, Some, None
  <1>6. CASE kind = "expiry"
    BY <1>6, ExpiryShortened DEF FieldTyped, WireTyped, FieldOk, EncodeField
  <1>7. CASE kind = "qos"
    <2>1. AsMillis(x.max_latency) \in 0..(U64 - 1)
      BY <1>7, MillisShortened DEF FieldTyped
    <2>2. QED
      BY <1>7, <2>1 DEF WireTyped, FieldOk, EncodeField, QosToProto, Some, None
  <1>8. CASE kind = "diff"
    <2>1. /\ x = [base_hash |-> x.base_hash, body |-> x.body]
          /\ x.base_hash = [i \in 1..HashLen |-> x.base_hash[i]]
      BY <1>8 DEF FieldTyped
    <2> DEFINE h == x.base_hash
    <2>2. h = [i \in 1..HashLen |-> h[i]]
      BY <2>1
    <2> HIDE DEF h
    <2>3. Len(h) = HashLen
      BY <2>2, Units
    <2>4. Len(h) \in Nat /\ h = [i \in 1..Len(h) |-> h[i]]
      BY <2>2, <2>3, Units
    <2>5. QED
      BY <1>8, <2>1, <2>4 DEF WireTyped, FieldOk, EncodeField, ContextDiffToProto,
                              Some, None, h
  <1>9. CASE kind = "embedding"
    <2>1. CASE x = None
      BY <1>9, <2>1 DEF WireTyped, FieldOk, EncodeField
    <2>2. CASE x # None
      <3>1. x[1].dimensions % U32 \in 0..(U32 - 1)
        BY <1>9, <2>2, CastNarrows DEF FieldTyped
      <3>2. QED
        BY <1>9, <2>2, <3>1 DEF WireTyped, FieldOk, EncodeField, EmbeddingToProto, Some
    <2>3. QED
      BY <2>1, <2>2
  <1>10. QED
    BY <1>1, <1>2, <1>3, <1>4, <1>5, <1>6, <1>7, <1>8, <1>9 DEF RequestKinds

(* A wire timestamp that is not among the replaced ones is read the same   *)
(* whatever the clock shows, and written back.                             *)
LEMMA UnreplacedTimestamp ==
  ASSUME NEW w, WireTyped("instant", w), ~Replaced("instant", w), NEW clock
  PROVE  Some(DatetimeToProto(DatetimeOrNow(w, clock))) = w
  <1> DEFINE ts == w[1]
             late == MaxNow + 1
  <1>1. w # None /\ w = Some(DatetimeToProto(ProtoToDatetime(ts, late)))
    BY DEF Replaced
  <1>2. /\ w = Some(ts) /\ ts = [seconds |-> ts.seconds, nanos |-> ts.nanos]
        /\ ts.seconds \in Int /\ ts.nanos \in Int
    BY <1>1 DEF WireTyped, Some
  <1>3. ts = DatetimeToProto(ProtoToDatetime(ts, late))
    BY <1>1 DEF Some
  <1>4. IsInstant(late)
    BY TransportAssumption
  <1> HIDE DEF ts, late
  <1>5. ts.seconds \in -MaxSecond..MaxSecond /\ ts.nanos \in 0..(TicksPerSec - 1)
    <2>1. CASE ProtoToDatetime(ts, late) = late
      <3>1. ts = [seconds |-> late \div TicksPerSec, nanos |-> late % TicksPerSec]
        BY <1>3, <2>1 DEF DatetimeToProto
      <3>2. late \in Int /\ late \div TicksPerSec \in -MaxSecond..MaxSecond
        BY <1>4 DEF IsInstant
      <3>3. late % TicksPerSec \in 0..(TicksPerSec - 1)
        BY <3>2, Units, DivMod
      <3>4. QED
        BY <3>1, <3>2, <3>3
    <2>2. CASE ProtoToDatetime(ts, late) # late
      <3> DEFINE nanos == IF ts.nanos < 0 THEN 0 ELSE ts.nanos
      <3>1. /\ ts.seconds \in -MaxSecond..MaxSecond /\ nanos < TicksPerSec
            /\ ProtoToDatetime(ts, late) = ts.seconds * TicksPerSec + nanos
        BY <2>2 DEF ProtoToDatetime
      <3>2. nanos \in 0..(TicksPerSec - 1)
        BY <1>2, <3>1, Units
      <3>3. ts.nanos = (ts.seconds * TicksPerSec + nanos) % TicksPerSec
        <4>1. ts.nanos = ProtoToDatetime(ts, late) % TicksPerSec
          BY <1>3 DEF DatetimeToProto
        <4>2. QED
          BY <3>1, <4>1
      <3>4. (ts.seconds * TicksPerSec + nanos) % TicksPerSec = nanos
        <4> HIDE DEF nanos
        <4>1. ts.seconds \in Int
          BY <1>2
        <4>2. QED
          BY <3>2, <4>1, Units, TimesDiv
      <3>5. QED
        BY <3>1, <3>2, <3>3, <3>4
    <2>3. QED
      BY <2>1, <2>2
  <1>6. DatetimeToProto(ProtoToDatetime(ts, clock)) = ts
    BY <1>2, <1>5, TimestampBack
  <1>7. DatetimeOrNow(w, clock) = ProtoToDatetime(ts, clock)
    BY <1>1 DEF DatetimeOrNow, ts
  <1>8. QED
    BY <1>2, <1>6, <1>7

(* What a handler is told of a field says what was on the wire, whoever    *)
(* sent it.                                                                *)
LEMMA WireBack ==
  ASSUME NEW kind \in RequestKinds, NEW w, WireTyped(kind, w), FieldOk(kind, w),
         NEW t1, NEW t2
  PROVE  EncodeField(kind, DecodeField(kind, w, t1), t2) = w \/ Replaced(kind, w)
  <1>1. CASE kind \in {"agent", "uuid", "body"}
    <2>1. ASSUME NEW text, IsText(text), IsUuid(text)
          PROVE  ToText(ParseUuid(text)) = text
      <3>1. text # NotUuid
        <4>1. NotUuid[1] = "not a uuid"
          BY DEF NotUuid
        <4>2. "not a uuid" # "uuid"
          OBVIOUS
        <4>3. text[1] = "uuid"
          BY <2>1 DEF IsUuid
        <4>4. QED
          BY <4>1, <4>2, <4>3
      <3>2. text = ToText(text[2])
        BY <2>1, <3>1 DEF IsText
      <3>3. QED
        BY <3>2 DEF ParseUuid
    <2>2. CASE kind = "agent"
      <3>1. w # None /\ w = Some(w[1]) /\ IsText(w[1]) /\ IsUuid(w[1])
        BY <2>2 DEF WireTyped, FieldOk, HasAgentId
      <3>2. QED
        BY <2>1, <2>2, <3>1 DEF EncodeField, DecodeField
    <2>3. CASE kind = "uuid"
      BY <2>1, <2>3 DEF WireTyped, FieldOk, EncodeField, DecodeField
    <2>4. CASE kind = "body"
      BY <2>4 DEF EncodeField, DecodeField
    <2>5. QED
      BY <1>1, <2>2, <2>3, <2>4
  <1>2. CASE kind = "task_type"
    BY <1>2, PositionBack DEF FieldOk, KnownI32, EncodeField, DecodeField
  <1>3. CASE kind = "state"
    BY <1>3, PositionBack DEF FieldOk, KnownI32, EncodeField, DecodeField
  <1>4. CASE kind = "preferred"
    <2>1. w \in 0..Len(Patterns) => PreferredToI32(PreferredFromI32(w)) = w
      <3>1. SUFFICES ASSUME w \in 0..Len(Patterns)
                     PROVE  PreferredToI32(PreferredFromI32(w)) = w
        OBVIOUS
      <3>2. w = 0 \/ w \in DOMAIN Patterns
        BY <3>1 DEF Patterns
      <3>3. CASE w = 0
        BY <3>3 DEF PreferredToI32, PreferredFromI32, Patterns
      <3>4. CASE w \in DOMAIN Patterns
        BY <3>4, PositionBack DEF PreferredToI32, PreferredFromI32, Some, None
      <3>5. QED
        BY <3>2, <3>3, <3>4
    <2>2. QED
      BY <1>4, <2>1 DEF EncodeField, DecodeField, Replaced
  <1>5. CASE kind = "instant"
    BY <1>5, UnreplacedTimestamp DEF EncodeField, DecodeField
  <1>6. CASE kind = "expiry"
    BY <1>6, ExpiryBack DEF WireTyped, EncodeField, DecodeField, Replaced
  <1>7. CASE kind = "qos"
    <2>1. /\ w = Some([max_latency_ms |-> w[1].max_latency_ms, body |-> w[1].body])
          /\ w[1].max_latency_ms \in 0..(U64 - 1)
      BY <1>7 DEF WireTyped, FieldOk
    <2>2. AsMillis(FromMillis(w[1].max_latency_ms)) = w[1].max_latency_ms
      BY <2>1, MillisBack
    <2>3. QED
      BY <1>7, <2>1, <2>2 DEF EncodeField, DecodeField, QosToProto, ProtoToQos
  <1>8. CASE kind = "diff"
    <2> DEFINE h == w[1].base_hash
    <2>1. /\ w = Some([base_hash |-> h, body |-> w[1].body])
          /\ Len(h) \in Nat /\ h = [i \in 1..Len(h) |-> h[i]]
          /\ w # None
      BY <1>8 DEF WireTyped, FieldOk
    <2>2. Len(h) = HashLen => FixedHash(h) = h
      <3> HIDE DEF h
      <3>1. QED
        BY <2>1, Units DEF FixedHash
    <2>3. QED
      BY <1>8, <2>1, <2>2 DEF EncodeField, DecodeField, ContextDiffToProto,
                              ProtoToContextDiff, Replaced, Some
  <1>9. CASE kind = "embedding"
    <2>1. CASE w = None
      BY <1>9, <2>1 DEF EncodeField, DecodeField
    <2>2. CASE w # None
      <3>1. /\ w = Some([dimensions |-> w[1].dimensions, body |-> w[1].body])
            /\ w[1].dimensions \in 0..(U32 - 1)
        BY <1>9, <2>2 DEF WireTyped
      <3>2. w[1].dimensions % U32 = w[1].dimensions
        BY <3>1, CodecAssumption
      <3>3. DecodeField(kind, w, t1) = Some(w[1]) /\ Some(w[1]) # None /\ Some(w[1])[1] = w[1]
        BY <1>9, <2>2 DEF DecodeField, ProtoToEmbedding, Some, None
      <3>4. QED
        BY <1>9, <3>1, <3>2, <3>3 DEF EncodeField, EmbeddingToProto
    <2>3. QED
      BY <2>1, <2>2
  <1>10. QED
    BY <1>1, <1>2, <1>3, <1>4, <1>5, <1>6, <1>7, <1>8, <1>9 DEF RequestKinds

-----------------------------------------------------------------------------
(* The inductive invariant.                                                *)

(* What was put on the wire has its types and, from an AtpClient, is its   *)
(* message encoded at some time; the handler's request is what was on the  *)
(* wire, decoded at some time.                                             *)
AskedTyped ==
  \A f \in DomainFields(RequestSchema[method]) :
    WireTyped(RequestSchema[method][f], asked[1][f])

RequestInv ==
  /\ method \in Methods
  /\ asked # None => AskedTyped
  /\ sent # None =>
       /\ Typed(RequestSchema[method], sent[1])
       /\ \E t \in 0..MaxNow : asked = Some(Encode(RequestSchema[method], sent[1], t))
  /\ got # None =>
       /\ Decodable(RequestSchema[method], asked[1])
       /\ \E t \in 0..MaxNow : got = Some(Decode(RequestSchema[method], asked[1], t))

(* Who has come how far in a call.                                         *)
PhaseInv ==
  /\ now \in 0..MaxNow
  /\ linked \in BOOLEAN /\ wire \in BOOLEAN
  /\ caller = "idle" => AtRest
  /\ caller # "idle" => asked # None
  /\ wire => handler = "idle"
  /\ handler = "idle" => got = None /\ reply = None
  /\ handler = "running" => got # None /\ reply = None
  /\ handler # "returned" =>
       /\ given = <<>> /\ todo = <<>> /\ chan = <<>> /\ received = <<>>
       /\ producer = "none"
  /\ caller \in {"waiting", "reading", "ok"} => linked
  /\ caller = "waiting" => received = <<>>
  /\ caller = "reading" => method = "stream_results" /\ handler = "returned"

(* An answer is a sequence of messages; one on its way back is that of the *)
(* handler, encoded at some time.                                          *)
IsSeq(s) == s \in Seq(Members(s))

AnswerInv ==
  /\ IsSeq(given)
  /\ \A i \in DOMAIN given : Typed(ResponseSchema[method], given[i])
  /\ reply # None /\ reply[1].status = "ok" =>
       /\ handler = "returned"
       /\ method # "stream_results" =>
            \E t \in 0..MaxNow :
              reply[1].msgs = [i \in DOMAIN given |-> Encode(ResponseSchema[method], given[i], t)]

(* Of the results, the client has a first part, in order and unharmed, the *)
(* channel the next, each encoded at some time, and the streaming task the *)
(* rest.                                                                   *)
Results ==
  /\ IsSeq(received) /\ IsSeq(chan) /\ IsSeq(todo)
  /\ Len(received) + Len(chan) + Len(todo) = Len(given)
  /\ \A i \in 1..Len(received) :
       MessagePreserved(TaskResultSchema, given[i], received[i])
  /\ \A i \in 1..Len(chan) :
       \E t \in 0..MaxNow :
         chan[i] = Encode(TaskResultSchema, given[Len(received) + i], t)
  /\ \A i \in 1..Len(todo) : todo[i] = given[Len(received) + Len(chan) + i]
  /\ producer = "done" => todo = <<>>

StreamInv ==
  method = "stream_results" /\ handler = "returned" /\ linked => Results

(* Whoever asked, a caller that holds Ok holds the handler's answer.       *)
OkInv ==
  caller = "ok" =>
    /\ handler = "returned"
    /\ Len(received) = Len(given)
    /\ \A i \in DOMAIN given :
         MessagePreserved(ResponseSchema[method], given[i], received[i])

(* The server accepts whatever an AtpClient sends: only a foreign peer is  *)
(* answered INVALID_ARGUMENT (server.rs, the decoding in each RPC).        *)
ClientsAccepted == handler = "refused" => sent = None

IInv ==
  RequestInv /\ PhaseInv /\ AnswerInv /\ StreamInv /\ OkInv /\ ClientsAccepted

-----------------------------------------------------------------------------
(* Sequences of any values.                                                *)

LEMMA SeqFacts ==
  ASSUME NEW s, IsSeq(s)
  PROVE  /\ Len(s) \in Nat /\ DOMAIN s = 1..Len(s)
         /\ s = <<>> <=> Len(s) = 0
         /\ s = [i \in 1..Len(s) |-> s[i]]
  BY DEF IsSeq

LEMMA ListIsSeq ==
  ASSUME NEW n \in Nat, NEW s, s = [i \in 1..n |-> s[i]]
  PROVE  IsSeq(s) /\ Len(s) = n
  <1>1. DOMAIN s = 1..n
    OBVIOUS
  <1>2. \A i \in 1..n : s[i] \in Members(s)
    BY <1>1 DEF Members
  <1>3. s \in [1..n -> Members(s)]
    BY <1>2
  <1>4. s \in Seq(Members(s))
    BY <1>3, SeqDef
  <1>5. QED
    BY <1>1, <1>4 DEF IsSeq

LEMMA EmptyIsSeq == IsSeq(<<>>) /\ Len(<<>>) = 0
  BY DEF IsSeq

LEMMA AppendFacts ==
  ASSUME NEW s, IsSeq(s), NEW e
  PROVE  /\ IsSeq(Append(s, e)) /\ Len(Append(s, e)) = Len(s) + 1
         /\ \A i \in 1..Len(s) : Append(s, e)[i] = s[i]
         /\ Append(s, e)[Len(s) + 1] = e
  <1> DEFINE a == Append(s, e)
             S == Members(s) \cup {e}
  <1>1. s \in Seq(S)
    <2>1. Members(s) \subseteq S /\ s \in Seq(Members(s))
      BY DEF IsSeq
    <2> HIDE DEF S
    <2>2. QED
      BY <2>1
  <1>2. e \in S
    OBVIOUS
  <1> HIDE DEF S
  <1>3. /\ a \in Seq(S) /\ Len(a) = Len(s) + 1
        /\ \A i \in 1..Len(s) : a[i] = s[i]
        /\ a[Len(s) + 1] = e
    BY <1>1, <1>2, AppendProperties
  <1>4. Len(a) \in Nat /\ a = [i \in 1..Len(a) |-> a[i]]
    <2> HIDE DEF a
    <2>1. QED
      BY <1>3
  <1>5. IsSeq(a)
    BY <1>4, ListIsSeq
  <1>6. QED
    BY <1>3, <1>5

LEMMA TailFacts ==
  ASSUME NEW s, IsSeq(s), s # <<>>
  PROVE  /\ IsSeq(Tail(s)) /\ Len(Tail(s)) = Len(s) - 1
         /\ \A i \in 1..Len(Tail(s)) : Tail(s)[i] = s[i + 1]
         /\ Head(s) = s[1] /\ Len(s) >= 1
  <1> DEFINE a == Tail(s)
             S == Members(s)
  <1>1. s \in Seq(S)
    BY DEF IsSeq
  <1> HIDE DEF S
  <1>2. /\ a \in Seq(S) /\ Len(a) = Len(s) - 1
        /\ \A i \in 1..Len(a) : a[i] = s[i + 1]
        /\ Head(s) = s[1] /\ Len(s) >= 1
    BY <1>1, HeadTailProperties
  <1>3. Len(a) \in Nat /\ a = [i \in 1..Len(a) |-> a[i]]
    <2> HIDE DEF a
    <2>1. QED
      BY <1>2
  <1>4. IsSeq(a)
    BY <1>3, ListIsSeq
  <1>5. QED
    BY <1>2, <1>4

-----------------------------------------------------------------------------
(* Messages.                                                               *)

LEMMA MessageBack ==
  ASSUME NEW schema, \A f \in DomainFields(schema) : schema[f] \in Kinds,
         NEW msg, Typed(schema, msg), NEW t1, NEW t2
  PROVE  MessagePreserved(schema, msg, Decode(schema, Encode(schema, msg, t1), t2))
  <1> DEFINE w == Encode(schema, msg, t1)
  <1>1. SUFFICES ASSUME NEW f \in DomainFields(schema)
                 PROVE  Preserved(schema[f], msg[f], Decode(schema, w, t2)[f])
    BY DEF MessagePreserved
  <1>2. w[f] = EncodeField(schema[f], msg[f], t1)
    BY DEF Encode, DomainFields
  <1>3. Decode(schema, w, t2)[f] = DecodeField(schema[f], w[f], t2)
    BY DEF Decode
  <1>4. FieldTyped(schema[f], msg[f]) /\ schema[f] \in Kinds
    BY DEF Typed
  <1>5. QED
    BY <1>2, <1>3, <1>4, FieldBack

LEMMA RequestSchemas ==
  ASSUME NEW m \in Methods
  PROVE  \A f \in DOMAIN RequestSchema[m] :
           \/ RequestSchema[m][f] = "stamp"
           \/ RequestSchema[m][f] \in RequestKinds /\ RequestSchema[m][f] \in Kinds
  <1>1. CASE m = "probe"
    BY <1>1 DEF RequestSchema, ProbeSchema, RequestKinds, Kinds
  <1>2. CASE m = "accept_contract"
    BY <1>2 DEF RequestSchema, ContractAcceptSchema, RequestKinds, Kinds
  <1>3. CASE m = "submit_task"
    BY <1>3 DEF RequestSchema, TaskSubmitSchema, RequestKinds, Kinds
  <1>4. CASE m = "stream_results"
    BY <1>4 DEF RequestSchema, TaskQuerySchema, RequestKinds, Kinds
  <1>5. CASE m = "request_context"
    BY <1>5 DEF RequestSchema, ContextRequestSchema, RequestKinds, Kinds
  <1>6. CASE m = "query_route"
    BY <1>6 DEF RequestSchema, RouteQuerySchema, RequestKinds, Kinds
  <1>7. CASE m = "send_heartbeat"
    BY <1>7 DEF RequestSchema, HeartbeatSchema, RequestKinds, Kinds
  <1>8. CASE m = "report_backpressure"
    BY <1>8 DEF RequestSchema, BackpressureSchema, RequestKinds, Kinds
  <1>9. CASE m = "report_circuit_break"
    BY <1>9 DEF RequestSchema, CircuitBreakSchema, RequestKinds, Kinds
  <1>10. CASE m = "submit_interaction_proof"
    BY <1>10 DEF RequestSchema, InteractionProofSchema, RequestKinds, Kinds
  <1>11. QED
    BY <1>1, <1>2, <1>3, <1>4, <1>5, <1>6, <1>7, <1>8, <1>9, <1>10
       DEF Methods, RequestSchema

LEMMA ResponseSchemas ==
  ASSUME NEW m \in Methods
  PROVE  \A f \in DomainFields(ResponseSchema[m]) : ResponseSchema[m][f] \in Kinds
  <1>1. ResponseSchema[m] \in {OfferSchema, TaskResultSchema, ContextResponseSchema,
                               RouteSchema, AckSchema}
    BY DEF ResponseSchema
  <1>2. CASE ResponseSchema[m] = OfferSchema
    BY <1>2 DEF OfferSchema, Kinds, DomainFields
  <1>3. CASE ResponseSchema[m] = TaskResultSchema
    BY <1>3 DEF TaskResultSchema, Kinds, DomainFields
  <1>4. CASE ResponseSchema[m] = ContextResponseSchema
    BY <1>4 DEF ContextResponseSchema, Kinds, DomainFields
  <1>5. CASE ResponseSchema[m] = RouteSchema
    BY <1>5 DEF RouteSchema, Kinds, DomainFields
  <1>6. CASE ResponseSchema[m] = AckSchema
    BY <1>6 DEF AckSchema, Kinds, DomainFields
  <1>7. QED
    BY <1>1, <1>2, <1>3, <1>4, <1>5, <1>6

(* The request of an AtpClient, and every answer, survives the wire.       *)
LEMMA RequestBack ==
  ASSUME NEW m \in Methods, NEW msg, Typed(RequestSchema[m], msg), NEW t1, NEW t2
  PROVE  MessagePreserved(RequestSchema[m], msg,
           Decode(RequestSchema[m], Encode(RequestSchema[m], msg, t1), t2))
  <1>1. \A f \in DomainFields(RequestSchema[m]) : RequestSchema[m][f] \in Kinds
    BY RequestSchemas DEF DomainFields
  <1>2. QED
    BY <1>1, MessageBack

LEMMA ResponseBack ==
  ASSUME NEW m \in Methods, NEW msg, Typed(ResponseSchema[m], msg), NEW t1, NEW t2
  PROVE  MessagePreserved(ResponseSchema[m], msg,
           Decode(ResponseSchema[m], Encode(ResponseSchema[m], msg, t1), t2))
  BY ResponseSchemas, MessageBack

(* The server accepts it.                                                  *)
LEMMA RequestAccepted ==
  ASSUME NEW m \in Methods, NEW msg, Typed(RequestSchema[m], msg), NEW t
  PROVE  /\ Decodable(RequestSchema[m], Encode(RequestSchema[m], msg, t))
         /\ \A f \in DomainFields(RequestSchema[m]) :
              WireTyped(RequestSchema[m][f], Encode(RequestSchema[m], msg, t)[f])
  <1> DEFINE S == RequestSchema[m]
             w == Encode(S, msg, t)
  <1>1. ASSUME NEW f \in DOMAIN S, S[f] = "stamp"
        PROVE  FieldOk(S[f], w[f])
    BY <1>1 DEF FieldOk
  <1>2. ASSUME NEW f \in DOMAIN S, S[f] # "stamp"
        PROVE  FieldOk(S[f], w[f]) /\ WireTyped(S[f], w[f])
    <2>1. S[f] \in RequestKinds
      BY <1>2, RequestSchemas
    <2>2. w[f] = EncodeField(S[f], msg[f], t)
      BY <1>2 DEF Encode
    <2>3. FieldTyped(S[f], msg[f])
      BY <1>2 DEF Typed, DomainFields
    <2>4. QED
      BY <2>1, <2>2, <2>3, FieldOnWire
  <1> HIDE DEF S, w
  <1>3. Decodable(S, w) /\ \A f \in DomainFields(S) : WireTyped(S[f], w[f])
    BY <1>1, <1>2 DEF Decodable, DomainFields
  <1>4. QED
    BY <1>3 DEF S, w

-----------------------------------------------------------------------------
(* Every step keeps the invariant.                                         *)

LEMMA InitIInv == Init => IInv
  <1> SUFFICES ASSUME Init
               PROVE  IInv
    OBVIOUS
  <1>1. method \in Methods
    BY DEF Init, AtRest, Methods, RequestSchema
  <1>2. RequestInv
    BY <1>1 DEF Init, AtRest, RequestInv
  <1>3. PhaseInv
    <2>1. now \in 0..MaxNow
      BY TransportAssumption DEF Init
    <2>2. QED
      BY <2>1 DEF Init, AtRest, PhaseInv
  <1>4. AnswerInv
    BY EmptyIsSeq DEF Init, AtRest, AnswerInv
  <1>5. StreamInv /\ OkInv /\ ClientsAccepted
    BY DEF Init, AtRest, StreamInv, OkInv, ClientsAccepted
  <1>6. QED
    BY <1>2, <1>3, <1>4, <1>5 DEF IInv

(* Steps that leave alone what a part of the invariant speaks of.          *)
LEMMA Unconcerned ==
  ASSUME IInv
  PROVE  /\ UNCHANGED <<method, asked, sent, got>> => RequestInv'
         /\ UNCHANGED <<given, method, reply, handler>> => AnswerInv'
         /\ UNCHANGED <<method, handler, linked, received, chan, todo, given, producer>>
              => StreamInv'
         /\ UNCHANGED <<caller, handler, received, given, method>> => OkInv'
         /\ UNCHANGED <<handler, sent>> => ClientsAccepted'
  <1>1. UNCHANGED <<method, asked, sent, got>> => RequestInv'
    BY DEF IInv, RequestInv, AskedTyped
  <1>2. UNCHANGED <<given, method, reply, handler>> => AnswerInv'
    BY DEF IInv, AnswerInv
  <1>3. UNCHANGED <<method, handler, linked, received, chan, todo, given, producer>>
          => StreamInv'
    BY DEF IInv, StreamInv, Results
  <1>4. UNCHANGED <<caller, handler, received, given, method>> => OkInv'
    BY DEF IInv, OkInv
  <1>5. UNCHANGED <<handler, sent>> => ClientsAccepted'
    BY DEF IInv, ClientsAccepted
  <1>6. QED
    BY <1>1, <1>2, <1>3, <1>4, <1>5

(* A call starts from rest.                                                *)
LEMMA CallKeeps ==
  ASSUME IInv, NEW m \in Methods, NEW msg \in Requests(m),
         \/ Call(m, msg)
         \/ \E w \in Distortions(m, Encode(RequestSchema[m], msg, now)) : ForeignCall(m, w)
  PROVE  IInv'
  <1>1. /\ AtRest /\ method' = m /\ caller' = "waiting" /\ wire' = TRUE /\ asked' # None
        /\ UNCHANGED <<now, linked, handler, got, given, reply, todo, chan, producer, received>>
    BY DEF IInv, PhaseInv, Call, ForeignCall, serverVars, streamVars, Some, None
  <1>2. now \in 0..MaxNow
    BY DEF IInv, PhaseInv
  <1>3. RequestInv'
    <2>1. CASE Call(m, msg)
      <3>1. Typed(RequestSchema[m], msg)
        BY TransportAssumption
      <3>2. sent' = Some(msg) /\ asked' = Some(Encode(RequestSchema[m], msg, now))
        BY <2>1 DEF Call
      <3>3. sent'[1] = msg /\ asked'[1] = Encode(RequestSchema[m], msg, now)
        BY <3>2 DEF Some
      <3>4. AskedTyped'
        BY <1>1, <3>1, <3>3, RequestAccepted DEF AskedTyped
      <3>5. QED
        BY <1>1, <1>2, <3>1, <3>2, <3>3, <3>4 DEF RequestInv, AtRest
    <2>2. CASE \E w \in Distortions(m, Encode(RequestSchema[m], msg, now)) :
                 ForeignCall(m, w)
      <3>1. PICK w \in Distortions(m, Encode(RequestSchema[m], msg, now)) :
                   ForeignCall(m, w)
        BY <2>2
      <3>2. \A f \in DomainFields(RequestSchema[m]) :
              WireTyped(RequestSchema[m][f], w[f])
        BY <1>2, TransportAssumption
      <3>3. asked' = Some(w) /\ sent' = None
        BY <1>1, <3>1 DEF ForeignCall, AtRest
      <3>4. AskedTyped'
        BY <1>1, <3>2, <3>3 DEF AskedTyped, Some
      <3>5. QED
        BY <1>1, <3>3, <3>4 DEF RequestInv, AtRest
    <2>3. QED
      BY <2>1, <2>2
  <1>4. PhaseInv'
    BY <1>1, <1>2 DEF PhaseInv, AtRest
  <1>5. AnswerInv'
    BY <1>1, EmptyIsSeq DEF AnswerInv, AtRest
  <1>6. StreamInv' /\ OkInv' /\ ClientsAccepted'
    BY <1>1 DEF StreamInv, OkInv, ClientsAccepted, AtRest
  <1>7. QED
    BY <1>3, <1>4, <1>5, <1>6 DEF IInv

LEMMA AnsweredKeeps ==
  ASSUME IInv, Answered
  PROVE  IInv'
  <1> DEFINE ws == reply[1].msgs
  <1>1. /\ caller = "waiting" /\ linked /\ reply # None /\ reply' = None
        /\ caller' \in {"error", "reading", "ok"}
        /\ caller' # "error" => reply[1].status = "ok"
        /\ caller' = "reading" => method = "stream_results"
        /\ caller' = "ok" => method # "stream_results"
        /\ received' = IF caller' = "ok" THEN DecodeAll(method, ws) ELSE <<>>
        /\ UNCHANGED <<now, method, sent, asked, wire, linked, handler, got, given, todo,
                       chan, producer>>
    BY DEF Answered, serverVars, streamVars
  <1>2. RequestInv' /\ ClientsAccepted'
    BY <1>1, Unconcerned
  <1>3. received = <<>> /\ asked # None
    BY <1>1 DEF IInv, PhaseInv
  <1>4. caller' # "error" => handler = "returned"
    BY <1>1 DEF IInv, AnswerInv
  <1>5. PhaseInv'
    BY <1>1, <1>3, <1>4 DEF IInv, PhaseInv
  <1>6. AnswerInv'
    BY <1>1 DEF IInv, AnswerInv
  <1>7. StreamInv'
    <2>1. CASE caller' = "ok"
      BY <1>1, <2>1 DEF StreamInv
    <2>2. CASE caller' # "ok"
      <3>1. received' = received
        BY <1>1, <1>3, <2>2
      <3>2. QED
        BY <1>1, <3>1, Unconcerned
    <2>3. QED
      BY <2>1, <2>2
  <1>8. OkInv'
    <2>1. SUFFICES ASSUME caller' = "ok"
                   PROVE  /\ handler' = "returned" /\ Len(received') = Len(given')
                          /\ \A i \in DOMAIN given' :
                               MessagePreserved(ResponseSchema[method'], given'[i],
                                                received'[i])
      BY DEF OkInv
    <2> DEFINE schema == ResponseSchema[method]
    <2>2. PICK t \in 0..MaxNow : ws = [i \in DOMAIN given |-> Encode(schema, given[i], t)]
      BY <1>1, <2>1 DEF IInv, AnswerInv
    <2>3. received' = [i \in DOMAIN given |-> Decode(schema, Encode(schema, given[i], t), now)]
      BY <1>1, <2>1, <2>2 DEF DecodeAll
    <2>4. IsSeq(given) /\ \A i \in DOMAIN given : Typed(schema, given[i])
      BY DEF IInv, AnswerInv
    <2>5. method \in Methods
      BY DEF IInv, RequestInv
    <2> HIDE DEF schema, ws
    <2>6. Len(received') = Len(given)
      <3>1. DOMAIN given = 1..Len(given) /\ Len(given) \in Nat
        BY <2>4, SeqFacts
      <3>2. QED
        BY <2>3, <3>1
    <2>7. ASSUME NEW i \in DOMAIN given
          PROVE  MessagePreserved(schema, given[i], received'[i])
      <3>1. received'[i] = Decode(schema, Encode(schema, given[i], t), now)
        BY <2>3, <2>7
      <3>2. Typed(schema, given[i])
        BY <2>4, <2>7
      <3>3. QED
        BY <2>5, <3>1, <3>2, ResponseBack DEF schema
    <2>8. QED
      BY <1>1, <1>4, <2>1, <2>6, <2>7 DEF schema
  <1>9. QED
    BY <1>2, <1>5, <1>6, <1>7, <1>8 DEF IInv

LEMMA ReadResultKeeps ==
  ASSUME IInv, ReadResult
  PROVE  IInv'
  <1> DEFINE head == Decode(TaskResultSchema, Head(chan), now)
  <1>1. /\ caller = "reading" /\ linked /\ chan # <<>> /\ chan' = Tail(chan)
        /\ \/ /\ received' = Append(received, head)
              /\ UNCHANGED <<caller, linked>>
           \/ caller' = "error" /\ linked' = FALSE /\ UNCHANGED received
        /\ UNCHANGED <<now, method, sent, asked, wire, handler, got, given, reply, todo,
                       producer>>
    BY DEF ReadResult, serverVars
  <1>2. RequestInv' /\ AnswerInv' /\ ClientsAccepted'
    BY <1>1, Unconcerned
  <1>3. method = "stream_results" /\ handler = "returned"
    BY <1>1 DEF IInv, PhaseInv
  <1>4. PhaseInv'
    BY <1>1, <1>3 DEF IInv, PhaseInv
  <1>5. OkInv'
    BY <1>1 DEF OkInv
  <1>6. StreamInv'
    <2>1. CASE received' = Append(received, head) /\ UNCHANGED <<caller, linked>>
      <3>1. Results /\ method \in Methods
        BY <1>1, <1>3 DEF IInv, StreamInv, RequestInv
      <3>2. IsSeq(given) /\ \A i \in DOMAIN given : Typed(TaskResultSchema, given[i])
        BY <1>3, <3>1 DEF IInv, AnswerInv, ResponseSchema
      <3> DEFINE r == Len(received)
                 c == Len(chan)
      <3>3. r \in Nat /\ c \in Nat /\ Len(todo) \in Nat /\ Len(given) \in Nat
              /\ DOMAIN given = 1..Len(given)
        BY <3>1, <3>2, SeqFacts DEF Results
      <3>4. /\ IsSeq(chan') /\ Len(chan') = c - 1 /\ c >= 1 /\ Head(chan) = chan[1]
            /\ \A i \in 1..Len(chan') : chan'[i] = chan[i + 1]
        BY <1>1, <3>1, TailFacts DEF Results
      <3>5. /\ IsSeq(received') /\ Len(received') = r + 1
            /\ \A i \in 1..r : received'[i] = received[i]
            /\ received'[r + 1] = head
        BY <2>1, <3>1, AppendFacts DEF Results
      <3> HIDE DEF head, r, c
      <3>6. r + 1 \in DOMAIN given /\ r + c + Len(todo) = Len(given)
        BY <3>1, <3>3, <3>4 DEF Results, r, c
      <3>7. MessagePreserved(TaskResultSchema, given[r + 1], head)
        <4>1. PICK t \in 0..MaxNow : chan[1] = Encode(TaskResultSchema, given[r + 1], t)
          BY <3>1, <3>3, <3>4 DEF Results, r, c
        <4>2. Typed(TaskResultSchema, given[r + 1])
          BY <3>2, <3>6
        <4>3. ResponseSchema[method] = TaskResultSchema
          BY <1>3, <3>1 DEF ResponseSchema
        <4>4. QED
          BY <3>1, <3>4, <4>1, <4>2, <4>3, ResponseBack DEF head
      <3>8. \A i \in 1..(r + 1) : MessagePreserved(TaskResultSchema, given[i], received'[i])
        <4>1. SUFFICES ASSUME NEW i \in 1..(r + 1)
                       PROVE  MessagePreserved(TaskResultSchema, given[i], received'[i])
          OBVIOUS
        <4>2. CASE i \in 1..r
          BY <3>1, <3>5, <4>2 DEF Results, r
        <4>3. CASE i = r + 1
          BY <3>5, <3>7, <4>3
        <4>4. QED
          BY <3>3, <4>1, <4>2, <4>3
      <3>9. \A i \in 1..Len(chan') :
              \E t \in 0..MaxNow :
                chan'[i] = Encode(TaskResultSchema, given[(r + 1) + i], t)
        <4>1. SUFFICES ASSUME NEW i \in 1..Len(chan')
                       PROVE  \E t \in 0..MaxNow :
                                chan'[i] = Encode(TaskResultSchema, given[(r + 1) + i], t)
          OBVIOUS
        <4>2. i + 1 \in 1..c /\ (r + 1) + i = r + (i + 1)
          BY <3>3, <3>4
        <4>3. \E t \in 0..MaxNow :
                chan[i + 1] = Encode(TaskResultSchema, given[r + (i + 1)], t)
          BY <3>1, <4>2 DEF Results, r, c
        <4>4. QED
          BY <3>4, <4>2, <4>3
      <3>10. /\ (r + 1) + (c - 1) + Len(todo) = Len(given)
             /\ \A i \in 1..Len(todo) : todo[i] = given[(r + 1) + (c - 1) + i]
        <4>1. (r + 1) + (c - 1) = r + c
          BY <3>3
        <4>2. \A i \in 1..Len(todo) : todo[i] = given[r + c + i]
          BY <3>1 DEF Results, r, c
        <4>3. QED
          BY <3>6, <4>1, <4>2
      <3>11. Results'
        BY <1>1, <3>1, <3>4, <3>5, <3>8, <3>9, <3>10 DEF Results
      <3>12. QED
        BY <3>11 DEF StreamInv
    <2>2. CASE linked' = FALSE
      BY <2>2 DEF StreamInv
    <2>3. QED
      BY <1>1, <2>1, <2>2
  <1>7. QED
    BY <1>2, <1>4, <1>5, <1>6 DEF IInv

LEMMA EndOfStreamKeeps ==
  ASSUME IInv, EndOfStream
  PROVE  IInv'
  <1>1. /\ caller = "reading" /\ linked /\ chan = <<>> /\ producer = "done" /\ caller' = "ok"
        /\ UNCHANGED <<now, method, sent, asked, wire, linked, handler, got, given, reply,
                       todo, chan, producer, received>>
    BY DEF EndOfStream, serverVars, streamVars
  <1>2. RequestInv' /\ AnswerInv' /\ StreamInv' /\ ClientsAccepted'
    BY <1>1, Unconcerned
  <1>3. method = "stream_results" /\ handler = "returned" /\ method \in Methods
    BY <1>1 DEF IInv, PhaseInv, RequestInv
  <1>4. PhaseInv'
    BY <1>1, <1>3 DEF IInv, PhaseInv
  <1>5. Results /\ todo = <<>>
    BY <1>1, <1>3 DEF IInv, StreamInv, Results
  <1>6. Len(received) = Len(given) /\ DOMAIN given = 1..Len(given)
    <2>1. Len(received) \in Nat /\ Len(given) \in Nat /\ DOMAIN given = 1..Len(given)
      BY <1>5, SeqFacts DEF Results, IInv, AnswerInv
    <2>2. QED
      BY <1>1, <1>5, <2>1, EmptyIsSeq DEF Results
  <1>7. ResponseSchema[method] = TaskResultSchema
    BY <1>3 DEF ResponseSchema
  <1>8. OkInv'
    BY <1>1, <1>3, <1>5, <1>6, <1>7 DEF OkInv, Results
  <1>9. QED
    BY <1>2, <1>4, <1>8 DEF IInv

LEMMA InterruptKeeps ==
  ASSUME IInv, NEW end \in {"error", "dropped"}, Interrupt(end)
  PROVE  IInv'
  <1>1. /\ caller \in {"waiting", "reading"} /\ caller' = end /\ linked' = FALSE
        /\ received' = <<>>
        /\ UNCHANGED <<now, method, sent, asked, wire, handler, got, given, reply, todo,
                       chan, producer>>
    BY DEF Interrupt, serverVars, streamVars
  <1>2. RequestInv' /\ AnswerInv' /\ ClientsAccepted'
    BY <1>1, Unconcerned
  <1>3. PhaseInv'
    BY <1>1 DEF IInv, PhaseInv
  <1>4. StreamInv' /\ OkInv'
    BY <1>1 DEF StreamInv, OkInv
  <1>5. QED
    BY <1>2, <1>3, <1>4 DEF IInv

LEMMA NextCallKeeps ==
  ASSUME IInv, NextCall
  PROVE  IInv'
  <1>1. AtRest' /\ now' = now
    BY DEF NextCall, AtRest
  <1>2. method' \in Methods
    BY <1>1 DEF AtRest, Methods, RequestSchema
  <1>3. RequestInv'
    BY <1>1, <1>2 DEF AtRest, RequestInv
  <1>4. PhaseInv'
    <2>1. now' \in 0..MaxNow
      BY <1>1 DEF IInv, PhaseInv
    <2>2. QED
      BY <1>1, <2>1 DEF AtRest, PhaseInv
  <1>5. AnswerInv'
    BY <1>1, EmptyIsSeq DEF AtRest, AnswerInv
  <1>6. StreamInv' /\ OkInv' /\ ClientsAccepted'
    BY <1>1 DEF AtRest, StreamInv, OkInv, ClientsAccepted
  <1>7. QED
    BY <1>3, <1>4, <1>5, <1>6 DEF IInv

LEMMA ReceiveKeeps ==
  ASSUME IInv, Receive
  PROVE  IInv'
  <1> DEFINE schema == RequestSchema[method]
  <1>1. /\ wire /\ handler = "idle" /\ wire' = FALSE
        /\ \/ /\ Decodable(schema, asked[1]) /\ handler' = "running"
              /\ got' = Some(Decode(schema, asked[1], now)) /\ UNCHANGED reply
           \/ /\ ~Decodable(schema, asked[1]) /\ handler' = "refused"
              /\ reply' = Some([status |-> "INVALID_ARGUMENT", msgs |-> <<>>])
              /\ UNCHANGED got
        /\ UNCHANGED <<now, caller, method, sent, asked, linked, given, todo, chan, producer,
                       received>>
    BY DEF Receive, clientVars, streamVars
  <1>2. /\ got = None /\ reply = None /\ caller # "idle" /\ now \in 0..MaxNow
        /\ caller \notin {"reading", "ok"}
    BY <1>1 DEF IInv, PhaseInv, OkInv, AtRest
  <1>3. RequestInv'
    <2>1. CASE Decodable(schema, asked[1]) /\ got' = Some(Decode(schema, asked[1], now))
      BY <1>1, <1>2, <2>1 DEF IInv, RequestInv, AskedTyped
    <2>2. CASE UNCHANGED got
      BY <1>1, <2>2, Unconcerned
    <2>3. QED
      BY <1>1, <2>1, <2>2
  <1>4. PhaseInv'
    <2>1. Some(Decode(schema, asked[1], now)) # None
      BY DEF Some, None
    <2> HIDE DEF schema
    <2>2. QED
      BY <1>1, <1>2, <2>1 DEF IInv, PhaseInv
  <1>5. AnswerInv'
    <2>1. reply' # None => reply'[1].status # "ok"
      BY <1>1, <1>2 DEF Some
    <2>2. QED
      BY <1>1, <2>1 DEF IInv, AnswerInv
  <1>6. StreamInv' /\ OkInv'
    BY <1>1, <1>2 DEF StreamInv, OkInv
  <1>7. ClientsAccepted'
    <2>1. SUFFICES ASSUME ~Decodable(schema, asked[1]), sent # None
                   PROVE  FALSE
      BY <1>1 DEF ClientsAccepted
    <2>2. /\ method \in Methods /\ Typed(schema, sent[1])
          /\ \E t \in 0..MaxNow : asked = Some(Encode(schema, sent[1], t))
      BY <2>1 DEF IInv, RequestInv
    <2>3. PICK t \in 0..MaxNow : asked = Some(Encode(schema, sent[1], t))
      BY <2>2
    <2>4. asked[1] = Encode(schema, sent[1], t)
      BY <2>3 DEF Some
    <2>5. QED
      BY <2>1, <2>2, <2>4, RequestAccepted
  <1>8. QED
    BY <1>3, <1>4, <1>5, <1>6, <1>7 DEF IInv

(* Whatever the clock shows is an instant.                                 *)
LEMMA NowIsInstant ==
  ASSUME now \in 0..MaxNow
  PROVE  IsInstant(now)
  <1> DEFINE late == MaxNow + 1
             top == MaxSecond + 1
  <1>1. MaxNow \in Nat /\ IsInstant(late)
    BY TransportAssumption
  <1>2. late \in Int /\ late \div TicksPerSec < top /\ top \in Int
    BY <1>1, Units, DivMod DEF IsInstant
  <1>3. now \in Int /\ now \div TicksPerSec \in Int /\ now < late
    BY <1>1, Units, DivMod
  <1> HIDE DEF late, top
  <1>4. late < top * TicksPerSec
    BY <1>2, Units, DivBounds
  <1>5. now < top * TicksPerSec
    BY <1>2, <1>3, <1>4, Units
  <1>6. now \div TicksPerSec < top
    BY <1>2, <1>3, <1>5, Units, DivBounds
  <1>7. 0 <= now \div TicksPerSec
    <2>1. 0 * TicksPerSec <= now
      BY Units
    <2>2. QED
      BY <1>3, <2>1, Units, DivBounds
  <1>8. QED
    BY <1>3, <1>6, <1>7, Units DEF IsInstant, top

(* DefaultHandler's stubs are answers like any other.                      *)
LEMMA DefaultTyped ==
  ASSUME NEW m \in Methods, NEW req, now \in 0..MaxNow,
         m = "probe" => req.task_type \in Members(TaskTypes)
  PROVE  /\ IsSeq(DefaultAnswer(m, req))
         /\ \A i \in DOMAIN DefaultAnswer(m, req) :
              Typed(ResponseSchema[m], DefaultAnswer(m, req)[i])
  <1>1. ASSUME NEW x
        PROVE  IsSeq(<<x>>) /\ DOMAIN <<x>> = {1} /\ <<x>>[1] = x
    BY DEF IsSeq, Members
  <1>2. CASE m = "probe"
    <2> DEFINE cap == [task_type |-> req.task_type, body |-> "stub",
                       estimated_latency |-> DefaultLatency]
               offer == [from |-> "fresh", ttl |-> DefaultTtl, timestamp |-> now,
                         capability |-> cap, body |-> req.body]
    <2>1. DefaultAnswer(m, req) = <<offer>> /\ ResponseSchema[m] = OfferSchema
      BY <1>2 DEF DefaultAnswer, ResponseSchema
    <2>2. DefaultTtl \in Nat /\ DefaultLatency \in Nat
      BY Units DEF DefaultTtl, DefaultLatency
    <2>3. FieldTyped("capability", cap)
      BY <1>2, <2>2 DEF FieldTyped
    <2>4. FieldTyped("instant", now)
      BY NowIsInstant DEF FieldTyped
    <2>5. FieldTyped("millis", DefaultTtl)
      BY <2>2 DEF FieldTyped
    <2>6. \A x : FieldTyped("agent", x) /\ FieldTyped("body", x)
      BY DEF FieldTyped
    <2> HIDE DEF cap
    <2>7. Typed(OfferSchema, offer)
      BY <2>3, <2>4, <2>5, <2>6 DEF Typed, OfferSchema, DomainFields
    <2> HIDE DEF offer
    <2>8. QED
      BY <1>1, <2>1, <2>7
  <1>3. CASE m = "request_context"
    <2> DEFINE stub == "no chunks"
               none == [task_id |-> ToText(req.task_id), body |-> stub]
    <2>1. DefaultAnswer(m, req) = <<none>> /\ ResponseSchema[m] = ContextResponseSchema
      BY <1>3 DEF DefaultAnswer, ResponseSchema
    <2>2. FieldTyped("text", ToText(req.task_id)) /\ \A x : FieldTyped("body", x)
      BY DEF FieldTyped, IsText, ToText
    <2> HIDE DEF stub
    <2>3. Typed(ContextResponseSchema, none)
      BY <2>2 DEF Typed, ContextResponseSchema, DomainFields
    <2> HIDE DEF none
    <2>4. QED
      BY <1>1, <2>1, <2>3
  <1>4. CASE m \in {"stream_results", "query_route"}
    <2>1. DefaultAnswer(m, req) = <<>>
      BY <1>4 DEF DefaultAnswer
    <2>2. QED
      BY <2>1, EmptyIsSeq
  <1>5. CASE m \notin {"probe", "request_context", "stream_results", "query_route"}
    <2> DEFINE ack == [body |-> "accepted"]
    <2>1. DefaultAnswer(m, req) = <<ack>> /\ ResponseSchema[m] = AckSchema
      BY <1>5 DEF DefaultAnswer, ResponseSchema
    <2>2. Typed(AckSchema, ack)
      BY DEF Typed, AckSchema, DomainFields, FieldTyped
    <2> HIDE DEF ack
    <2>3. QED
      BY <1>1, <2>1, <2>2
  <1>6. QED
    BY <1>2, <1>3, <1>4, <1>5

LEMMA HandlerReturnsKeeps ==
  ASSUME IInv, handler = "running", NEW msgs \in HandlerAnswers(method, got[1]),
         HandlerReturns(msgs)
  PROVE  IInv'
  <1>1. /\ handler' = "returned" /\ given' = msgs
        /\ method = "stream_results" =>
             /\ producer' = "running" /\ todo' = msgs
             /\ reply' = Some([status |-> "ok", msgs |-> <<>>])
        /\ method # "stream_results" =>
             /\ reply' = Some([status |-> "ok", msgs |-> EncodeAll(method, msgs)])
             /\ UNCHANGED <<todo, producer>>
        /\ UNCHANGED <<now, caller, method, sent, asked, wire, linked, got, chan, received>>
    BY DEF HandlerReturns, clientVars
  <1>2. /\ got # None /\ now \in 0..MaxNow /\ method \in Methods /\ chan = <<>>
        /\ received = <<>> /\ caller \notin {"idle", "reading", "ok"}
    BY DEF IInv, PhaseInv, RequestInv, OkInv, AtRest
  <1>3. IsSeq(msgs) /\ \A i \in DOMAIN msgs : Typed(ResponseSchema[method], msgs[i])
    <2>1. CASE msgs \in Answers(method)
      BY <1>2, <2>1, TransportAssumption DEF IsSeq
    <2>2. CASE msgs = DefaultAnswer(method, got[1])
      <3>1. ASSUME method = "probe"
            PROVE  got[1].task_type \in Members(TaskTypes)
        <4>1. PICK t \in 0..MaxNow : got = Some(Decode(RequestSchema[method], asked[1], t))
          BY <1>2 DEF IInv, RequestInv
        <4>2. Decodable(RequestSchema[method], asked[1])
          BY <1>2 DEF IInv, RequestInv
        <4>3. RequestSchema[method] = ProbeSchema
          BY <3>1 DEF RequestSchema
        <4>4. got[1] = Decode(ProbeSchema, asked[1], t)
          BY <4>1, <4>3 DEF Some
        <4>5. /\ "task_type" \in DOMAIN ProbeSchema /\ "task_type" \in DomainFields(ProbeSchema)
              /\ ProbeSchema["task_type"] = "task_type"
          BY DEF ProbeSchema, DomainFields
        <4>6. got[1].task_type = FromI32(TaskTypes, asked[1].task_type)
          <5>1. got[1].task_type = DecodeField("task_type", asked[1].task_type, t)
            BY <4>4, <4>5 DEF Decode
          <5>2. QED
            BY <5>1 DEF DecodeField
        <4>7. asked[1].task_type \in DOMAIN TaskTypes
          <5>1. FieldOk("task_type", asked[1].task_type)
            BY <4>2, <4>3, <4>5 DEF Decodable
          <5>2. QED
            BY <5>1 DEF FieldOk, KnownI32
        <4>8. QED
          BY <4>6, <4>7, PositionBack
      <3>2. QED
        BY <1>2, <2>2, <3>1, DefaultTyped
    <2>3. QED
      BY <2>1, <2>2 DEF HandlerAnswers
  <1>4. RequestInv' /\ OkInv' /\ ClientsAccepted'
    <2>1. RequestInv'
      BY <1>1, Unconcerned
    <2>2. QED
      BY <1>1, <1>2, <2>1 DEF OkInv, ClientsAccepted
  <1>5. PhaseInv'
    BY <1>1, <1>2 DEF IInv, PhaseInv
  <1>6. AnswerInv'
    <2>1. method # "stream_results" =>
            \E t \in 0..MaxNow :
              reply'[1].msgs = [i \in DOMAIN msgs |-> Encode(ResponseSchema[method], msgs[i], t)]
      <3>1. method # "stream_results" => reply'[1].msgs = EncodeAll(method, msgs)
        BY <1>1 DEF Some
      <3>2. QED
        BY <1>2, <3>1 DEF EncodeAll
    <2>2. QED
      BY <1>1, <1>3, <2>1 DEF AnswerInv
  <1>7. StreamInv'
    <2>1. SUFFICES ASSUME method = "stream_results"
                   PROVE  Results'
      BY <1>1 DEF StreamInv
    <2>2. Len(msgs) \in Nat
      BY <1>3, SeqFacts
    <2>3. /\ chan' = <<>> /\ received' = <<>> /\ todo' = msgs /\ given' = msgs
          /\ producer' = "running"
      BY <1>1, <1>2, <2>1
    <2>4. QED
      BY <1>3, <2>2, <2>3, EmptyIsSeq DEF Results
  <1>8. QED
    BY <1>4, <1>5, <1>6, <1>7 DEF IInv

LEMMA HandlerEndsKeeps ==
  ASSUME IInv, HandlerFails \/ HandlerDropped
  PROVE  IInv'
  <1>1. /\ handler = "running" /\ handler' \in {"failed", "cancelled"}
        /\ \/ reply' = Some([status |-> "handler status", msgs |-> <<>>])
           \/ UNCHANGED reply
        /\ UNCHANGED <<now, caller, method, sent, asked, wire, linked, got, given, todo, chan,
                       producer, received>>
    BY DEF HandlerFails, HandlerDropped, clientVars, streamVars
  <1>2. reply = None /\ caller \notin {"idle", "reading", "ok"}
    BY <1>1 DEF IInv, PhaseInv, OkInv, AtRest
  <1>3. RequestInv'
    BY <1>1, Unconcerned
  <1>4. PhaseInv'
    BY <1>1, <1>2 DEF IInv, PhaseInv
  <1>5. AnswerInv'
    <2>1. reply' # None => reply'[1].status # "ok"
      <3> DEFINE status == "handler status"
      <3>1. status # "ok"
        OBVIOUS
      <3>2. reply' = Some([status |-> status, msgs |-> <<>>]) \/ reply' = None
        BY <1>1, <1>2
      <3> HIDE DEF status
      <3>3. QED
        BY <3>1, <3>2 DEF Some
    <2>2. QED
      BY <1>1, <2>1 DEF IInv, AnswerInv
  <1>6. StreamInv' /\ OkInv' /\ ClientsAccepted'
    BY <1>1, <1>2 DEF StreamInv, OkInv, ClientsAccepted
  <1>7. QED
    BY <1>3, <1>4, <1>5, <1>6 DEF IInv

LEMMA SendResultKeeps ==
  ASSUME IInv, SendResult
  PROVE  IInv'
  <1> DEFINE w == Encode(TaskResultSchema, Head(todo), now)
  <1>1. /\ producer = "running" /\ todo # <<>> /\ linked
        /\ chan' = Append(chan, w) /\ todo' = Tail(todo)
        /\ UNCHANGED <<now, caller, method, sent, asked, wire, linked, handler, got, given,
                       reply, producer, received>>
    BY DEF SendResult, clientVars, serverVars
  <1>2. RequestInv' /\ AnswerInv' /\ OkInv' /\ ClientsAccepted'
    BY <1>1, Unconcerned
  <1>3. handler = "returned" /\ caller # "idle" /\ now \in 0..MaxNow
    BY <1>1 DEF IInv, PhaseInv, AtRest
  <1>4. PhaseInv'
    BY <1>1, <1>3 DEF IInv, PhaseInv
  <1>5. StreamInv'
    <2>1. SUFFICES ASSUME method = "stream_results"
                   PROVE  Results'
      BY <1>1 DEF StreamInv
    <2>2. Results
      BY <1>1, <1>3, <2>1 DEF IInv, StreamInv
    <2> DEFINE r == Len(received)
               c == Len(chan)
    <2>3. r \in Nat /\ c \in Nat /\ Len(todo) \in Nat
      BY <2>2, SeqFacts DEF Results
    <2>4. /\ IsSeq(todo') /\ Len(todo') = Len(todo) - 1 /\ Len(todo) >= 1
          /\ Head(todo) = todo[1] /\ \A i \in 1..Len(todo') : todo'[i] = todo[i + 1]
      BY <1>1, <2>2, TailFacts DEF Results
    <2>5. /\ IsSeq(chan') /\ Len(chan') = c + 1
          /\ \A i \in 1..c : chan'[i] = chan[i]
          /\ chan'[c + 1] = w
      BY <1>1, <2>2, AppendFacts DEF Results
    <2> HIDE DEF w, r, c
    <2>6. \A i \in 1..Len(chan') :
            \E t \in 0..MaxNow : chan'[i] = Encode(TaskResultSchema, given[r + i], t)
      <3>1. SUFFICES ASSUME NEW i \in 1..(c + 1)
                     PROVE  \E t \in 0..MaxNow :
                              chan'[i] = Encode(TaskResultSchema, given[r + i], t)
        BY <2>5
      <3>2. CASE i \in 1..c
        BY <2>2, <2>5, <3>2 DEF Results, r, c
      <3>3. CASE i = c + 1
        <4>1. todo[1] = given[r + c + 1]
          BY <2>2, <2>3, <2>4 DEF Results, r, c
        <4>2. r + i = r + c + 1
          BY <2>3, <3>3
        <4>3. chan'[i] = Encode(TaskResultSchema, given[r + i], now)
          BY <2>4, <2>5, <3>3, <4>1, <4>2 DEF w
        <4>4. QED
          BY <1>3, <4>3
      <3>4. QED
        BY <2>3, <3>1, <3>2, <3>3
    <2>7. \A i \in 1..Len(todo') : todo'[i] = given[r + (c + 1) + i]
      <3>1. SUFFICES ASSUME NEW i \in 1..Len(todo')
                     PROVE  todo'[i] = given[r + (c + 1) + i]
        OBVIOUS
      <3>2. i + 1 \in 1..Len(todo) /\ r + (c + 1) + i = r + c + (i + 1)
        BY <2>3, <2>4
      <3>3. todo[i + 1] = given[r + c + (i + 1)]
        BY <2>2, <3>2 DEF Results, r, c
      <3>4. QED
        BY <2>4, <3>2, <3>3
    <2>8. r + (c + 1) + Len(todo') = Len(given)
      <3>1. r + c + Len(todo) = Len(given)
        BY <2>2 DEF Results, r, c
      <3>2. QED
        BY <2>3, <2>4, <3>1
    <2>9. QED
      BY <1>1, <2>2, <2>4, <2>5, <2>6, <2>7, <2>8 DEF Results, r
  <1>6. QED
    BY <1>2, <1>4, <1>5 DEF IInv

LEMMA ProducerEndsKeeps ==
  ASSUME IInv, ReceiverGone \/ AllSent
  PROVE  IInv'
  <1>1. /\ producer = "running" /\ producer' = "done" /\ (linked => todo = <<>>)
        /\ UNCHANGED <<now, caller, method, sent, asked, wire, linked, handler, got, given,
                       reply, todo, chan, received>>
    BY DEF ReceiverGone, AllSent, clientVars, serverVars
  <1>2. RequestInv' /\ AnswerInv' /\ OkInv' /\ ClientsAccepted'
    BY <1>1, Unconcerned
  <1>3. handler = "returned" /\ caller # "idle"
    BY <1>1 DEF IInv, PhaseInv, AtRest
  <1>4. PhaseInv'
    BY <1>1, <1>3 DEF IInv, PhaseInv
  <1>5. StreamInv'
    BY <1>1 DEF IInv, StreamInv, Results
  <1>6. QED
    BY <1>2, <1>4, <1>5 DEF IInv

LEMMA EnvironmentKeeps ==
  ASSUME IInv, RequestLost \/ Tick \/ UNCHANGED vars
  PROVE  IInv'
  <1>1. /\ wire' = FALSE \/ UNCHANGED wire
        /\ now' = now \/ now' \in 0..MaxNow
        /\ UNCHANGED <<caller, method, sent, asked, linked, handler, got, given, reply, todo,
                       chan, producer, received>>
    <2>1. now \in 0..MaxNow /\ MaxNow \in Nat
      BY TransportAssumption DEF IInv, PhaseInv
    <2>2. QED
      BY <2>1 DEF RequestLost, Tick, vars, clientVars, serverVars, streamVars
  <1>2. RequestInv' /\ AnswerInv' /\ StreamInv' /\ OkInv' /\ ClientsAccepted'
    BY <1>1, Unconcerned
  <1>3. PhaseInv'
    <2>1. caller = "idle" => wire = FALSE /\ wire' = FALSE
      BY <1>1 DEF IInv, PhaseInv, AtRest
    <2>2. now' \in 0..MaxNow /\ wire' \in BOOLEAN /\ (wire' => handler = "idle")
      <3>1. now' \in 0..MaxNow
        BY <1>1 DEF IInv, PhaseInv
      <3>2. wire \in BOOLEAN /\ (wire => handler = "idle")
        BY DEF IInv, PhaseInv
      <3>3. CASE wire' = FALSE
        BY <3>1, <3>3
      <3>4. CASE wire' = wire
        BY <3>1, <3>2, <3>4
      <3>5. QED
        BY <1>1, <3>3, <3>4
    <2>3. caller = "idle" => AtRest'
      BY <1>1, <2>1 DEF IInv, PhaseInv, AtRest
    <2>4. QED
      BY <1>1, <2>2, <2>3 DEF IInv, PhaseInv
  <1>4. QED
    BY <1>2, <1>3 DEF IInv

LEMMA StepIInv == IInv /\ [Next]_vars => IInv'
  <1> SUFFICES ASSUME IInv, [Next]_vars
               PROVE  IInv'
    OBVIOUS
  <1>1. CASE \E m \in Methods : \E msg \in Requests(m) :
               \/ Call(m, msg)
               \/ \E w \in Distortions(m, Encode(RequestSchema[m], msg, now)) :
                    ForeignCall(m, w)
    BY <1>1, CallKeeps
  <1>2. CASE Answered
    BY <1>2, AnsweredKeeps
  <1>3. CASE ReadResult
    BY <1>3, ReadResultKeeps
  <1>4. CASE EndOfStream
    BY <1>4, EndOfStreamKeeps
  <1>5. CASE \E end \in {"error", "dropped"} : Interrupt(end)
    BY <1>5, InterruptKeeps
  <1>6. CASE NextCall
    BY <1>6, NextCallKeeps
  <1>7. CASE Receive
    BY <1>7, ReceiveKeeps
  <1>8. CASE handler = "running"
             /\ \E msgs \in HandlerAnswers(method, got[1]) : HandlerReturns(msgs)
    BY <1>8, HandlerReturnsKeeps
  <1>9. CASE HandlerFails \/ HandlerDropped
    BY <1>9, HandlerEndsKeeps
  <1>10. CASE SendResult
    BY <1>10, SendResultKeeps
  <1>11. CASE ReceiverGone \/ AllSent
    BY <1>11, ProducerEndsKeeps
  <1>12. CASE RequestLost \/ Tick \/ UNCHANGED vars
    BY <1>12, EnvironmentKeeps
  <1>13. QED
    BY <1>1, <1>2, <1>3, <1>4, <1>5, <1>6, <1>7, <1>8, <1>9, <1>10, <1>11, <1>12 DEF Next

LEMMA Invariance == Spec => []IInv
  <1>1. QED
    BY InitIInv, StepIInv, PTL DEF Spec

-----------------------------------------------------------------------------
(* The theorems.                                                           *)

(* A handler is given what the client was given, for every message the     *)
(* types allow and whatever the clocks of the two sides show: identifiers, *)
(* enums, timestamps and bodies exactly, durations and deadlines less than *)
(* a millisecond short and never extended, dimensions exactly; durations   *)
(* beyond a u64 of milliseconds and dimensions beyond a u32 arrive smaller *)
(* (codec.rs).                                                             *)
THEOREM RequestsArriveAsSent == Spec => []HandledAsSent
  <1>1. IInv => HandledAsSent
    <2>1. SUFFICES ASSUME IInv, got # None, sent # None
                   PROVE  MessagePreserved(RequestSchema[method], sent[1], got[1])
      BY DEF HandledAsSent
    <2> DEFINE schema == RequestSchema[method]
    <2>2. PICK t1 \in 0..MaxNow : asked = Some(Encode(schema, sent[1], t1))
      BY <2>1 DEF IInv, RequestInv
    <2>3. PICK t2 \in 0..MaxNow : got = Some(Decode(schema, asked[1], t2))
      BY <2>1 DEF IInv, RequestInv
    <2>4. got[1] = Decode(schema, Encode(schema, sent[1], t1), t2)
      BY <2>2, <2>3 DEF Some
    <2>5. method \in Methods /\ Typed(schema, sent[1])
      BY <2>1 DEF IInv, RequestInv
    <2>6. QED
      BY <2>4, <2>5, RequestBack
  <1>2. QED
    BY <1>1, Invariance, PTL

(* Whatever a peer sends, a handler is told nothing the request does not   *)
(* say, but for the replacements proto_to_datetime, proto_to_contract_     *)
(* accept, the route query and the fixed hash document (codec.rs).         *)
THEOREM HandlersAreToldTheRequest == Spec => []NothingGuessed
  <1>1. IInv => NothingGuessed
    <2>1. SUFFICES ASSUME IInv, got # None, NEW f \in DomainFields(RequestSchema[method])
                   PROVE  \/ EncodeField(RequestSchema[method][f], got[1][f], now)
                               = asked[1][f]
                          \/ Replaced(RequestSchema[method][f], asked[1][f])
      BY DEF NothingGuessed
    <2> DEFINE schema == RequestSchema[method]
    <2>2. PICK t \in 0..MaxNow : got = Some(Decode(schema, asked[1], t))
      BY <2>1 DEF IInv, RequestInv
    <2>3. got[1][f] = DecodeField(schema[f], asked[1][f], t)
      <3>1. got[1] = Decode(schema, asked[1], t)
        BY <2>2 DEF Some
      <3>2. QED
        BY <2>1, <3>1 DEF Decode
    <2>4. FieldOk(schema[f], asked[1][f])
      BY <2>1 DEF IInv, RequestInv, Decodable, DomainFields
    <2>5. asked # None
      BY <2>1 DEF IInv, PhaseInv, AtRest
    <2>6. WireTyped(schema[f], asked[1][f])
      BY <2>1, <2>5 DEF IInv, RequestInv, AskedTyped
    <2>7. schema[f] \in RequestKinds
      BY <2>1, RequestSchemas DEF IInv, RequestInv, DomainFields
    <2>8. QED
      BY <2>3, <2>4, <2>6, <2>7, WireBack
  <1>2. QED
    BY <1>1, Invariance, PTL

(* Ok means served: a caller that holds Ok holds the whole answer of a     *)
(* handler that ran, in order, however the results were streamed and       *)
(* whatever the capacity of the channel (client.rs, server.rs).            *)
THEOREM OkHoldsTheAnswer == Spec => []OkIsTheAnswer
  <1>1. IInv => OkIsTheAnswer
    BY DEF IInv, OkInv, OkIsTheAnswer
  <1>2. QED
    BY <1>1, Invariance, PTL

(* An AtpClient is never answered INVALID_ARGUMENT by the decoding of an   *)
(* RPC: what the client's codec writes, the server's codec reads.          *)
THEOREM ClientsAreAccepted == Spec => []ClientsAccepted
  <1>1. IInv => ClientsAccepted
    BY DEF IInv
  <1>2. QED
    BY <1>1, Invariance, PTL
=============================================================================
