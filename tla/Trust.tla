------------------------------- MODULE Trust -------------------------------
(***************************************************************************)
(* Layer 1's scores (crates/atp-identity): the time-decayed trust of       *)
(* trust.rs and the vouching of sybil.rs, as operators on a bag of         *)
(* interaction records.  Scores are hundredths, rounded down; the          *)
(* exponential decay is a table of weights by age in days.  No score       *)
(* depends on the order of the records.                                    *)
(***************************************************************************)
EXTENDS Integers, FiniteSets, Sequences, Bags, FiniteSetsExt

CONSTANTS
  Decay,      \* weight of a record by its age in days, see TrustAssumption
  MaxDepth    \* SybilGuard.max_depth: how many vouchers of a chain count

MaxAge == Len(Decay) - 1

(* Older records weigh no more; e^(-lambda * days) underflows to 0 at last. *)
ASSUME TrustAssumption ==
  /\ Decay \in Seq(Nat) /\ Decay # <<>> /\ MaxDepth \in Nat
  /\ \A i \in 1..(Len(Decay) - 1) : Decay[i] >= Decay[i + 1]

Prior == 50

ComplexityWeight ==
  [CodeGeneration |-> 15, Analysis |-> 12, CreativeWriting |-> 10,
   DataProcessing |-> 8]

Percent(x) == IF x < 0 THEN 0 ELSE IF x > 100 THEN 100 ELSE x

(* A record's evaluator may have stamped it in this node's future.         *)
DaysSince(r) == IF r.age < 0 THEN 0 ELSE r.age

Weight(r) == Decay[DaysSince(r) + 1] * ComplexityWeight[r.task_type]

Selected(records, Test(_)) ==
  [r \in {q \in DOMAIN records : Test(q)} |-> records[r]]

About(a, records) == Selected(records, LAMBDA r : r.subject = a)

(* The number of records, and a sum over them.                             *)
Count(records) == SumFunction(records)

SumOver(records, Value(_)) ==
  SumFunction([r \in DOMAIN records |-> records[r] * Value(r)])

Numerator(relevant) == SumOver(relevant, LAMBDA r : r.quality * Weight(r))
Denominator(relevant) == SumOver(relevant, Weight)

(* The weighted mean of the qualities, or the prior if nothing weighs.     *)
WeightedAverage(relevant) ==
  IF Denominator(relevant) = 0 THEN Prior
  ELSE Percent(Numerator(relevant) \div Denominator(relevant))

-----------------------------------------------------------------------------
(* TrustEngine.                                                            *)

(* Slip: the mean is not clamped.                                          *)
Unclamped(a, records) ==
  LET relevant == About(a, records)
  IN IF Denominator(relevant) = 0 THEN Prior
     ELSE Numerator(relevant) \div Denominator(relevant)

(* compute_aggregate_trust has the formula of weighted_average once more.  *)
AggregateTrust(a, records) ==
  LET relevant == About(a, records)
  IN IF Denominator(relevant) = 0 THEN Prior
     ELSE Percent(Numerator(relevant) \div Denominator(relevant))

TrustScore(a, t, records) ==
  LET relevant == Selected(About(a, records), LAMBDA r : r.task_type = t)
  IN [score |-> WeightedAverage(relevant),
      sample_count |-> IF Denominator(relevant) = 0 THEN 0
                       ELSE Count(relevant)]

-----------------------------------------------------------------------------
(* SybilGuard, with alpha = 1/2.                                           *)

Attestation(voucher, a, records) ==
  AggregateTrust(a, Selected(records, LAMBDA r : r.evaluator = voucher))

(* alpha^k * T(voucher) * T_attestation(voucher -> a).                     *)
Vouch(k, voucher, a, records) ==
  (AggregateTrust(voucher, records) * Attestation(voucher, a, records))
    \div (100 * 2^k)

TransitiveTrust(a, voucher, records) ==
  Percent(AggregateTrust(a, records) + Vouch(1, voucher, a, records))

(* Slip: dampening starts with the second voucher.                         *)
DampedLate(a, chain, records) ==
  LET depth == Min({Len(chain), MaxDepth})
  IN Percent(AggregateTrust(a, records)
             + SumFunction([k \in 1..depth |-> Vouch(k - 1, chain[k], a, records)]))

ChainTrust(a, chain, records) ==
  LET depth == Min({Len(chain), MaxDepth})
  IN Percent(AggregateTrust(a, records)
             + SumFunction([k \in 1..depth |-> Vouch(k, chain[k], a, records)]))

(* Many evaluators with few records each are suspicious.                   *)
SybilSuspicion(a, records) ==
  LET direct   == Count(About(a, records))
      vouchers == Cardinality({r.evaluator : r \in DOMAIN About(a, records)})
  IN CASE vouchers = 0 -> 0
       [] direct \in 1..2 /\ 10 * vouchers > 8 * direct ->
            Percent((100 * vouchers) \div direct)
       [] OTHER -> Percent((1000 * vouchers) \div (direct * (10 + direct)))
=============================================================================
