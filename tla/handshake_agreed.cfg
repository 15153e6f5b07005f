CONSTANTS
  Agent = {a1}
  TaskType = {"analysis", "data"}
  Capability <- MCCapability
  QoS <- MCQoS
  Trust = {50, 90}
  RawTrust <- MCRawTrust
  RelaxPct = 50
  MaxRetries = 2
SPECIFICATION Spec
INVARIANT AgreedWithinOriginal
