CONSTANTS
  Agent = {n, a, b}
  Self = n
  TaskType = {"CodeGeneration", "Analysis"}
  Profiles <- MCProfiles
  QoS <- MCQoS
  Reports <- MCReports
  Decay <- MCDecay
  MaxDepth = 1
  RelaxPct = 50
  MaxRetries = 1
  Stamps <- MCStamps
  MaxInputs = 4
SPECIFICATION Spec
SYMMETRY Symmetry
INVARIANT TypeOK
INVARIANT LayersAgree
INVARIANT RoutedIsRegistered
INVARIANT TrustIsCurrent
INVARIANT ScoresSound
