CONSTANTS
  Network <- MCNetwork
  TaskType = {"analysis", "data", "orphan"}
  Complex = {"analysis"}
  ContextSizes = {0, 29, 50000}
  MaxTasks = 3
SPECIFICATION Spec
INVARIANT TasksAccounted
INVARIANT TrustIsEarned
PROPERTY FailsOnlyExhausted
INVARIANT MetricsSound
