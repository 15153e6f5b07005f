CONSTANTS
  TicksPerMs = 2
  MsPerSec = 2
  Width = 8
  HalfWidth = 4
  MaxSecond = 3
  HashLen = 2
  Capacity = 2
  MaxNow = 1
  Requests <- MCRequests
  Distortions <- MCDistortions
  Answers <- MCAnswers
SPECIFICATION FairSpec
INVARIANT HandledAsSent
INVARIANT NothingGuessed
INVARIANT OkIsTheAnswer
PROPERTY CallEnds
PROPERTY NothingLeftBehind
