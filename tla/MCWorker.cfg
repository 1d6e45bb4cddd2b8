SPECIFICATION FairSpec
CONSTANTS
  Pids = {p1, p2}
  NoProc = NoProc
  MaxCalls = 3
  MaxNoise = 2
  Target = {"chatter", "die", "hang"}
  Stray = {"chatter", "die", "hang"}
INVARIANTS OneChild NoStaleAnswer OkMeansCompleted ValidityAttributed CleanWhenIdle
PROPERTIES HandlersNeverOverlap TerminateReturns ImplementsHarness
CHECK_DEADLOCK FALSE
