SPECIFICATION Spec
CONSTANTS
  Files <- MCFiles
  Projects <- MCProjects
  Runs = {r1, r2}
  MaxCalls = 1
  MaxTurns = 2
  MaxDumps = 2
INVARIANTS HitsSurviveMerge
CHECK_DEADLOCK FALSE
