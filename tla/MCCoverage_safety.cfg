SPECIFICATION Spec
CONSTANTS
  Files <- MCFiles
  Projects <- MCProjects
  Runs = {r1, r2}
  MaxCalls = 2
  MaxTurns = 2
  MaxDumps = 2
INVARIANTS CountsFollow PathsHold AttributionAgrees CountersCount DiffShowsNew
SYMMETRY MCSymmetry
CHECK_DEADLOCK FALSE
