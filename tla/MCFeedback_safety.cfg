SPECIFICATION Spec
CONSTANTS
  Edges = {e1, e2}
  Classes = 2
  MaxExecs = 4
  Base = 1
  MaxEdges = 2
SYMMETRY EdgeSymmetry
INVARIANTS HistoryWitnessed CrashesKeptApart NothingKeptTwice StatsAgree
PROPERTIES NothingForgotten
CHECK_DEADLOCK FALSE
