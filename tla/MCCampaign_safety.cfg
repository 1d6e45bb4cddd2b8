SPECIFICATION Spec
CONSTANTS
  Clients = {c1, c2}
  Edges = {e1}
  Dirs = {d1, d2}
  NoDir = NoDir
  Labels <- MCLabels
  MaxExecs = 2
  MaxBeats = 2
  MaxLaunches = 2
  MaxPosts = 2
SYMMETRY Symmetry
INVARIANTS HeartbeatsHold ImportedOnce MonitorCatchesUp
CHECK_DEADLOCK FALSE
