SPECIFICATION Spec
CONSTANTS
  Edges = {e1}
  Classes = 1
  MaxExecs = 3
  Base = 1
  MaxEdges = 2
PROPERTIES TotalEdgesGrow
CHECK_DEADLOCK FALSE
