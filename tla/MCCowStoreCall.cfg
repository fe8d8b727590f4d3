SPECIFICATION Spec
VIEW UpToNaming
CHECK_DEADLOCK FALSE
CONSTANTS
  Edges = {e1}
  Slots = {s1}
  Vals = {v1, v2}
  MaxDepth = 0
  Sizes <- OneEdge
  None = None
PROPERTY
  ArgumentsClobbered
