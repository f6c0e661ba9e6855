CONSTANTS
  f = f
  g = g
  Files = {f, g}
  Contents <- Disk
  None = None
  Typed = 0
  NBanks = 3
  LoadMax = 1
  Capacity = 2
  MaxLines = 3
  MaxFiles = 1
  Habits = {"fresh", "own"}
SPECIFICATION Spec
INVARIANTS TypeOK PartsInOrder
PROPERTIES KeepsDocuments
