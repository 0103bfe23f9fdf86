SPECIFICATION Spec
CONSTANTS
  Vas <- MCVas
  Edits <- UndoEdits
  f = f
  g = g
  v = v
  w = w
  Values = {v, w}
  Functions = {f}
  EntryVa = g
  Clients = {c1, c2}
  Sessions = {s1}
  CheckpointOps = 6
  MaxRequests = 5
  MaxQueue = 1
  Absent = Absent
  NoCapture = NoCapture
  NoFile = NoFile
  NoResult = NoResult
  Faults = {}
PROPERTIES UndoCompensates RedoReapplies
SYMMETRY ClientSymmetry
CHECK_DEADLOCK FALSE
