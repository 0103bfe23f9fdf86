SPECIFICATION Spec
CONSTANTS
  Vas <- MCVas
  Edits <- OneEdit
  f = f
  g = g
  v = v
  w = w
  Values = {v, w}
  Functions = {f}
  EntryVa = g
  Clients = {c1}
  Sessions = {s1}
  CheckpointOps = 2
  MaxRequests = 4
  MaxQueue = 1
  Absent = Absent
  NoCapture = NoCapture
  NoFile = NoFile
  NoResult = NoResult
  Faults = {"crash", "append_error", "save_error"}
INVARIANTS TypeOK DurabilityInv AckedSurvive
PROPERTIES ImplementsDurableEdits
CHECK_DEADLOCK FALSE
