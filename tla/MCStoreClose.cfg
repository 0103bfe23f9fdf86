SPECIFICATION FairSpec
CONSTANTS
  Vas <- MCVas
  Edits <- OneEdit
  f = f
  g = g
  v = v
  w = w
  Values = {v, w}
  Functions = {f}
  EntryVa = g
  Clients = {c1}
  Sessions = {s1, s2}
  CheckpointOps = 2
  MaxRequests = 2
  MaxQueue = 2
  Absent = Absent
  NoCapture = NoCapture
  NoFile = NoFile
  NoResult = NoResult
  Faults = {"overlap"}
PROPERTIES Answered
CHECK_DEADLOCK FALSE
