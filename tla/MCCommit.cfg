SPECIFICATION Spec
CONSTANTS
  Callers = {c1, c2}
  Investigations = {i1, i2}
  Keys = {k1, k2}
  MAX_EDIT_RESULTS = 1
  MaxProposals = 2
  MaxEdits = 3
  NoInv = NoInv
  NoKey = NoKey
SYMMETRY Symmetry
INVARIANTS TypeOK RepeatsOverlap SuccessMeansApplied RereadExplained
CHECK_DEADLOCK FALSE
