SPECIFICATION Spec
CONSTANTS
  small = small
  tiny = tiny
  other = other
  large = large
  plain = plain
  big = big
  NoPath = NoPath
  Callers = {c1, c2}
  Paths <- MCPaths
  Files <- MCFiles
  FileOf <- MCFileOf
  BoundedFiles <- MCBounded
  MAX_OPEN_JOBS = 1
  MaxJobs = 2
INVARIANTS CloseReleases
CHECK_DEADLOCK FALSE
