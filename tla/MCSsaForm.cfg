SPECIFICATION SsaSpec
CONSTANTS
  Flows <- MCFlows
  NoBlock = NoBlock
INVARIANT SingleWriteReached
CHECK_DEADLOCK FALSE
