SPECIFICATION ArtifactsSpec
CONSTANTS
  ResultBodies <- MCResultBodies
  ReadSizes = {2048}
  Escapes = {0}
  MaxArtifacts = 4
  MaxReads = 4
INVARIANT PagesDelivered
CHECK_DEADLOCK FALSE
