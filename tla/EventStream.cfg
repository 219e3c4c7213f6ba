SPECIFICATION Spec
CONSTANTS
  NULL = NULL
  Streams <- MCStreams
  CloseAfters = {0, 1, 2}
\* listen returns, and the server may send no more.
CHECK_DEADLOCK FALSE
INVARIANTS
  TypeOK
  ChunksDoNotMatter
