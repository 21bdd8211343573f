\* A file long enough to wrap a two-byte offset, and short reads from pipes.
CONSTANTS
  ROW = 16
  OffsetBytes = 2
  SpareBytes = 1
  FileLengths = {0, 1, 16, 47, 65600}
  PipeLengths = {20, 37}
  Byte <- SampleByte
  PipeReads = {1, 7, 15}
  MaxFailures = 1
SPECIFICATION Spec
INVARIANTS TypeOK RowsShowInput OffsetIsPosition
CHECK_DEADLOCK FALSE
