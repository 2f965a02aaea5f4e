CONSTANTS
  Streams <- MCAllStreams
  ScanLimit = 3
  Reads <- MCReads
  Seeks <- MCSeeks
  TailRooms <- MCTailRooms
  Chunk = 2
  Kinds <- MCKinds
  ProgramChunk = 2
  TailRoom = 2
  Starts <- MCStarts

SPECIFICATION ProgramSpec

INVARIANTS
  BlockAligned
  ShortReadsReported
  ProgramsDeliver
  VerifiedIsWhole
  OwnFilesPass

PROPERTIES
  ImplementsFrameSource
  CallsReturn
  ProgramsEnd

CHECK_DEADLOCK FALSE
