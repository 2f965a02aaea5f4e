CONSTANTS
  Streams <- MonoFile
  ScanLimit = 3
  Reads <- MCReads
  Seeks <- MCSeeks
  TailRooms <- MCTailRooms
  Chunk = 2

SPECIFICATION Spec

INVARIANT TailRestored
