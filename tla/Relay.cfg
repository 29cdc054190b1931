\* Streams: both sides half-close, peers are slow, a chunk takes two pieces.
SPECIFICATION FairSpec
CONSTANTS
  Timeout = 2
  MaxChunks = 1
  Pieces = 2
  HalfClosing <- Sides
  Snapshotting <- NoSides
  SlowPeers <- Sides
INVARIANTS TypeOK CleanEOF HalfCloseLasts IdleEnds
PROPERTIES GoroutinesEnd
CHECK_DEADLOCK FALSE
