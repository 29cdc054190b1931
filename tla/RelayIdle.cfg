\* A UDP flow dialed directly: only idleness runs into the deadlines.
SPECIFICATION Spec
CONSTANTS
  Timeout = 3
  MaxChunks = 2
  Pieces = 1
  HalfClosing <- NoSides
  Snapshotting <- NoSides
  SlowPeers <- NoSides
PROPERTIES OnlyIdleEnds
CHECK_DEADLOCK FALSE
