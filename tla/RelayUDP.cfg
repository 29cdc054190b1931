\* A UDP flow: udpFlow.Read keeps the deadline it started with.
SPECIFICATION Spec
CONSTANTS
  Timeout = 3
  MaxChunks = 2
  Pieces = 1
  HalfClosing <- NoSides
  Snapshotting <- RemoteOnly
  SlowPeers <- NoSides
PROPERTIES OnlyIdleEnds
CHECK_DEADLOCK FALSE
