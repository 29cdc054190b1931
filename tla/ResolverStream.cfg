\* A client that pauses before its query, and a slow upstream.
SPECIFICATION Spec
CONSTANTS
  q1 = q1
  q2 = q2
  c1 = c1
  Queries <- NoGoroutines
  Streams <- OneStream
  N = 2
  RoundTrip = 2
  StreamIdle = 4
INVARIANT StreamStaysOpen
