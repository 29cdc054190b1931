\* A UDP query and a TCP connection at the same time.
SPECIFICATION FairSpec
CONSTANTS
  q1 = q1
  q2 = q2
  c1 = c1
  Queries <- OneQuery
  Streams <- OneStream
  N = 2
  RoundTrip = 1
  StreamIdle = 2
INVARIANTS TypeOK AllAsked 
PROPERTY DeadIsAbandoned
