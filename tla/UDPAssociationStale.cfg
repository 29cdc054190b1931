SPECIFICATION Spec
CONSTANTS
  Sources = {s1}
  Dests = {d1}
  Handlers = {h1}
  Slots = {t1}
  QueueCap = 1
  None = None
INVARIANT ClosedIsForgotten
