\* Two flows of one source that share one association at a time.
SPECIFICATION FairSpec
CONSTANTS
  Sources = {s1}
  Dests = {d1, d2}
  Handlers = {h1, h2}
  Slots = {t1}
  QueueCap = 1
  None = None
PROPERTIES DialEnds HangUpEndsFlows
