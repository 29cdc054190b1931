\* Two flows of one source, and two associations to lose and rebuild.
SPECIFICATION Spec
CONSTANTS
  Sources = {s1}
  Dests = {d1, d2}
  Handlers = {h1, h2}
  Slots = {t1, t2}
  QueueCap = 1
  None = None
SYMMETRY Symmetry
INVARIANTS TypeOK OneAssociationPerSource NoFlowCutOff NoMisdelivery NoIdleAssociation NoConnectionLeak
PROPERTY NATSpec
