SPECIFICATION Spec
CONSTANTS
  t1 = t1
  t2 = t2
  m1 = m1
  m2 = m2
  h1 = h1
  h2 = h2
  Tasks = {t1, t2}
  Messages = {m1, m2}
  Handlers = {h1, h2}
  Record <- Records
  Key <- CheckpointKey
  NoKey = "none"
  MaxFaults = 2
  MaxRequests = 3
SYMMETRY Symmetry
CONSTRAINT OneKnown
CHECK_DEADLOCK FALSE
INVARIANTS JournalSound AnswersStand CheckpointSound
PROPERTY ImplementsStableLog
