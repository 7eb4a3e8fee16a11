SPECIFICATION Spec
CONSTANTS
  t1 = t1
  t2 = t2
  m1 = m1
  m2 = m2
  h1 = h1
  h2 = h2
  Tasks = {t1, t2}
  Messages = {m1}
  Handlers = {h1}
  Record <- Records
  Key <- CheckpointKey
  NoKey = "none"
  MaxFaults = 1
  MaxRequests = 3
SYMMETRY Symmetry
CHECK_DEADLOCK FALSE
INVARIANT JournalReplays
