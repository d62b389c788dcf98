SPECIFICATION FairSpec
CONSTANTS
  m1 = m1
  m2 = m2
  m3 = m3
  j1 = j1
  j2 = j2
  d1 = d1
  Messages = {m1, m2, m3}
  JobOf <- RetriedJob
  DocOf <- OneDoc
  Attempt <- LaterAttempts
  Workers = {w1, w2}
  Users = {}
  MaxAttempts = 2
  MaxReceive = 2
  BatchSize = 1
  Duplicates = FALSE
  Patches = {}
  None = None
PROPERTY MessageSettles
CHECK_DEADLOCK FALSE
