SPECIFICATION Spec
CONSTANTS
  m1 = m1
  m2 = m2
  m3 = m3
  j1 = j1
  j2 = j2
  d1 = d1
  Messages = {m1, m2}
  JobOf <- TwoJobs
  DocOf <- OneDoc
  Attempt <- FirstAttempts
  Workers = {w1, w2}
  Users = {u1}
  MaxAttempts = 2
  MaxReceive = 2
  BatchSize = 2
  Duplicates = TRUE
  Patches = {"processed"}
  None = None
SYMMETRY Symmetry
INVARIANT AckedIsSettled
INVARIANT OneGeneration
INVARIANT ReportsAreTrue
PROPERTY OutcomeIsFinal
PROPERTY IngestedOnce
