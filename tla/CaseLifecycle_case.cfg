SPECIFICATION Spec
CONSTANTS
  Txs = {t1, t2}
  Modules = {m1, m2}
  Results = {r1}
  Parties = {q1}
  Hard = TRUE
  Production = TRUE
  Provenance = {TRUE, FALSE}
  CardResults = {"simulated", "paid", "failed"}
  None = None
  MaxVersion = 2
  MaxEdits = 2
SYMMETRY Symmetry
INVARIANT WorkIsPaid
INVARIANT RiskHonest
INVARIANT RecommendationSynced
INVARIANT ApprovedIsReal
PROPERTY FinalizedFrozen
