SPECIFICATION MCSpec
CONSTANTS
  p1 = p1
  p2 = p2
  Puts = {p1, p2}
  Asked <- Raise
  Fields = {"cases_limit", "notes"}
  QuotaField = "cases_limit"
  InitialLimit = 1
  Calls = {c1, c2}
  Cases = {a1, a2, a3}
  Keys = {k1}
  None = None
SYMMETRY Symmetry
INVARIANT NoLostUpdate
INVARIANT CodesDense
INVARIANT OncePerKey
INVARIANT OverrunBounded
PROPERTY NoCaseForInactive
