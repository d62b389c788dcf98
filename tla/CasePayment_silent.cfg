SPECIFICATION Spec
CONSTANTS
  CardCalls = {a1}
  Charges = {p1}
  Hooks = {h1}
  Selections = {s1, s2}
  PixKeys = {k1}
  CardResults = {"simulated"}
  PixOutcomes = {"PAID", "EXPIRED"}
  EventIds = {1}
  Exact = {TRUE}
  None = None
  SlowProvider = FALSE
  LatePayment = TRUE
  MockMode = FALSE
  MaxCrashes = 0
SYMMETRY Symmetry
INVARIANT PaidNeverSilent
CHECK_DEADLOCK FALSE
