SPECIFICATION Spec
CONSTANTS
  CardCalls = {a1, a2, a3}
  Charges = {p1}
  Hooks = {h1}
  Selections = {s1}
  PixKeys = {k1}
  CardResults = {"simulated", "pending"}
  PixOutcomes = {"PAID"}
  EventIds = {1}
  Exact = {TRUE}
  None = None
  SlowProvider = TRUE
  LatePayment = FALSE
  MockMode = TRUE
  MaxCrashes = 1
SYMMETRY Symmetry
PROPERTY OnlyHolderEndsReservation
PROPERTY LedgerSpec
CHECK_DEADLOCK FALSE
