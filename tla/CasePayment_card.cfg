SPECIFICATION Spec
CONSTANTS
  CardCalls = {a1, a2, a3}
  Charges = {p1}
  Hooks = {h1}
  Selections = {s1, s2}
  PixKeys = {k1}
  CardResults = {"simulated", "pending"}
  PixOutcomes = {"PAID", "REFUNDED"}
  EventIds = {1}
  Exact = {TRUE, FALSE}
  None = None
  SlowProvider = FALSE
  LatePayment = FALSE
  MockMode = FALSE
  MaxCrashes = 2
SYMMETRY Symmetry
INVARIANT ExclusiveReservation
INVARIANT ChargedCallSettles
INVARIANT ReplayMatchesPlan
PROPERTY SettledIsFinal
CHECK_DEADLOCK FALSE
