SPECIFICATION FairSpec
CONSTANTS
  CardCalls = {}
  Charges = {p1, p2}
  Hooks = {h1, h2}
  Selections = {s1}
  PixKeys = {k1}
  CardResults = {"simulated"}
  PixOutcomes = {"PAID", "EXPIRED"}
  EventIds = {1}
  Exact = {TRUE}
  None = None
  SlowProvider = FALSE
  LatePayment = TRUE
  MockMode = FALSE
  MaxCrashes = 2
INVARIANT AppliedPaidAccounted
INVARIANT PostPaymentOnlyForSettler
INVARIANT OneActiveCharge
PROPERTY ChargeMovesValid
PROPERTY PaidIsApplied
CHECK_DEADLOCK FALSE
