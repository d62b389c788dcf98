SPECIFICATION Spec
CONSTANTS
  Puts = {p1}
  Fields = {"module_overrides", "installment_config"}
  Baskets <- MCBaskets
  Settings <- MCSettings
  Days <- MCDays
  MonthDays <- Calendar
  Basis = 10
  Infra = Infra
  Unset = Unset
  None = None
INVARIANT AlwaysPayable
INVARIANT ScheduleCloses
INVARIANT DueDatesMonthly
PROPERTY ShownIsCharged
CHECK_DEADLOCK FALSE
