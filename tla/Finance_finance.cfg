SPECIFICATION Spec
CONSTANTS
  Ids = {1, 2}
  Offers <- OneOffer
  Legacy <- OldRows
  Taxes <- SomeTaxes
  Notes <- SomeNotes
  Costs <- SomeCosts
  Clock <- ClockOfJanuary
  MonthStarts <- Months
  YearStarts <- Years
  Reads = {"month"}
  Term = 1
  PageSize = 1
  MaxRows = 2
  None = None
INVARIANT TabsReconcile
INVARIANT TermIsKept
INVARIANT NoSaleSkipped
INVARIANT SectionsAgree
PROPERTY MonthHandsOver
CHECK_DEADLOCK FALSE
