CONSTANTS
  s1 = s1
  v1 = v1
  v2 = v2
  NoPage = NoPage
  DEL = DEL
  None = None
  PageIds <- MCPageIds
  Vals <- MCVals
  Scans <- MCScans
  Plans <- MCPlans
  MaxPages = 2
  MaxSlots = 2
  MaxRows = 3
  MaxInstr = 60
SPECIFICATION ExSpec
INVARIANT RowBudgetEnforced
