CONSTANTS
  s1 = s1
  s2 = s2
  v1 = v1
  v2 = v2
  NoPage = NoPage
  DEL = DEL
  None = None
  PageIds <- MCPageIds
  Vals <- MCVals
  Scans <- MCScans
  MaxPages = 2
  MaxSlots = 2
SPECIFICATION Spec
INVARIANT NoDanglingPage
