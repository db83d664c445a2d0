\* A page has no operation that is always enabled: once it is full and every
\* slot is deleted, no insert, delete or update is accepted, and the page
\* legitimately stops changing.
CONSTANTS
  Word <- MCWord
  PageSize <- MCPageSize
  HeaderSize <- MCHeaderSize
  SlotSize <- MCSlotSize
  Lens <- MCLens
SPECIFICATION Spec
INVARIANTS
  RecordsInPage
  FreeSpaceIsGap
CHECK_DEADLOCK FALSE
