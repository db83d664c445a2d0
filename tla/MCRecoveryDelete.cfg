\* One page of two rows in a pool of one page; five LSNs, so that a
\* behaviour holds an insert, an update, a checkpoint and a restart.
CONSTANTS
  v1 = v1
  v2 = v2
  NoPage = NoPage
  DEL = DEL
  Vals <- MCVals
  PageIds <- MCPageIds
  MaxPages = 1
  MaxSlots = 2
  MaxLsn = 5
  MaxEntries = 5
  Ops <- MCAllOps
  ClientPages <- MCOnePage
SPECIFICATION Spec
PROPERTY RecoveryLsnMonotone
