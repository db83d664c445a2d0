CONSTANTS
  MaxLsn = 4
  MaxTears = 1
  MaxEntries = 5
SPECIFICATION Spec
INVARIANT AckedReadable
