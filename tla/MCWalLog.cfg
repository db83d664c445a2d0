\* Four LSNs and up to two torn appends: room for a torn tail, a restart,
\* appends behind it, and a second tear after those.
CONSTANTS
  MaxLsn = 4
  MaxTears = 2
  MaxEntries = 5
SPECIFICATION Spec
INVARIANTS
  TypeOK
  ReadableLsnsIncrease
