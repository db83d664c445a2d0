CONSTANTS
  t1 = t1
  t2 = t2
  t3 = t3
  NoTxn = NoTxn
  Threads <- MCThreads
SPECIFICATION TMSpec
INVARIANTS
  TMTypeOK
  SingleWriter
  LockMatchesTransactions
  Exclusion
PROPERTIES
  ImplementsAbstract
  NoReaderOvertakesWriter
  WriterProgress
  ReaderProgress
