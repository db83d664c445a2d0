------------------------- MODULE MCTransactionManager -------------------------
(* Model-checking instance of TransactionManager and the RWLock under it: *)
(* three threads as model values.                                         *)
EXTENDS TransactionManager

CONSTANTS t1, t2, t3

MCThreads == {t1, t2, t3}
=============================================================================
