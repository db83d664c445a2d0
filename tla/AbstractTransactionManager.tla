---------------------- MODULE AbstractTransactionManager ----------------------
(***************************************************************************)
(* What TransactionManager promises its callers, as its header            *)
(* src/concurrency/transaction.hpp states it: transactions under a        *)
(* "single-writer/multiple-reader model".  Each thread holds no           *)
(* transaction, an active read-only one, or an active read-write one; a   *)
(* read transaction begins only while no write transaction is active, a  *)
(* write transaction only while no transaction at all is active, and      *)
(* commit or abort ends the caller's transaction.  How the lock is taken, *)
(* who waits and who is woken is left out: the detailed specification     *)
(* TransactionManager implements this one under the mapping of its       *)
(* ACTIVE handles (TransactionManager!TxnHolder).                          *)
(***************************************************************************)
CONSTANTS Threads

VARIABLES holder   \* holder[t]: the kind of active transaction t holds

Modes == {"none", "read", "write"}

Init == holder = [t \in Threads |-> "none"]

\* begin_read(): a read-only transaction, while no writer is active.
BeginRead(t) ==
  /\ holder[t] = "none"
  /\ \A u \in Threads : holder[u] # "write"
  /\ holder' = [holder EXCEPT ![t] = "read"]

\* begin_write(), or try_begin_write() that returns a transaction: a
\* read-write transaction, while no transaction is active.
BeginWrite(t) ==
  /\ holder[t] = "none"
  /\ \A u \in Threads : holder[u] = "none"
  /\ holder' = [holder EXCEPT ![t] = "write"]

\* commit(txn) or abort(txn): the transaction ends.
Finish(t) ==
  /\ holder[t] # "none"
  /\ holder' = [holder EXCEPT ![t] = "none"]

Next == \E t \in Threads : BeginRead(t) \/ BeginWrite(t) \/ Finish(t)

Spec == Init /\ [][Next]_holder
=============================================================================
