-------------------------- MODULE TransactionManager --------------------------
(***************************************************************************)
(* The single-writer / multi-reader transaction manager of                 *)
(* src/concurrency/transaction.hpp and its implementation transaction.cpp  *)
(* (src/unnamed/part_009): TransactionManager wraps one RWLock, begin_read *)
(* and begin_write block on it, try_begin_write does not, and commit/abort *)
(* flip the Transaction's state and release the lock chosen by its         *)
(* read_only flag.  The clients use the RAII TransactionGuard, whose        *)
(* destructor aborts a transaction that is still ACTIVE.                   *)
(*                                                                         *)
(* The lock is the RWLock module; the per-thread transaction handle is the *)
(* variable txn.  next_id_ and active_count_ are statistics that no        *)
(* control decision reads, and are left out.                               *)
(*                                                                         *)
(* TransactionManager::commit and ::abort do not look at the state of the  *)
(* transaction they are given; a second guard.commit() or guard.abort()   *)
(* would release the lock again.  The clients modelled here end each       *)
(* transaction once, as the guard's destructor does.                       *)
(***************************************************************************)
EXTENDS RWLock

CONSTANTS NoTxn   \* the thread holds no transaction handle

VARIABLES txn   \* txn[t]: the Transaction object thread t holds, if any

tmVars == <<readers, writer, waiting_writers, pc, txn>>

TxnStates == {"ACTIVE", "COMMITTED", "ABORTED"}
Txn == [read_only : BOOLEAN, state : TxnStates]

\* A null std::unique_ptr<Transaction> is no Transaction.
ASSUME NoTxnAssumption == NoTxn \notin Txn

\* Transaction(id, read_only): a new transaction starts ACTIVE.
NewTxn(ro) == [read_only |-> ro, state |-> "ACTIVE"]

\* Mutant: the handle is made before the lock is acquired.
CreatedBeforeLock(t, ro) == txn' = [txn EXCEPT ![t] = NewTxn(ro)]

\* The handle is created after the lock is acquired (make_unique follows
\* lock_read / lock_write); while the thread waits, nothing is created.
Created(t, ro) ==
  txn' = IF pc'[t] \in {"reading", "writing"}
         THEN [txn EXCEPT ![t] = NewTxn(ro)]
         ELSE txn

-----------------------------------------------------------------------------
begin_read(t)  == pc[t] = "idle" /\ lock_read(t)  /\ Created(t, TRUE)
begin_write(t) == pc[t] = "idle" /\ lock_write(t) /\ Created(t, FALSE)

\* The blocked begin_read / begin_write resume after a wake-up.
BeginReadWake(t)  == ReadWake(t)  /\ Created(t, TRUE)
BeginWriteWake(t) == WriteWake(t) /\ Created(t, FALSE)
BeginSpurious(t)  == SpuriousWake(t) /\ UNCHANGED txn

\* try_begin_write: nullptr when try_lock_write fails (no state change).
try_begin_write(t) ==
  /\ try_lock_write(t)
  /\ txn' = [txn EXCEPT ![t] = NewTxn(FALSE)]

\* Mutant: the lock released is the wrong one for read_only.
end_transactionSwapped(t) ==
  IF txn[t].read_only THEN unlock_write(t) ELSE unlock_read(t)

\* end_transaction: release the lock chosen by read_only.
end_transaction(t) ==
  IF txn[t].read_only THEN unlock_read(t) ELSE unlock_write(t)

\* Mutant: the guard releases the lock without txn.commit()/abort().
EndTxnKeepsState(t) ==
  /\ pc[t] \in {"reading", "writing"}
  /\ txn[t] # NoTxn
  /\ txn[t].state = "ACTIVE"
  /\ UNCHANGED txn
  /\ end_transaction(t)

(* commit / abort through the guard: txn.commit() or txn.abort() sets the  *)
(* state, then end_transaction.  The guard's destructor on an ACTIVE        *)
(* transaction is the same abort.                                           *)
EndTxn(t) ==
  /\ pc[t] \in {"reading", "writing"}
  /\ txn[t] # NoTxn
  /\ txn[t].state = "ACTIVE"
  /\ \E outcome \in {"COMMITTED", "ABORTED"} :
       txn' = [txn EXCEPT ![t].state = outcome]
  /\ end_transaction(t)

-----------------------------------------------------------------------------
TMInit == Init /\ txn = [t \in Threads |-> NoTxn]

TMNext ==
  \E t \in Threads :
    \/ begin_read(t) \/ BeginReadWake(t)
    \/ begin_write(t) \/ BeginWriteWake(t)
    \/ BeginSpurious(t)
    \/ try_begin_write(t)
    \/ EndTxn(t)

(* Every transaction is eventually committed or aborted: the guard's      *)
(* destructor guarantees it on every exit path of the handler.  Woken      *)
(* threads eventually re-test their predicate.                             *)
TMFairness ==
  \A t \in Threads :
    /\ WF_tmVars(EndTxn(t))
    /\ WF_tmVars(BeginReadWake(t)) /\ WF_tmVars(BeginWriteWake(t))

TMSpec == TMInit /\ [][TMNext]_tmVars /\ TMFairness

-----------------------------------------------------------------------------
(* The lock's counters stay natural numbers and every handle is a         *)
(* Transaction or absent.                                                  *)
TMTypeOK ==
  /\ TypeOK
  /\ txn \in [Threads -> Txn \cup {NoTxn}]

(* At most one write transaction is active, and never together with an    *)
(* active read transaction (spec 8.10 and section 4.12).                    *)
ActiveWriters == {t \in Threads : txn[t] # NoTxn /\ txn[t].state = "ACTIVE"
                                  /\ ~txn[t].read_only}
ActiveReaders == {t \in Threads : txn[t] # NoTxn /\ txn[t].state = "ACTIVE"
                                  /\ txn[t].read_only}

SingleWriter ==
  /\ \A t, u \in ActiveWriters : t = u
  /\ ActiveWriters # {} => ActiveReaders = {}

(* The lock's counters agree with the transactions handed out: readers_   *)
(* is the number of ACTIVE read-only transactions and writer_ is set       *)
(* exactly when a write transaction is ACTIVE.  It ties begin_* (lock then *)
(* create) to end_transaction (release chosen by read_only).               *)
LockMatchesTransactions ==
  /\ readers = Cardinality(ActiveReaders)
  /\ writer = (ActiveWriters # {})

-----------------------------------------------------------------------------
(* The kind of active transaction each thread holds: the refinement        *)
(* mapping to the promise of transaction.hpp.  A committed or aborted      *)
(* handle, or none, is no active transaction.                              *)
TxnHolder ==
  [t \in Threads |->
     IF txn[t] # NoTxn /\ txn[t].state = "ACTIVE"
     THEN IF txn[t].read_only THEN "read" ELSE "write"
     ELSE "none"]

Abstract == INSTANCE AbstractTransactionManager WITH holder <- TxnHolder

(* TransactionManager implements its header's single-writer/multi-reader  *)
(* model: every step of begin_read, begin_write, try_begin_write and the   *)
(* guard's commit/abort either begins a transaction the abstract model     *)
(* allows, ends one, or leaves the active transactions as they are.        *)
ImplementsAbstract == Abstract!Spec

=============================================================================
