----------------------- MODULE TransactionManagerProofs -----------------------
(***************************************************************************)
(* Proofs, for every finite set of threads, that the TransactionManager   *)
(* of src/concurrency/transaction.hpp never has two ACTIVE write           *)
(* transactions, or one together with an ACTIVE read transaction           *)
(* (SingleWriter), and that the lock's counters agree with the ACTIVE      *)
(* transactions (LockMatchesTransactions), when every transaction is ended *)
(* once (TMSpec).                                                          *)
(*                                                                         *)
(* The argument: the ACTIVE read-only transactions are exactly the threads *)
(* holding the read lock, and the ACTIVE write transactions exactly the   *)
(* threads holding the write lock (TxnMatch), because begin_* creates the  *)
(* transaction in the step that acquires the lock and end_transaction      *)
(* releases the lock its read_only flag names in the step that ends it.    *)
(* SingleWriter is then the RWLock's Exclusion and LockMatchesTransactions *)
(* its Counts, both proved inductive in RWLockProofs.                      *)
(***************************************************************************)
EXTENDS TransactionManager, RWLockProofs

TxnMatch == ActiveReaders = Reading /\ ActiveWriters = Writing

TMIInv == IInv /\ TMTypeOK /\ TxnMatch

-----------------------------------------------------------------------------
(* The three ways a step changes the transaction handles.                  *)

\* A thread that held no lock acquires one and gets a new ACTIVE handle.
LEMMA TxnMatchAcquire ==
  ASSUME TMIInv, NEW t \in Threads, NEW ro \in BOOLEAN,
         t \notin Reading \cup Writing,
         txn' = [txn EXCEPT ![t] = NewTxn(ro)],
         Reading' = IF ro THEN Reading \cup {t} ELSE Reading,
         Writing' = IF ro THEN Writing ELSE Writing \cup {t}
  PROVE  TxnMatch' /\ (txn \in [Threads -> Txn \cup {NoTxn}])'
<1>1. t \notin ActiveReaders \cup ActiveWriters
  BY DEF TMIInv, TxnMatch
<1>2. txn' \in [Threads -> Txn \cup {NoTxn}]
  BY DEF TMIInv, TMTypeOK, NewTxn, Txn, TxnStates
<1>3. ActiveReaders' = IF ro THEN ActiveReaders \cup {t} ELSE ActiveReaders
  BY <1>1, NoTxnAssumption DEF TMIInv, TMTypeOK, ActiveReaders, NewTxn, Txn,
                              TxnStates
<1>4. ActiveWriters' = IF ro THEN ActiveWriters ELSE ActiveWriters \cup {t}
  BY <1>1, NoTxnAssumption DEF TMIInv, TMTypeOK, ActiveWriters, NewTxn, Txn,
                              TxnStates
<1>. QED
  BY <1>2, <1>3, <1>4 DEF TMIInv, TxnMatch

\* Neither the handles nor the lock holders change.
LEMMA TxnMatchSame ==
  ASSUME TMIInv, UNCHANGED txn, Reading' = Reading, Writing' = Writing
  PROVE  TxnMatch' /\ (txn \in [Threads -> Txn \cup {NoTxn}])'
BY DEF TMIInv, TMTypeOK, TxnMatch, ActiveReaders, ActiveWriters

\* A holder ends its transaction and leaves the holders.
LEMMA TxnMatchEnd ==
  ASSUME TMIInv, NEW t \in Reading \cup Writing,
         NEW outcome \in {"COMMITTED", "ABORTED"},
         txn' = [txn EXCEPT ![t].state = outcome],
         Reading' = Reading \ {t}, Writing' = Writing \ {t}
  PROVE  TxnMatch' /\ (txn \in [Threads -> Txn \cup {NoTxn}])'
<1>1. t \in ActiveReaders \cup ActiveWriters
  BY DEF TMIInv, TxnMatch
<1>2. txn[t] \in Txn /\ txn[t].state = "ACTIVE"
  BY <1>1 DEF TMIInv, TMTypeOK, ActiveReaders, ActiveWriters, Reading
<1>. QED
  BY <1>2 DEF TMIInv, TMTypeOK, TxnMatch, ActiveReaders, ActiveWriters, Txn,
              TxnStates

(* unlock_read and unlock_write, notifications included, take the caller   *)
(* out of the lock holders and change no other holder.                     *)
LEMMA UnlockSets ==
  ASSUME TypeOK, NEW t \in Threads, unlock_read(t) \/ unlock_write(t)
  PROVE  Reading' = Reading \ {t} /\ Writing' = Writing \ {t}
<1>1. CASE NotifyOneWriter(t) \/ NotifyAllReaders(t)
  BY <1>1, NotifySets DEF TypeOK
<1>2. CASE pc' = [pc EXCEPT ![t] = "idle"]
  BY <1>2, MoveOne DEF TypeOK, PcStates
<1>. QED
  BY <1>1, <1>2 DEF unlock_read, unlock_write

-----------------------------------------------------------------------------
(* begin_read, and its resumption after a wake-up: the read lock and a new *)
(* read-only handle in one step, or a wait with the handle left as it was. *)
LEMMA BeginReadStep ==
  ASSUME TMIInv, NEW t \in Threads, pc[t] \in {"idle", "r_woken"},
         ReadAwait(t), UNCHANGED <<writer, waiting_writers>>, Created(t, TRUE)
  PROVE  TMIInv'
<1>1. IInv'
  BY ReadAwaitIInv DEF TMIInv
<1>2. t \notin Reading \cup Writing
  BY DEF Reading, Writing
<1>3. TxnMatch' /\ (txn \in [Threads -> Txn \cup {NoTxn}])'
  <2>1. CASE pc' = [pc EXCEPT ![t] = "reading"]
    <3>1. txn' = [txn EXCEPT ![t] = NewTxn(TRUE)]
      BY <2>1 DEF Created, TMIInv, IInv, TypeOK
    <3>2. Reading' = Reading \cup {t} /\ Writing' = Writing
      BY <1>2, <2>1 DEF TMIInv, IInv, TypeOK, Reading, Writing
    <3>. QED
      BY <1>2, <3>1, <3>2, TxnMatchAcquire
  <2>2. CASE pc' = [pc EXCEPT ![t] = "r_wait"]
    <3>1. UNCHANGED txn
      BY <2>2 DEF Created, TMIInv, IInv, TypeOK
    <3>2. Reading' = Reading /\ Writing' = Writing
      BY <1>2, <2>2 DEF TMIInv, IInv, TypeOK, Reading, Writing
    <3>. QED
      BY <3>1, <3>2, TxnMatchSame
  <2>. QED
    BY <2>1, <2>2 DEF ReadAwait
<1>. QED
  BY <1>1, <1>3 DEF TMIInv, TMTypeOK, IInv

(* begin_write: the write lock and a new read-write handle in one step, or *)
(* a wait.                                                                  *)
LEMMA BeginWriteStep ==
  ASSUME TMIInv, NEW t \in Threads, begin_write(t)
  PROVE  TMIInv'
<1>1. IInv'
  BY LockWriteIInv DEF begin_write, TMIInv
<1>2. t \notin Reading \cup Writing
  BY DEF begin_write, Reading, Writing
<1>3. TxnMatch' /\ (txn \in [Threads -> Txn \cup {NoTxn}])'
  <2>1. CASE pc' = [pc EXCEPT ![t] = "writing"]
    <3>1. txn' = [txn EXCEPT ![t] = NewTxn(FALSE)]
      BY <2>1 DEF begin_write, Created, TMIInv, IInv, TypeOK
    <3>2. Reading' = Reading /\ Writing' = Writing \cup {t}
      BY <1>2, <2>1 DEF TMIInv, IInv, TypeOK, Reading, Writing
    <3>. QED
      BY <1>2, <3>1, <3>2, TxnMatchAcquire
  <2>2. CASE pc' = [pc EXCEPT ![t] = "w_wait"]
    <3>1. UNCHANGED txn
      BY <2>2 DEF begin_write, Created, TMIInv, IInv, TypeOK
    <3>2. Reading' = Reading /\ Writing' = Writing
      BY <1>2, <2>2 DEF TMIInv, IInv, TypeOK, Reading, Writing
    <3>. QED
      BY <3>1, <3>2, TxnMatchSame
  <2>. QED
    BY <2>1, <2>2 DEF begin_write, lock_write
<1>. QED
  BY <1>1, <1>3 DEF TMIInv, TMTypeOK, IInv

\* A woken begin_write re-tests: the write lock and a handle, or a wait.
LEMMA BeginWriteWakeStep ==
  ASSUME TMIInv, NEW t \in Threads, BeginWriteWake(t)
  PROVE  TMIInv'
<1>1. IInv'
  BY WriteWakeIInv DEF BeginWriteWake, TMIInv
<1>2. t \notin Reading \cup Writing
  BY DEF BeginWriteWake, WriteWake, Reading, Writing
<1>3. TxnMatch' /\ (txn \in [Threads -> Txn \cup {NoTxn}])'
  <2>1. CASE pc' = [pc EXCEPT ![t] = "writing"]
    <3>1. txn' = [txn EXCEPT ![t] = NewTxn(FALSE)]
      BY <2>1 DEF BeginWriteWake, Created, TMIInv, IInv, TypeOK
    <3>2. Reading' = Reading /\ Writing' = Writing \cup {t}
      BY <1>2, <2>1 DEF TMIInv, IInv, TypeOK, Reading, Writing
    <3>. QED
      BY <1>2, <3>1, <3>2, TxnMatchAcquire
  <2>2. CASE pc' = [pc EXCEPT ![t] = "w_wait"]
    <3>1. UNCHANGED txn
      BY <2>2 DEF BeginWriteWake, Created, TMIInv, IInv, TypeOK
    <3>2. Reading' = Reading /\ Writing' = Writing
      BY <1>2, <2>2 DEF TMIInv, IInv, TypeOK, Reading, Writing
    <3>. QED
      BY <3>1, <3>2, TxnMatchSame
  <2>. QED
    BY <2>1, <2>2 DEF BeginWriteWake, WriteWake
<1>. QED
  BY <1>1, <1>3 DEF TMIInv, TMTypeOK, IInv

\* A spurious wake-up changes no holder and no handle.
LEMMA BeginSpuriousStep ==
  ASSUME TMIInv, NEW t \in Threads, BeginSpurious(t)
  PROVE  TMIInv'
<1>1. IInv'
  BY SpuriousWakeIInv DEF BeginSpurious, TMIInv
<1>2. Reading' = Reading /\ Writing' = Writing
  BY DEF BeginSpurious, SpuriousWake, TMIInv, IInv, TypeOK, Reading, Writing
<1>3. TxnMatch' /\ (txn \in [Threads -> Txn \cup {NoTxn}])'
  BY <1>2, TxnMatchSame DEF BeginSpurious
<1>. QED
  BY <1>1, <1>3 DEF TMIInv, TMTypeOK, IInv

\* try_begin_write: the write lock and a read-write handle.
LEMMA TryBeginWriteStep ==
  ASSUME TMIInv, NEW t \in Threads, try_begin_write(t)
  PROVE  TMIInv'
<1>1. IInv'
  BY TryLockWriteIInv DEF try_begin_write, TMIInv
<1>2. t \notin Reading \cup Writing
  BY DEF try_begin_write, try_lock_write, Reading, Writing
<1>3. Reading' = Reading /\ Writing' = Writing \cup {t}
  BY <1>2 DEF try_begin_write, try_lock_write, TMIInv, IInv, TypeOK,
              Reading, Writing
<1>4. TxnMatch' /\ (txn \in [Threads -> Txn \cup {NoTxn}])'
  BY <1>2, <1>3, TxnMatchAcquire DEF try_begin_write
<1>. QED
  BY <1>1, <1>4 DEF TMIInv, TMTypeOK, IInv

(* commit or abort of an ACTIVE transaction: its read_only flag names the  *)
(* lock its thread holds, so end_transaction is that thread's unlock.       *)
LEMMA EndTxnStep ==
  ASSUME TMIInv, NEW t \in Threads, EndTxn(t)
  PROVE  TMIInv'
<1>1. t \in Reading \cup Writing
  BY DEF EndTxn, Reading, Writing
<1>2. txn[t].read_only => t \in Reading
  BY <1>1 DEF TMIInv, TxnMatch, ActiveWriters, Writing
<1>3. ~txn[t].read_only => t \in Writing
  BY <1>1 DEF TMIInv, TxnMatch, ActiveReaders, Reading
<1>4. IInv'
  <2>1. CASE txn[t].read_only
    BY <1>2, <2>1, UnlockReadIInv DEF EndTxn, end_transaction, UnlockRead,
                                      Reading, TMIInv
  <2>2. CASE ~txn[t].read_only
    BY <1>3, <2>2, UnlockWriteIInv DEF EndTxn, end_transaction, UnlockWrite,
                                       Writing, TMIInv
  <2>. QED
    BY <2>1, <2>2
<1>5. Reading' = Reading \ {t} /\ Writing' = Writing \ {t}
  BY UnlockSets DEF EndTxn, end_transaction, TMIInv, IInv
<1>6. TxnMatch' /\ (txn \in [Threads -> Txn \cup {NoTxn}])'
  BY <1>1, <1>5, TxnMatchEnd DEF EndTxn
<1>. QED
  BY <1>4, <1>6 DEF TMIInv, TMTypeOK, IInv

-----------------------------------------------------------------------------
\* Initially no thread holds a lock or a handle.
THEOREM TMInitIInv == TMInit => TMIInv
<1> SUFFICES ASSUME TMInit PROVE TMIInv
  OBVIOUS
<1>1. IInv
  BY InitIInv DEF TMInit
<1>2. ActiveReaders = {} /\ ActiveWriters = {} /\ Reading = {} /\ Writing = {}
  BY DEF TMInit, Init, ActiveReaders, ActiveWriters, Reading, Writing
<1>. QED
  BY <1>1, <1>2 DEF TMInit, TMIInv, TMTypeOK, IInv, TxnMatch

\* TMIInv is inductive for clients that end each transaction once.
THEOREM TMNextIInv == TMIInv /\ [TMNext]_tmVars => TMIInv'
<1> SUFFICES ASSUME TMIInv, [TMNext]_tmVars PROVE TMIInv'
  OBVIOUS
<1>1. CASE UNCHANGED tmVars
  <2>1. IInv'
    BY <1>1 DEF tmVars, TMIInv, IInv, TypeOK, Counts, Exclusion, Reading,
                Writing, WaitingToWrite
  <2>2. TxnMatch' /\ (txn \in [Threads -> Txn \cup {NoTxn}])'
    BY <1>1, TxnMatchSame DEF tmVars, Reading, Writing
  <2>. QED
    BY <2>1, <2>2 DEF TMIInv, TMTypeOK, IInv
<1>2. ASSUME NEW t \in Threads, begin_read(t) PROVE TMIInv'
  BY <1>2, BeginReadStep DEF begin_read, lock_read
<1>3. ASSUME NEW t \in Threads, BeginReadWake(t) PROVE TMIInv'
  BY <1>3, BeginReadStep DEF BeginReadWake, ReadWake
<1>4. ASSUME NEW t \in Threads, begin_write(t) PROVE TMIInv'
  BY <1>4, BeginWriteStep
<1>5. ASSUME NEW t \in Threads, BeginWriteWake(t) PROVE TMIInv'
  BY <1>5, BeginWriteWakeStep
<1>6. ASSUME NEW t \in Threads, BeginSpurious(t) PROVE TMIInv'
  BY <1>6, BeginSpuriousStep
<1>7. ASSUME NEW t \in Threads, try_begin_write(t) PROVE TMIInv'
  BY <1>7, TryBeginWriteStep
<1>8. ASSUME NEW t \in Threads, EndTxn(t) PROVE TMIInv'
  BY <1>8, EndTxnStep
<1>. QED
  BY <1>1, <1>2, <1>3, <1>4, <1>5, <1>6, <1>7, <1>8 DEF TMNext

(* No two write transactions are ACTIVE, and none together with an ACTIVE  *)
(* read transaction, for any number of threads, as long as each            *)
(* transaction is committed or aborted once (run tm checks it on three      *)
(* threads).                                                                *)
THEOREM SingleWriterHolds == TMSpec => []SingleWriter
<1>1. TMIInv => SingleWriter
  BY DEF TMIInv, TxnMatch, IInv, Exclusion, SingleWriter
<1>. QED
  BY <1>1, TMInitIInv, TMNextIInv, PTL DEF TMSpec

(* Type correctness: the lock's counters stay natural numbers, every      *)
(* thread's pc is one of its states and every handle txns_[t] is a        *)
(* transaction or null, for any number of threads.                          *)
THEOREM TMTypeCorrect == TMSpec => []TMTypeOK
<1>1. TMIInv => TMTypeOK
  BY DEF TMIInv
<1>. QED
  BY <1>1, TMInitIInv, TMNextIInv, PTL DEF TMSpec

(* readers_ is the number of ACTIVE read-only transactions and writer_ is  *)
(* set exactly while a write transaction is ACTIVE, for any number of      *)
(* threads: begin_* and end_transaction keep the lock and the handles in   *)
(* step.                                                                    *)
THEOREM LockMatchesTransactionsHolds == TMSpec => []LockMatchesTransactions
<1>1. TMIInv => LockMatchesTransactions
  BY DEF TMIInv, TxnMatch, IInv, Counts, LockMatchesTransactions
<1>. QED
  BY <1>1, TMInitIInv, TMNextIInv, PTL DEF TMSpec

-----------------------------------------------------------------------------
(* Refinement: TransactionManager implements AbstractTransactionManager   *)
(* under the mapping TxnHolder.  Under TMIInv the ACTIVE handles are the  *)
(* lock holders (TxnMatch), so the mapped state is a function of the two  *)
(* sets of holders; each step of TMNext changes them as one abstract      *)
(* begin, one abstract finish, or not at all.                              *)

\* The abstract state that the read and write holders R and W stand for.
HolderOf(R, W) ==
  [u \in Threads |-> IF u \in R THEN "read" ELSE IF u \in W THEN "write"
                                                ELSE "none"]

\* Under the invariant, the mapping is the holders' abstract state.
LEMMA TxnHolderIs ==
  ASSUME TMIInv
  PROVE  TxnHolder = HolderOf(Reading, Writing)
BY DEF TMIInv, TMTypeOK, TxnMatch, TxnHolder, HolderOf, ActiveReaders,
       ActiveWriters, Reading, Writing

\* The same in the next state.
LEMMA TxnHolderIsPrime ==
  ASSUME TMIInv'
  PROVE  TxnHolder' = HolderOf(Reading', Writing')
BY DEF TMIInv, TMTypeOK, TxnMatch, TxnHolder, HolderOf, ActiveReaders,
       ActiveWriters, Reading, Writing

\* A thread that holds nothing takes the read lock while nobody writes:
\* an abstract BeginRead.
LEMMA AbsBeginRead ==
  ASSUME TMIInv, TMIInv', NEW t \in Threads, t \notin Reading \cup Writing,
         Writing = {}, Reading' = Reading \cup {t}, Writing' = Writing
  PROVE  Abstract!BeginRead(t)
BY TxnHolderIs, TxnHolderIsPrime DEF Abstract!BeginRead, HolderOf

\* A thread takes the write lock while nobody holds the lock: an abstract
\* BeginWrite.
LEMMA AbsBeginWrite ==
  ASSUME TMIInv, TMIInv', NEW t \in Threads, Reading = {}, Writing = {},
         Reading' = Reading, Writing' = {t}
  PROVE  Abstract!BeginWrite(t)
BY TxnHolderIs, TxnHolderIsPrime DEF Abstract!BeginWrite, HolderOf

\* A holder releases its lock: an abstract Finish.
LEMMA AbsFinish ==
  ASSUME TMIInv, TMIInv', NEW t \in Reading \cup Writing,
         Reading' = Reading \ {t}, Writing' = Writing \ {t}
  PROVE  Abstract!Finish(t)
<1>1. t \in Threads /\ Reading \cap Writing = {}
  BY DEF Reading, Writing
<1>2. TxnHolder = HolderOf(Reading, Writing)
  BY TxnHolderIs
<1>3. TxnHolder' = HolderOf(Reading \ {t}, Writing \ {t})
  BY TxnHolderIsPrime
<1>4. HolderOf(Reading \ {t}, Writing \ {t})
        = [HolderOf(Reading, Writing) EXCEPT ![t] = "none"]
  <2>1. \A u \in Threads :
          HolderOf(Reading \ {t}, Writing \ {t})[u]
            = [HolderOf(Reading, Writing) EXCEPT ![t] = "none"][u]
    BY <1>1 DEF HolderOf
  <2>2. /\ DOMAIN HolderOf(Reading \ {t}, Writing \ {t}) = Threads
        /\ DOMAIN [HolderOf(Reading, Writing) EXCEPT ![t] = "none"] = Threads
    BY DEF HolderOf
  <2>3. \A R, W \in SUBSET Threads :
          HolderOf(R, W) \in [Threads -> {"none", "read", "write"}]
    BY DEF HolderOf
  <2>4. /\ HolderOf(Reading \ {t}, Writing \ {t})
             \in [Threads -> {"none", "read", "write"}]
        /\ [HolderOf(Reading, Writing) EXCEPT ![t] = "none"]
             \in [Threads -> {"none", "read", "write"}]
    <3>1. Reading \in SUBSET Threads /\ Writing \in SUBSET Threads
      BY DEF Reading, Writing
    <3>. QED
      BY <1>1, <2>3, <3>1
  <2>. QED
    BY <2>1, <2>4, Zenon
<1>5. HolderOf(Reading, Writing)[t] # "none"
  BY <1>1 DEF HolderOf
<1>. QED
  BY <1>2, <1>3, <1>4, <1>5 DEF Abstract!Finish

\* The holders do not change: the mapped state stutters.
LEMMA AbsStutter ==
  ASSUME TMIInv, TMIInv', Reading' = Reading, Writing' = Writing
  PROVE  UNCHANGED TxnHolder
BY TxnHolderIs, TxnHolderIsPrime


\* MoveOne under the transaction manager's invariant: one thread changes
\* state, and the sets of readers and writers change by that thread alone.
LEMMA TMMoveOne ==
  ASSUME TMIInv, NEW t \in Threads, NEW st \in PcStates,
         pc' = [pc EXCEPT ![t] = st]
  PROVE  /\ Reading' = IF st = "reading" THEN Reading \cup {t}
                                         ELSE Reading \ {t}
         /\ Writing' = IF st = "writing" THEN Writing \cup {t}
                                         ELSE Writing \ {t}
<1>1. pc \in [Threads -> PcStates]
  BY DEF TMIInv, IInv, TypeOK
<1>. QED
  BY <1>1, MoveOne, Zenon

\* writer_ is clear exactly when no thread holds the write lock.
LEMMA NoWriterNoWriting ==
  ASSUME TMIInv, ~writer
  PROVE  Writing = {}
<1>1. writer = (Writing # {})
  BY DEF TMIInv, IInv, Counts
<1>. QED
  BY <1>1, Zenon

\* A thread moved between two states that hold no lock: the holders stay.
LEMMA RefineNoHolderChange ==
  ASSUME TMIInv, TMIInv', NEW t \in Threads,
         NEW st \in {"idle", "r_wait", "r_woken", "w_wait", "w_woken"},
         pc[t] \in {"idle", "r_wait", "r_woken", "w_wait", "w_woken"},
         pc' = [pc EXCEPT ![t] = st]
  PROVE  UNCHANGED TxnHolder
<1>1. t \notin Reading \cup Writing
  BY DEF Reading, Writing
<1>2. st \in PcStates /\ st # "reading" /\ st # "writing"
  BY DEF PcStates
<1>3. Reading' = Reading \ {t} /\ Writing' = Writing \ {t}
  BY <1>2, TMMoveOne, Zenon
<1>4. Reading' = Reading /\ Writing' = Writing
  BY <1>1, <1>3
<1>. QED
  BY <1>4, AbsStutter

\* lock_read's predicate holds and the thread reads: no thread writes, as
\* writer_ is set exactly when one does.
LEMMA RefineReadAcquire ==
  ASSUME TMIInv, TMIInv', NEW t \in Threads, pc[t] \in {"idle", "r_woken"},
         ReadPred, pc' = [pc EXCEPT ![t] = "reading"]
  PROVE  Abstract!BeginRead(t)
<1>1. t \notin Reading \cup Writing
  BY DEF Reading, Writing
<1>2. Writing = {}
  BY NoWriterNoWriting DEF ReadPred
<1>3. Reading' = Reading \cup {t} /\ Writing' = Writing \ {t}
  <2>1. "reading" \in PcStates
    BY DEF PcStates
  <2>. QED
    BY <2>1, TMMoveOne, Zenon
<1>. QED
  BY <1>1, <1>2, <1>3, AbsBeginRead

\* lock_write's (and try_lock_write's) test holds and the thread writes:
\* readers_ = 0 means no thread reads, and writer_ clear that none writes.
LEMMA RefineWriteAcquire ==
  ASSUME TMIInv, TMIInv', NEW t \in Threads, pc[t] \in {"idle", "w_woken"},
         WritePred, pc' = [pc EXCEPT ![t] = "writing"]
  PROVE  Abstract!BeginWrite(t)
<1>1. Writing = {}
  BY NoWriterNoWriting DEF WritePred
<1>2. Reading = {}
  <2>1. Cardinality(Reading) = 0
    BY DEF WritePred, TMIInv, IInv, Counts
  <2>2. Reading \in SUBSET Threads
    BY DEF Reading
  <2>. QED
    BY <2>1, <2>2, CardZero
<1>3. Reading' = Reading \ {t} /\ Writing' = Writing \cup {t}
  <2>1. "writing" \in PcStates
    BY DEF PcStates
  <2>. QED
    BY <2>1, TMMoveOne, Zenon
<1>. QED
  BY <1>1, <1>2, <1>3, AbsBeginWrite

\* An abstract step of thread t is a step of the abstract model.
LEMMA AbsNext ==
  ASSUME NEW t \in Threads,
         Abstract!BeginRead(t) \/ Abstract!BeginWrite(t) \/ Abstract!Finish(t)
  PROVE  [Abstract!Next]_TxnHolder
BY Zenon DEF Abstract!Next

\* Every step of the transaction manager is a step of the abstract model
\* or leaves the active transactions as they are.
LEMMA TMStepRefines ==
  ASSUME TMIInv, TMIInv', [TMNext]_tmVars
  PROVE  [Abstract!Next]_TxnHolder
<1>1. CASE UNCHANGED tmVars
  <2>1. Reading' = Reading /\ Writing' = Writing
    BY <1>1 DEF tmVars, Reading, Writing
  <2>. QED
    BY <2>1, AbsStutter
<1>2. ASSUME NEW t \in Threads, pc[t] \in {"idle", "r_woken"}, ReadAwait(t)
      PROVE  [Abstract!Next]_TxnHolder
  <2>1. CASE ReadPred /\ pc' = [pc EXCEPT ![t] = "reading"]
    <3>1. Abstract!BeginRead(t)
      BY <1>2, <2>1, RefineReadAcquire, Zenon
    <3>. QED
      BY <3>1, AbsNext
  <2>2. CASE pc' = [pc EXCEPT ![t] = "r_wait"]
    <3>1. UNCHANGED TxnHolder
      BY <1>2, <2>2, RefineNoHolderChange, Zenon
    <3>. QED
      BY <3>1
  <2>. QED
    BY <1>2, <2>1, <2>2 DEF ReadAwait
<1>3. ASSUME NEW t \in Threads, pc[t] \in {"idle", "w_woken"},
             \/ WritePred /\ pc' = [pc EXCEPT ![t] = "writing"]
             \/ pc' = [pc EXCEPT ![t] = "w_wait"]
      PROVE  [Abstract!Next]_TxnHolder
  <2>1. CASE WritePred /\ pc' = [pc EXCEPT ![t] = "writing"]
    <3>1. Abstract!BeginWrite(t)
      BY <1>3, <2>1, RefineWriteAcquire, Zenon
    <3>. QED
      BY <3>1, AbsNext
  <2>2. CASE pc' = [pc EXCEPT ![t] = "w_wait"]
    <3>1. UNCHANGED TxnHolder
      BY <1>3, <2>2, RefineNoHolderChange, Zenon
    <3>. QED
      BY <3>1
  <2>. QED
    BY <1>3, <2>1, <2>2
<1>4. ASSUME NEW t \in Threads, BeginSpurious(t)
      PROVE  [Abstract!Next]_TxnHolder
  <2>1. CASE pc[t] = "r_wait" /\ pc' = [pc EXCEPT ![t] = "r_woken"]
    <3>1. UNCHANGED TxnHolder
      BY <2>1, RefineNoHolderChange, Zenon
    <3>. QED
      BY <3>1
  <2>2. CASE pc[t] = "w_wait" /\ pc' = [pc EXCEPT ![t] = "w_woken"]
    <3>1. UNCHANGED TxnHolder
      BY <2>2, RefineNoHolderChange, Zenon
    <3>. QED
      BY <3>1
  <2>. QED
    BY <1>4, <2>1, <2>2 DEF BeginSpurious, SpuriousWake
<1>5. ASSUME NEW t \in Threads, EndTxn(t)
      PROVE  [Abstract!Next]_TxnHolder
  <2>1. t \in Reading \cup Writing
    BY <1>5 DEF EndTxn, Reading, Writing
  <2>2. Reading' = Reading \ {t} /\ Writing' = Writing \ {t}
    BY <1>5, UnlockSets DEF EndTxn, end_transaction, TMIInv, IInv
  <2>3. Abstract!Finish(t)
    BY <2>1, <2>2, AbsFinish
  <2>. QED
    BY <2>3, AbsNext
<1>6. CASE TMNext
  <2>1. PICK t \in Threads :
          \/ begin_read(t) \/ BeginReadWake(t)
          \/ begin_write(t) \/ BeginWriteWake(t)
          \/ BeginSpurious(t)
          \/ try_begin_write(t)
          \/ EndTxn(t)
    BY <1>6 DEF TMNext
  <2>2. CASE begin_read(t) \/ BeginReadWake(t)
    <3>1. pc[t] \in {"idle", "r_woken"} /\ ReadAwait(t)
      BY <2>2, Zenon DEF begin_read, lock_read, BeginReadWake, ReadWake
    <3>. QED
      BY <3>1, <1>2, Zenon
  <2>3. CASE begin_write(t) \/ BeginWriteWake(t)
    <3>1. /\ pc[t] \in {"idle", "w_woken"}
          /\ \/ WritePred /\ pc' = [pc EXCEPT ![t] = "writing"]
             \/ pc' = [pc EXCEPT ![t] = "w_wait"]
      BY <2>3, Zenon DEF begin_write, lock_write, BeginWriteWake, WriteWake
    <3>. QED
      BY <3>1, <1>3, Zenon
  <2>4. CASE try_begin_write(t)
    <3>1. /\ pc[t] \in {"idle", "w_woken"}
          /\ WritePred /\ pc' = [pc EXCEPT ![t] = "writing"]
      BY <2>4 DEF try_begin_write, try_lock_write, WritePred
    <3>. QED
      BY <3>1, <1>3, Zenon
  <2>. QED
    BY <2>1, <2>2, <2>3, <2>4, <1>4, <1>5
<1>. QED
  BY <1>1, <1>6

\* TransactionManager implements the single-writer/multi-reader model its
\* header promises (ImplementsAbstract), for any finite set of threads,
\* when every transaction is ended once.
THEOREM TMImplementsAbstract == TMSpec => ImplementsAbstract
<1>1. TMInit => Abstract!Init
  BY DEF TMInit, TxnHolder, Abstract!Init
<1>2. TMIInv /\ TMIInv' /\ [TMNext]_tmVars => [Abstract!Next]_TxnHolder
  BY TMStepRefines
<1>. QED
  BY <1>1, <1>2, TMInitIInv, TMNextIInv, PTL
     DEF TMSpec, ImplementsAbstract, Abstract!Spec

-----------------------------------------------------------------------------
(* Writer preference.  A thread enters "reading" only through ReadAwait    *)
(* with ReadPred true (begin_read and its wake-ups; try_begin_write and    *)
(* the other steps never make a reader), and ReadPred says                 *)
(* waiting_writers_ = 0, which Counts turns into "no thread is inside      *)
(* lock_write".                                                             *)

\* A step that moves no thread into "reading" from elsewhere.
NoNewReader == \A u \in Threads : pc[u] # "reading" => pc'[u] # "reading"

\* The release notifications never move a thread into "reading".
LEMMA NotifyNoReader ==
  ASSUME NEW t \in Threads, pc \in [Threads -> PcStates],
         NotifyOneWriter(t) \/ NotifyAllReaders(t) \/ pc' = [pc EXCEPT ![t] = "idle"]
  PROVE  NoNewReader
BY DEF NotifyOneWriter, NotifyAllReaders, NoNewReader, WriteWaiters

\* A read acquisition happens only when no thread is inside lock_write.
LEMMA ReadAwaitNoWriter ==
  ASSUME TMIInv, NEW t \in Threads, ReadAwait(t), pc'[t] = "reading"
  PROVE  WaitingToWrite = {}
<1>1. pc \in [Threads -> PcStates]
  BY DEF TMIInv, TMTypeOK, TypeOK
<1>2. ReadPred
  BY <1>1 DEF ReadAwait
<1>3. Cardinality(WaitingToWrite) = 0
  BY <1>2 DEF ReadPred, TMIInv, IInv, Counts
<1>. QED
  BY <1>3, CardZero DEF WaitingToWrite

LEMMA TMNoOvertakeStep ==
  ASSUME TMIInv, [TMNext]_tmVars
  PROVE  \A u \in Threads :
           (pc[u] # "reading" /\ pc'[u] = "reading") => WaitingToWrite = {}
<1> SUFFICES ASSUME NEW u \in Threads, pc[u] # "reading", pc'[u] = "reading"
             PROVE  WaitingToWrite = {}
  OBVIOUS
<1>0. pc \in [Threads -> PcStates]
  BY DEF TMIInv, TMTypeOK, TypeOK
<1>1. CASE UNCHANGED tmVars
  BY <1>1 DEF tmVars
<1>2. ASSUME NEW t \in Threads, begin_read(t) \/ BeginReadWake(t)
      PROVE  WaitingToWrite = {}
  <2>1. ReadAwait(t)
    BY <1>2 DEF begin_read, lock_read, BeginReadWake, ReadWake
  <2>2. u = t
    BY <1>0, <2>1 DEF ReadAwait
  <2>. QED
    BY <2>1, <2>2, ReadAwaitNoWriter
<1>3. ASSUME NEW t \in Threads,
             begin_write(t) \/ BeginWriteWake(t) \/ BeginSpurious(t)
               \/ try_begin_write(t)
      PROVE  WaitingToWrite = {}
  <2>1. \E st \in PcStates \ {"reading"} : pc' = [pc EXCEPT ![t] = st]
    BY <1>3 DEF begin_write, lock_write, BeginWriteWake, WriteWake,
                BeginSpurious, SpuriousWake, try_begin_write, try_lock_write,
                PcStates
  <2>. QED
    BY <1>0, <2>1
<1>4. ASSUME NEW t \in Threads, EndTxn(t) PROVE WaitingToWrite = {}
  <2>1. NotifyOneWriter(t) \/ NotifyAllReaders(t) \/ pc' = [pc EXCEPT ![t] = "idle"]
    BY <1>4 DEF EndTxn, end_transaction, unlock_read, unlock_write
  <2>. QED
    BY <1>0, <2>1, NotifyNoReader DEF NoNewReader
<1>. QED
  BY <1>1, <1>2, <1>3, <1>4 DEF TMNext

(* Writer preference (spec 8.7), for any number of threads: no begin_read *)
(* acquires the read lock while some thread is inside lock_write, waiting  *)
(* or woken, because lock_read's predicate requires waiting_writers_ == 0  *)
(* and waiting_writers_ counts exactly those threads.                       *)
THEOREM NoReaderOvertakesWriterHolds == TMSpec => NoReaderOvertakesWriter
<1>1. TMIInv /\ [TMNext]_tmVars
        => [\A t \in Threads :
              (pc[t] # "reading" /\ pc'[t] = "reading") => WaitingToWrite = {}]_vars
  BY TMNoOvertakeStep
<1>. QED
  BY <1>1, TMInitIInv, TMNextIInv, PTL DEF TMSpec, NoReaderOvertakesWriter
=============================================================================
