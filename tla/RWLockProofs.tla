---------------------------- MODULE RWLockProofs ----------------------------
(***************************************************************************)
(* Proofs, for every finite set of threads, that the RWLock of            *)
(* src/concurrency/rw_lock.cpp keeps its counters natural numbers (TypeOK) *)
(* and never lets a writer in together with another writer or a reader     *)
(* (Exclusion).                                                            *)
(*                                                                         *)
(* Neither holds by induction as it stands: unlock_read decrements         *)
(* readers_ without looking at it, and WriteWake decrements                *)
(* waiting_writers_, so TypeOK needs to know that a thread that releases   *)
(* or stops waiting was counted; and lock_write's test readers_ == 0 says  *)
(* nothing about who reads unless readers_ counts the readers.  The        *)
(* inductive invariant IInv therefore adds Counts: readers_ is the number  *)
(* of threads holding the read lock, waiting_writers_ the number of        *)
(* threads inside lock_write that have not acquired, and writer_ is set    *)
(* exactly when some thread holds the write lock.                          *)
(***************************************************************************)
EXTENDS RWLock, FiniteSetTheorems, TLAPS

Counts ==
  /\ readers = Cardinality(Reading)
  /\ waiting_writers = Cardinality(WaitingToWrite)
  /\ writer = (Writing # {})

IInv == TypeOK /\ Counts /\ Exclusion

-----------------------------------------------------------------------------
(* Cardinalities of sets of threads.                                       *)

LEMMA ThreadSetFinite ==
  ASSUME NEW S \in SUBSET Threads
  PROVE  IsFiniteSet(S) /\ Cardinality(S) \in Nat
BY ThreadsAssumption, FS_Subset, FS_CardinalityType

LEMMA CardAdd ==
  ASSUME NEW S \in SUBSET Threads, NEW x \in Threads \ S
  PROVE  Cardinality(S \cup {x}) = Cardinality(S) + 1
BY ThreadSetFinite, FS_AddElement

LEMMA CardRemove ==
  ASSUME NEW S \in SUBSET Threads, NEW x \in S
  PROVE  /\ Cardinality(S \ {x}) = Cardinality(S) - 1
         /\ Cardinality(S) \in Nat \ {0}
<1>1. IsFiniteSet(S) /\ Cardinality(S) \in Nat
  BY ThreadSetFinite
<1>2. Cardinality(S \ {x}) = Cardinality(S) - 1
  BY <1>1, FS_RemoveElement
<1>3. Cardinality(S \ {x}) \in Nat
  BY ThreadSetFinite
<1>. QED
  BY <1>1, <1>2, <1>3

LEMMA CardZero ==
  ASSUME NEW S \in SUBSET Threads
  PROVE  Cardinality(S) = 0 <=> S = {}
BY ThreadSetFinite, FS_EmptySet
-----------------------------------------------------------------------------
(* What a step that moves the single thread t to state st does to the     *)
(* three sets of threads the counters count.                              *)
LEMMA MoveOne ==
  ASSUME NEW t \in Threads, NEW st \in PcStates,
         pc \in [Threads -> PcStates], pc' = [pc EXCEPT ![t] = st]
  PROVE  /\ Reading' = IF st = "reading" THEN Reading \cup {t}
                                         ELSE Reading \ {t}
         /\ Writing' = IF st = "writing" THEN Writing \cup {t}
                                         ELSE Writing \ {t}
         /\ WaitingToWrite' = IF st \in {"w_wait", "w_woken"}
                              THEN WaitingToWrite \cup {t}
                              ELSE WaitingToWrite \ {t}
BY DEF Reading, Writing, WaitingToWrite

(* The notifications release the caller t and only move waiters from a    *)
(* wait set to the matching woken state, which none of the sets tells      *)
(* apart.                                                                   *)
LEMMA NotifySets ==
  ASSUME NEW t \in Threads, pc \in [Threads -> PcStates],
         NotifyOneWriter(t) \/ NotifyAllReaders(t)
  PROVE  /\ Reading' = Reading \ {t}
         /\ Writing' = Writing \ {t}
         /\ WaitingToWrite' = WaitingToWrite \ {t}
         /\ pc' \in [Threads -> PcStates]
BY DEF NotifyOneWriter, NotifyAllReaders, WriteWaiters, Reading, Writing,
       WaitingToWrite, PcStates

\* Initially no thread holds or waits for the lock, and every counter is 0.
THEOREM InitIInv == Init => IInv
<1> SUFFICES ASSUME Init PROVE IInv
  OBVIOUS
<1>1. Reading = {} /\ Writing = {} /\ WaitingToWrite = {}
  BY DEF Init, Reading, Writing, WaitingToWrite
<1>. QED
  BY <1>1, FS_EmptySet DEF Init, IInv, TypeOK, Counts, Exclusion, PcStates
-----------------------------------------------------------------------------
(* lock_read, and its re-test after a wake-up: either t takes the read    *)
(* lock, which ReadPred allows only while no thread writes, or it goes to  *)
(* wait on read_cv_, which no counter counts.                              *)
LEMMA ReadAwaitIInv ==
  ASSUME IInv, NEW t \in Threads, pc[t] \in {"idle", "r_woken"},
         ReadAwait(t), UNCHANGED <<writer, waiting_writers>>
  PROVE  IInv'
<1>1. CASE ReadPred /\ readers' = readers + 1
             /\ pc' = [pc EXCEPT ![t] = "reading"]
  <2>1. /\ Reading' = Reading \cup {t} /\ t \notin Reading
        /\ Writing' = Writing /\ WaitingToWrite' = WaitingToWrite
    BY <1>1, MoveOne DEF IInv, TypeOK, PcStates, Reading, Writing,
                         WaitingToWrite
  <2>2. Writing = {}
    BY <1>1 DEF ReadPred, IInv, Counts
  <2>3. Cardinality(Reading') = Cardinality(Reading) + 1
    BY <2>1, CardAdd DEF Reading
  <2>. QED
    BY <1>1, <2>1, <2>2, <2>3 DEF IInv, TypeOK, Counts, Exclusion, PcStates
<1>2. CASE pc' = [pc EXCEPT ![t] = "r_wait"] /\ UNCHANGED readers
  <2>1. /\ Reading' = Reading /\ Writing' = Writing
        /\ WaitingToWrite' = WaitingToWrite
    BY <1>2, MoveOne DEF IInv, TypeOK, PcStates, Reading, Writing,
                         WaitingToWrite
  <2>. QED
    BY <1>2, <2>1 DEF IInv, TypeOK, Counts, Exclusion, PcStates
<1>. QED
  BY <1>1, <1>2 DEF ReadAwait

(* lock_write: t takes the write lock when WritePred finds no reader and  *)
(* no writer, or it becomes a waiting writer and waiting_writers_ counts  *)
(* it.                                                                     *)
LEMMA LockWriteIInv ==
  ASSUME IInv, NEW t \in Threads, lock_write(t)
  PROVE  IInv'
<1>1. t \notin Reading \cup Writing \cup WaitingToWrite
  BY DEF lock_write, Reading, Writing, WaitingToWrite
<1>2. CASE WritePred /\ writer' = TRUE /\ pc' = [pc EXCEPT ![t] = "writing"]
             /\ UNCHANGED waiting_writers
  <2>1. Reading = {} /\ Writing = {}
    BY <1>2, CardZero DEF WritePred, IInv, Counts, Reading
  <2>2. /\ Reading' = {} /\ Writing' = {t}
        /\ WaitingToWrite' = WaitingToWrite
    BY <1>1, <1>2, <2>1 DEF IInv, TypeOK, Reading, Writing, WaitingToWrite
  <2>3. Cardinality(Reading') = 0 /\ Writing' # {}
    BY <2>2, FS_EmptySet
  <2>. QED
    BY <1>2, <2>2, <2>3 DEF lock_write, WritePred, IInv, TypeOK, Counts,
                            Exclusion, PcStates
<1>3. CASE waiting_writers' = waiting_writers + 1
             /\ pc' = [pc EXCEPT ![t] = "w_wait"] /\ UNCHANGED writer
  <2>1. /\ Reading' = Reading /\ Writing' = Writing
        /\ WaitingToWrite' = WaitingToWrite \cup {t}
    BY <1>1, <1>3 DEF IInv, TypeOK, Reading, Writing, WaitingToWrite
  <2>2. Cardinality(WaitingToWrite') = Cardinality(WaitingToWrite) + 1
    BY <1>1, <2>1, CardAdd DEF WaitingToWrite
  <2>. QED
    BY <1>3, <2>1, <2>2 DEF lock_write, IInv, TypeOK, Counts, Exclusion,
                            PcStates
<1>. QED
  BY <1>2, <1>3 DEF lock_write

(* A woken writer either takes the lock, leaving the waiting writers, or  *)
(* goes back to waiting on write_cv_.                                      *)
LEMMA WriteWakeIInv ==
  ASSUME IInv, NEW t \in Threads, WriteWake(t)
  PROVE  IInv'
<1>1. t \in WaitingToWrite /\ t \notin Reading \cup Writing
  BY DEF WriteWake, Reading, Writing, WaitingToWrite
<1>2. CASE WritePred /\ waiting_writers' = waiting_writers - 1
             /\ writer' = TRUE /\ pc' = [pc EXCEPT ![t] = "writing"]
  <2>1. Reading = {} /\ Writing = {}
    BY <1>2, CardZero DEF WritePred, IInv, Counts, Reading
  <2>2. /\ Reading' = {} /\ Writing' = {t}
        /\ WaitingToWrite' = WaitingToWrite \ {t}
    BY <1>1, <1>2, <2>1 DEF IInv, TypeOK, Reading, Writing, WaitingToWrite
  <2>3. /\ Cardinality(WaitingToWrite') = Cardinality(WaitingToWrite) - 1
        /\ Cardinality(WaitingToWrite) \in Nat \ {0}
    BY <1>1, <2>2, CardRemove DEF WaitingToWrite
  <2>4. Cardinality(Reading') = 0 /\ Writing' # {}
    BY <2>2, FS_EmptySet
  <2>5. TypeOK'
    BY <1>2, <2>3 DEF WriteWake, IInv, TypeOK, Counts, PcStates
  <2>6. Counts'
    BY <1>2, <2>2, <2>3, <2>4 DEF WriteWake, WritePred, IInv, Counts
  <2>7. Exclusion'
    BY <2>2 DEF Exclusion
  <2>. QED
    BY <2>5, <2>6, <2>7 DEF IInv
<1>3. CASE pc' = [pc EXCEPT ![t] = "w_wait"]
             /\ UNCHANGED <<writer, waiting_writers>>
  <2>1. /\ Reading' = Reading /\ Writing' = Writing
        /\ WaitingToWrite' = WaitingToWrite
    BY <1>1, <1>3 DEF IInv, TypeOK, Reading, Writing, WaitingToWrite
  <2>. QED
    BY <1>3, <2>1 DEF WriteWake, IInv, TypeOK, Counts, Exclusion, PcStates
<1>. QED
  BY <1>2, <1>3 DEF WriteWake

(* A spurious wake-up moves a waiter to its woken state: no counted set    *)
(* changes.                                                                 *)
LEMMA SpuriousWakeIInv ==
  ASSUME IInv, NEW t \in Threads, SpuriousWake(t)
  PROVE  IInv'
<1>1. /\ Reading' = Reading /\ Writing' = Writing
      /\ WaitingToWrite' = WaitingToWrite
      /\ pc' \in [Threads -> PcStates]
  BY DEF SpuriousWake, IInv, TypeOK, Reading, Writing, WaitingToWrite,
         PcStates
<1>. QED
  BY <1>1 DEF SpuriousWake, lockVars, IInv, TypeOK, Counts, Exclusion

(* unlock_read by a reader: readers_ drops with the set of readers, and    *)
(* the notification of a writer only moves it from w_wait to w_woken.      *)
LEMMA UnlockReadIInv ==
  ASSUME IInv, NEW t \in Threads, UnlockRead(t)
  PROVE  IInv'
<1>1. t \in Reading
  BY DEF UnlockRead, Reading
<1>2. /\ Reading' = Reading \ {t}
      /\ Writing' = Writing \ {t}
      /\ WaitingToWrite' = WaitingToWrite \ {t}
      /\ pc' \in [Threads -> PcStates]
  <2>1. CASE readers - 1 = 0
    BY <2>1, NotifySets DEF UnlockRead, unlock_read, IInv, TypeOK
  <2>2. CASE readers - 1 # 0
    BY <2>2 DEF UnlockRead, unlock_read, IInv, TypeOK, Reading, Writing,
                WaitingToWrite, PcStates
  <2>. QED
    BY <2>1, <2>2
<1>3. /\ Cardinality(Reading') = Cardinality(Reading) - 1
      /\ Cardinality(Reading) \in Nat \ {0}
  BY <1>1, <1>2, CardRemove DEF Reading
<1>4. Writing = {}
  BY <1>1 DEF IInv, Exclusion
<1>5. t \notin Writing \cup WaitingToWrite
  BY <1>1 DEF Reading, Writing, WaitingToWrite
<1>6. /\ Reading' = Reading \ {t} /\ Writing' = {}
      /\ WaitingToWrite' = WaitingToWrite
  BY <1>2, <1>4, <1>5
<1>7. TypeOK'
  BY <1>2, <1>3 DEF UnlockRead, unlock_read, IInv, TypeOK, Counts
<1>8. Counts'
  BY <1>3, <1>4, <1>6 DEF UnlockRead, unlock_read, IInv, Counts
<1>9. Exclusion'
  BY <1>6 DEF Exclusion
<1>. QED
  BY <1>7, <1>8, <1>9 DEF IInv

(* unlock_write by the writer: the set of writers empties with writer_,   *)
(* and notify_one / notify_all only wake waiters.                          *)
LEMMA UnlockWriteIInv ==
  ASSUME IInv, NEW t \in Threads, UnlockWrite(t)
  PROVE  IInv'
<1>1. t \in Writing
  BY DEF UnlockWrite, Writing
<1>2. Writing = {t} /\ Reading = {}
  BY <1>1 DEF IInv, Exclusion
<1>3. t \notin WaitingToWrite
  BY <1>1 DEF Writing, WaitingToWrite
<1>4. /\ Reading' = {} /\ Writing' = {}
      /\ WaitingToWrite' = WaitingToWrite
      /\ pc' \in [Threads -> PcStates]
  BY <1>2, <1>3, NotifySets DEF UnlockWrite, unlock_write, IInv, TypeOK
<1>5. TypeOK'
  BY <1>4 DEF UnlockWrite, unlock_write, IInv, TypeOK
<1>6. Counts'
  BY <1>2, <1>4 DEF UnlockWrite, unlock_write, IInv, Counts
<1>7. Exclusion'
  BY <1>4 DEF Exclusion
<1>. QED
  BY <1>5, <1>6, <1>7 DEF IInv

(* try_lock_read succeeds under the same predicate as lock_read.          *)
LEMMA TryLockReadIInv ==
  ASSUME IInv, NEW t \in Threads, try_lock_read(t)
  PROVE  IInv'
BY ReadAwaitIInv DEF try_lock_read, ReadAwait, ReadPred

(* try_lock_write succeeds when there is no reader and no writer, as       *)
(* lock_write does; it ignores waiting writers, which Exclusion allows.     *)
LEMMA TryLockWriteIInv ==
  ASSUME IInv, NEW t \in Threads, try_lock_write(t)
  PROVE  IInv'
<1>1. t \notin Reading \cup Writing \cup WaitingToWrite
  BY DEF try_lock_write, Reading, Writing, WaitingToWrite
<1>2. Reading = {} /\ Writing = {}
  BY CardZero DEF try_lock_write, IInv, Counts, Reading
<1>3. /\ Reading' = {} /\ Writing' = {t}
      /\ WaitingToWrite' = WaitingToWrite
  BY <1>1, <1>2 DEF try_lock_write, IInv, TypeOK, Reading, Writing,
                    WaitingToWrite
<1>4. Cardinality(Reading') = 0 /\ Writing' # {}
  BY <1>3, FS_EmptySet
<1>5. TypeOK'
  BY DEF try_lock_write, IInv, TypeOK, PcStates
<1>6. Counts'
  BY <1>3, <1>4 DEF try_lock_write, IInv, Counts
<1>7. Exclusion'
  BY <1>3 DEF Exclusion
<1>. QED
  BY <1>5, <1>6, <1>7 DEF IInv

-----------------------------------------------------------------------------
\* IInv is inductive: every step of Next, and a stutter, preserves it.
THEOREM NextIInv == IInv /\ [Next]_vars => IInv'
<1> SUFFICES ASSUME IInv, [Next]_vars PROVE IInv'
  OBVIOUS
<1>1. CASE UNCHANGED vars
  BY <1>1 DEF vars, IInv, TypeOK, Counts, Exclusion, Reading, Writing,
              WaitingToWrite
<1>2. ASSUME NEW t \in Threads, lock_read(t) PROVE IInv'
  BY <1>2, ReadAwaitIInv DEF lock_read
<1>3. ASSUME NEW t \in Threads, ReadWake(t) PROVE IInv'
  BY <1>3, ReadAwaitIInv DEF ReadWake
<1>4. ASSUME NEW t \in Threads, lock_write(t) PROVE IInv'
  BY <1>4, LockWriteIInv
<1>5. ASSUME NEW t \in Threads, WriteWake(t) PROVE IInv'
  BY <1>5, WriteWakeIInv
<1>6. ASSUME NEW t \in Threads, SpuriousWake(t) PROVE IInv'
  BY <1>6, SpuriousWakeIInv
<1>7. ASSUME NEW t \in Threads, UnlockRead(t) PROVE IInv'
  BY <1>7, UnlockReadIInv
<1>8. ASSUME NEW t \in Threads, UnlockWrite(t) PROVE IInv'
  BY <1>8, UnlockWriteIInv
<1>9. ASSUME NEW t \in Threads, try_lock_read(t) PROVE IInv'
  BY <1>9, TryLockReadIInv
<1>10. ASSUME NEW t \in Threads, try_lock_write(t) PROVE IInv'
  BY <1>10, TryLockWriteIInv
<1>. QED
  BY <1>1, <1>2, <1>3, <1>4, <1>5, <1>6, <1>7, <1>8, <1>9, <1>10 DEF Next

(* The lock's counters readers_ and waiting_writers_ never go negative in  *)
(* any execution of lock_read, lock_write, the unlocks and the try-locks,   *)
(* for any number of threads (checked by TLC in run tm on 3 threads).       *)
THEOREM TypeCorrect == Spec => []TypeOK
<1>1. IInv => TypeOK
  BY DEF IInv
<1>. QED
  BY <1>1, InitIInv, NextIInv, PTL DEF Spec

(* Readers and a writer, or two writers, never hold the RWLock at once,    *)
(* for any number of threads: the writer-preferring predicates of           *)
(* lock_read / lock_write and the try-locks keep the lock exclusive.        *)
THEOREM ExclusionHolds == Spec => []Exclusion
<1>1. IInv => Exclusion
  BY DEF IInv
<1>. QED
  BY <1>1, InitIInv, NextIInv, PTL DEF Spec
=============================================================================
