------------------------------- MODULE RWLock -------------------------------
(***************************************************************************)
(* The writer-preferring reader-writer lock of src/concurrency/rw_lock.cpp *)
(* (class RWLock).                                                         *)
(*                                                                         *)
(* Every member function runs under the lock's std::mutex, so each one is  *)
(* an atomic step here.  The two std::condition_variable objects are       *)
(* modelled by the threads' program counters: a thread blocked in          *)
(* read_cv_.wait is in state "r_wait", one that has been notified (or has  *)
(* woken spuriously) and still has to re-acquire the mutex and re-test the *)
(* predicate is in "r_woken"; likewise "w_wait"/"w_woken" for write_cv_.   *)
(* wait(lock, pred) tests pred before it blocks, so the first test happens *)
(* in the same step as the call.                                           *)
(*                                                                         *)
(* The clients are the RAII guards ReadLockGuard and WriteLockGuard of     *)
(* rw_lock.hpp and direct callers of try_lock_read/try_lock_write: any     *)
(* idle thread may take either lock, and a holder eventually releases it.  *)
(***************************************************************************)
EXTENDS Integers, FiniteSets

CONSTANTS Threads   \* the threads that use the lock

ASSUME ThreadsAssumption == IsFiniteSet(Threads) /\ Threads # {}

VARIABLES
  readers,          \* RWLock::readers_ (int)
  writer,           \* RWLock::writer_ (bool)
  waiting_writers,  \* RWLock::waiting_writers_ (int)
  pc                \* where each thread is with respect to the lock

lockVars == <<readers, writer, waiting_writers>>
vars == <<readers, writer, waiting_writers, pc>>

PcStates == {"idle", "r_wait", "r_woken", "w_wait", "w_woken",
             "reading", "writing"}

\* Threads blocked on read_cv_ and on write_cv_.
ReadWaiters  == {t \in Threads : pc[t] = "r_wait"}
WriteWaiters == {t \in Threads : pc[t] = "w_wait"}

(* Mutants (plausible slips in this code, each the "as" of a mutation    *)
(* run): a read predicate without writer preference, a write predicate   *)
(* that forgets the readers.                                              *)
ReadPredNoPreference == ~writer
WritePredIgnoresReaders == ~writer

\* The predicates passed to the two condition-variable waits.
ReadPred  == ~writer /\ waiting_writers = 0
WritePred == readers = 0 /\ ~writer

-----------------------------------------------------------------------------
(* lock_read: wait(lock, pred) and then readers_++.  ReadAwait is one test  *)
(* of the predicate, made on the call and again after every wake-up.       *)
ReadAwait(t) ==
  \/ /\ ReadPred
     /\ readers' = readers + 1
     /\ pc' = [pc EXCEPT ![t] = "reading"]
  \/ /\ ~ReadPred
     /\ pc' = [pc EXCEPT ![t] = "r_wait"]
     /\ UNCHANGED readers

lock_read(t) ==
  /\ pc[t] = "idle"
  /\ ReadAwait(t)
  /\ UNCHANGED <<writer, waiting_writers>>

ReadWake(t) ==
  /\ pc[t] = "r_woken"
  /\ ReadAwait(t)
  /\ UNCHANGED <<writer, waiting_writers>>

(* lock_write: waiting_writers_++, wait(lock, pred), waiting_writers_--,   *)
(* writer_ = true.  The increment and the first test are one step.          *)
lock_write(t) ==
  /\ pc[t] = "idle"
  /\ \/ /\ WritePred
        /\ writer' = TRUE
        /\ pc' = [pc EXCEPT ![t] = "writing"]
        /\ UNCHANGED waiting_writers
     \/ /\ ~WritePred
        /\ waiting_writers' = waiting_writers + 1
        /\ pc' = [pc EXCEPT ![t] = "w_wait"]
        /\ UNCHANGED writer
  /\ UNCHANGED readers

\* Mutant: waiting_writers_-- also on a wake-up that goes back to waiting.
WriteWakeAlwaysDecrements(t) ==
  /\ pc[t] = "w_woken"
  /\ waiting_writers' = waiting_writers - 1
  /\ \/ /\ WritePred
        /\ writer' = TRUE
        /\ pc' = [pc EXCEPT ![t] = "writing"]
     \/ /\ ~WritePred
        /\ pc' = [pc EXCEPT ![t] = "w_wait"]
        /\ UNCHANGED writer
  /\ UNCHANGED readers

WriteWake(t) ==
  /\ pc[t] = "w_woken"
  /\ \/ /\ WritePred
        /\ waiting_writers' = waiting_writers - 1
        /\ writer' = TRUE
        /\ pc' = [pc EXCEPT ![t] = "writing"]
     \/ /\ ~WritePred
        /\ pc' = [pc EXCEPT ![t] = "w_wait"]
        /\ UNCHANGED <<writer, waiting_writers>>
  /\ UNCHANGED readers

(* std::condition_variable may wake a waiter spuriously at any time.       *)
SpuriousWake(t) ==
  /\ \/ pc[t] = "r_wait" /\ pc' = [pc EXCEPT ![t] = "r_woken"]
     \/ pc[t] = "w_wait" /\ pc' = [pc EXCEPT ![t] = "w_woken"]
  /\ UNCHANGED lockVars

-----------------------------------------------------------------------------
(* The releasing thread t returns to "idle"; the notifications move the    *)
(* chosen waiters from the wait set to the woken state.                    *)

\* write_cv_.notify_one(): one waiter, if there is one, is woken.
NotifyOneWriter(t) ==
  \/ \E w \in WriteWaiters : pc' = [pc EXCEPT ![t] = "idle", ![w] = "w_woken"]
  \/ WriteWaiters = {} /\ pc' = [pc EXCEPT ![t] = "idle"]

\* read_cv_.notify_all(): every reader waiting on read_cv_ is woken.
NotifyAllReaders(t) ==
  pc' = [u \in Threads |-> IF u = t THEN "idle"
                           ELSE IF pc[u] = "r_wait" THEN "r_woken"
                           ELSE pc[u]]

\* Mutant: the last reader out does not notify write_cv_.
unlock_readNoNotify(t) ==
  /\ readers' = readers - 1
  /\ pc' = [pc EXCEPT ![t] = "idle"]
  /\ UNCHANGED <<writer, waiting_writers>>

(* unlock_read: readers_--; the last reader out notifies one writer.  No   *)
(* check that the caller holds a read lock: the body is applied as is.      *)
unlock_read(t) ==
  /\ readers' = readers - 1
  /\ IF readers - 1 = 0 THEN NotifyOneWriter(t)
                        ELSE pc' = [pc EXCEPT ![t] = "idle"]
  /\ UNCHANGED <<writer, waiting_writers>>

\* Mutant: unlock_write wakes only writers, never read_cv_.
unlock_writeNoNotifyAll(t) ==
  /\ writer' = FALSE
  /\ IF waiting_writers > 0 THEN NotifyOneWriter(t)
                             ELSE pc' = [pc EXCEPT ![t] = "idle"]
  /\ UNCHANGED <<readers, waiting_writers>>

(* unlock_write: writer_ = false; prefer a waiting writer, else wake all   *)
(* readers.                                                                 *)
unlock_write(t) ==
  /\ writer' = FALSE
  /\ IF waiting_writers > 0 THEN NotifyOneWriter(t) ELSE NotifyAllReaders(t)
  /\ UNCHANGED <<readers, waiting_writers>>

UnlockRead(t)  == pc[t] = "reading" /\ unlock_read(t)
UnlockWrite(t) == pc[t] = "writing" /\ unlock_write(t)

-----------------------------------------------------------------------------
(* try_lock_read / try_lock_write.  Only the successful outcome changes    *)
(* state: a failed try (mutex busy or predicate false) returns false and    *)
(* leaves everything as it was.  try_lock_write does not look at            *)
(* waiting_writers_.                                                        *)
try_lock_read(t) ==
  /\ pc[t] = "idle"
  /\ ~writer /\ waiting_writers = 0
  /\ readers' = readers + 1
  /\ pc' = [pc EXCEPT ![t] = "reading"]
  /\ UNCHANGED <<writer, waiting_writers>>

try_lock_write(t) ==
  /\ pc[t] = "idle"
  /\ readers = 0 /\ ~writer
  /\ writer' = TRUE
  /\ pc' = [pc EXCEPT ![t] = "writing"]
  /\ UNCHANGED <<readers, waiting_writers>>

-----------------------------------------------------------------------------
Init ==
  /\ readers = 0
  /\ writer = FALSE
  /\ waiting_writers = 0
  /\ pc = [t \in Threads |-> "idle"]

Next ==
  \E t \in Threads :
    \/ lock_read(t)  \/ ReadWake(t)
    \/ lock_write(t) \/ WriteWake(t)
    \/ SpuriousWake(t)
    \/ UnlockRead(t) \/ UnlockWrite(t)
    \/ try_lock_read(t) \/ try_lock_write(t)

(* A thread that holds the lock eventually releases it (the guards'        *)
(* destructors run when the critical section ends), and a woken thread     *)
(* eventually re-acquires the mutex and re-tests its predicate.  Taking a  *)
(* lock is the client's choice and is not assumed to happen; neither is a  *)
(* spurious wake-up.                                                        *)
Fairness ==
  \A t \in Threads :
    /\ WF_vars(UnlockRead(t)) /\ WF_vars(UnlockWrite(t))
    /\ WF_vars(ReadWake(t))   /\ WF_vars(WriteWake(t))

Spec == Init /\ [][Next]_vars /\ Fairness

-----------------------------------------------------------------------------
(* The counters readers_ and waiting_writers_ never go negative, and every *)
(* thread is in one of the lock's program states.                          *)
TypeOK ==
  /\ readers \in Nat
  /\ writer \in BOOLEAN
  /\ waiting_writers \in Nat
  /\ pc \in [Threads -> PcStates]

Reading == {t \in Threads : pc[t] = "reading"}
Writing == {t \in Threads : pc[t] = "writing"}
WaitingToWrite == {t \in Threads : pc[t] \in {"w_wait", "w_woken"}}

(* Exclusion (spec 8.10 and the class comment "multiple readers or single  *)
(* writer"): at most one thread holds the write lock, and never while any   *)
(* thread holds the read lock.                                              *)
Exclusion ==
  /\ \A t, u \in Writing : t = u
  /\ Writing # {} => Reading = {}

(* Writer preference (spec 8.7): once a thread has entered lock_write and   *)
(* incremented waiting_writers_, no thread acquires the read lock until     *)
(* that writer has acquired.                                                *)
NoReaderOvertakesWriter ==
  [][\A t \in Threads :
        (pc[t] # "reading" /\ pc'[t] = "reading") => WaitingToWrite = {}]_vars

(* Writers are not starved by readers (spec 8.7): whenever some thread is  *)
(* inside lock_write, eventually some thread holds the write lock.  A lost  *)
(* notification in unlock_read or unlock_write breaks this.                  *)
WriterProgress == (WaitingToWrite # {}) ~> (Writing # {})

(* A reader is held back only by writers: a thread blocked in lock_read     *)
(* eventually holds the read lock unless a writer holds or waits for the    *)
(* lock at that time.  A lost notify_all in unlock_write breaks this.        *)
ReaderProgress ==
  \A t \in Threads :
    (pc[t] \in {"r_wait", "r_woken"}) ~>
      (pc[t] = "reading" \/ Writing # {} \/ WaitingToWrite # {})
=============================================================================
