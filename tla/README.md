# TLA+ models of edgesql-lite

This directory holds TLA+ models of the concurrency and storage core of
edgesql-lite. Each model is checked with TLC on small instances. The most
important invariants are also proved for every instance with TLAPS.
Paths below are relative to the repository root. The sources are split into
`src/src/...` and `src/unnamed/part_NNN`, and `PROJECT.json` maps every
modelling definition to the lines it translates.

## The system and its parts

A query goes through the SQL tokenizer and parser, the planner, and the
executor. The executor's `TableScanOperator` reads pages through the
`PageManager`, the buffer pool. Transactions come from the
`TransactionManager`, which puts one writer-preferring `RWLock` around the
engine: many readers or a single writer. Mutations are logged in the
write-ahead log (`Wal`) before the page changes. `CheckpointManager` flushes
the pool and appends a CHECKPOINT record. At start-up, `RecoveryManager`
replays the log from the last checkpoint through the buffer pool.

The server's `main` (in `rw_lock.cpp`) installs the signal handler and
creates a `ThreadPool`. It starts a `Listener`, whose accept thread submits
one task per connection to the pool. It registers two shutdown callbacks:
`listener.stop()` for phase STOP_ACCEPTING and `thread_pool.shutdown()` for
DRAIN_CONNECTIONS. It then sleeps until SIGINT or SIGTERM sets the
shutdown flag, and calls `ShutdownCoordinator::initiate`, which runs the
phases in order under a deadline.

| Part | Source | Modules | Status |
|---|---|---|---|
| Reader-writer lock | `src/src/concurrency/rw_lock.cpp`, `rw_lock.hpp` | `RWLock`, `RWLockProofs` | modelled |
| Transaction manager | `src/unnamed/part_009` (transaction.cpp), `src/src/concurrency/transaction.hpp` | `TransactionManager`, `TransactionManagerProofs` | modelled |
| Slotted page | `src/src/storage/page.hpp`, the `Page::` functions in `page_manager.cpp` | `Page` | modelled |
| Buffer pool | `PageManager` in `src/src/storage/page_manager.cpp`, `src/unnamed/part_004` | `BufferPool`, `BufferPoolClients`, `BufferPoolProofs` | partly |
| Query executor and operators | `src/src/executor/executor.cpp` | `Executor`, `BufferPoolClients`, `ExecutorProofs` | partly |
| Write-ahead log | `src/unnamed/part_005` (wal.cpp) | `Wal`, `WalLog` | partly |
| Recovery and checkpoint | `RecoveryManager` and `CheckpointManager` in `page_manager.cpp` | `Recovery` | modelled |
| Execution context and budgets | `src/src/executor/context.hpp`, `part_012` | `Executor` | partly |
| Thread pool | `part_008` | `ServerLifecycle` | modelled |
| Shutdown coordinator, signal handler, `main` | `part_008`, the shutdown code in `page.hpp`, `signal_handler.hpp`, `rw_lock.cpp` | `ServerLifecycle` | partly |
| Listener (accept loop) | `part_000` | `ServerLifecycle` | partly |
| Memory tracker, arena | `src/src/memory/` | none | not modelled |
| Segment manager | `segment.hpp`, `part_003` | none | not modelled |
| Tokenizer, parser, planner, catalog, request handling, auth | rest of `src/src` | none | not modelled |

## Modules and how they map to the code

**RWLock.** The variables `readers`, `writer` and `waiting_writers` are the
lock's fields. The variable `pc` holds where each thread stands: idle,
blocked on a condition variable (`r_wait`/`w_wait`), notified but not yet
running again (`r_woken`/`w_woken`), or holding the lock. Every member
function runs under the lock's mutex, so each one is a single action.
A `wait(lock, pred)` becomes one test of the predicate on the call
(`lock_read`, `lock_write`) and one more after each wake-up (`ReadWake`,
`WriteWake`). `notify_one` and `notify_all` move waiters to the woken state.
`SpuriousWake` lets any waiter wake at any time. `try_lock_*` are modelled by
their successful outcome only; a failed try changes nothing.

**TransactionManager** extends RWLock with `txn`, the `Transaction` each
thread holds. `begin_read` and `begin_write` take the lock and then create
the transaction. `try_begin_write` is `try_lock_write` plus creation.
`EndTxn` is a commit or abort through the guard: it sets the state and calls
`end_transaction`, which releases the lock that `read_only` selects.
Each transaction is ended once, as every caller in the repository does.
`commit` and `abort` never check the state, so a second end on the same
handle would release the lock again; that is listed as a hazard.

**AbstractTransactionManager** is what `transaction.hpp` promises its
callers, a "single-writer/multiple-reader model". Its only variable,
`holder`, says for each thread whether it holds no transaction, an active
read-only one, or an active read-write one. `BeginRead` is allowed while no
writer is active, `BeginWrite` (also the successful `try_begin_write`) only
while nothing is active, and `Finish` is a commit or abort. Locks, waiting and
wake-ups are left out. `TransactionManager` maps its state onto this one with
`TxnHolder`: the kind of each thread's `ACTIVE` handle. `ImplementsAbstract`
states that, under this mapping, the detailed specification implements the
abstract one.

**Page** models the slot directory as a sequence of `[offset, length]`,
together with `free_space` and `data_start`. All arithmetic is done modulo
`Word`, as in the code's `uint16_t`. The sizes are constants, so that the
wrap-around can be reached on a 32-byte page. The actions are
`insert_record`, `delete_record` and `update_record`, and their guards are
the code's early returns.

**BufferPool** is a set of state transformers on the record
`[pool, dirty, lru, disk]`. A page is abstracted to its LSN and its row
values. `lru` is `lru_list_`, and it may hold a key twice, as the code's
list does after `allocate_page` of a key that is already cached. The
transformers are `GetPageOn`, `LoadPageOn`, `MakeRoomOn` (the `while size >=
max_pages_` loop), `EvictOn`, `AllocateOn`, `MarkDirtyOn`, `FlushPageOn`,
`FlushAllOn` and `CloseOn`, each following its member function.

**BufferPoolClients** runs these operations under the engine's clients:
- table scans, which keep a `Page*` between `next()` calls;
- a writer under the write lock;
- `allocate_page`, `flush_page`, `flush_all` and `close`.

The ghost variable `latest` records the content the writer last gave each
page.

**Executor** runs SELECT queries over the BufferPoolClients model. A query
is a record holding the plan (filter, sort, limit, offset: the shapes
`plan_select` builds), the context's counters (`instructions_executed`,
`rows_returned`), the Limit and Sort operators' fields, and the number of
rows pushed into the result. Rows are counted, not decoded.
- `execute` is `ctx.start()`, `build_operator` and `open()`. The scan's
  `open` takes `get_page(0)`.
- `NextCall` is one root `next()` of `execute_select`'s loop. It goes
  through Limit and Sort down to the scan.
- `ScanStep` is one turn of `TableScanOperator::next`'s loops. It skips
  deleted slots and moves to the next page through `get_page`.
- A row then climbs back through the continuations `FilterNext` (the
  Filter's charge), `ScanRow` (Sort's materializing loop), `LimitRow` and `RootRow`. `RootRow` pushes
  the row and calls `check_budget`.
- `check_budget` keeps the code's order: time, then instructions, then rows.
  A violation is thrown and caught in `execute` (`Fail`).
- `Tick` expires a query's time budget at any moment.
- `QueryHandler::handle` takes no lock. The server's query path never
  calls the writer, `allocate_page` or `close`, so they run only while no
  query runs. `flush_page` and `flush_all` may interleave.

The ghost field `expect` is the reference result: what the plan selects
from the table's live rows when the query starts.

**ServerLifecycle** composes `main`, the signal handler, the Listener's
accept thread, the ThreadPool's workers and the shutdown coordinator. Each
thread has a program counter:
- `mpc` for main, whose `phase` is `current_phase_`;
- `apc` for the accept thread;
- `wpc[w]` for each worker.

The pool's `tasks_` is a sequence of connections, and `stop` is `stop_`.
- A worker's `condition_.wait` is a wait state. `notify_one` and
  `notify_all` move waiters back to re-test the predicate, and
  `SpuriousWake` may do so at any time.
- `submit` pushes under the mutex and notifies after unlocking, which is
  the separate `NotifyOne` step. When `stop_` is set, it throws and the
  connection is closed unserved ("rejected").
- `PhaseStep` runs `execute_phase`, calling the registered callbacks
  (`Callbacks`). It may instead find the deadline passed, and then `main`
  returns.
- The Listener's and ThreadPool's destructors then do what `stop()` and
  `shutdown()` do.
- `ListenerStop` and `shutdown` are the helpers both paths call.
- `ActiveOperationGuard` is left out, because nothing constructs one. The
  DRAIN_CONNECTIONS wait therefore returns at once, as in the code.

**Wal** is a set of operators on the log file. The file is a sequence of
records and of the torn remains of a record whose write was cut short by a
crash. The operators are:
- `AppendOn`;
- `Readable` and `ReadFrom`, which stop at the first torn entry, as the
  length, short-read and CRC checks of `read_from` do;
- `ReadHeaderLsns`, the values `read_header` can leave in `current_lsn_`.

**WalLog** is the log alone under appends, process crashes (also in the
middle of `append`) and reopenings. The ghost variable `acked` holds the
LSNs whose `append` and `sync` both returned.

**Recovery** composes BufferPool and Wal with `checkpoint`, `close`,
process crashes (also in the middle of `recover()`), restart and
`recover()`. An append cut short by a crash is left to WalLog: the records
written behind a torn tail are never read back (`wal_torn_tail`), and in
Recovery that would show as pages whose LSN no reader of the log can find.
`RecoverStep` is one `apply_record` call.
The mutation path (append + sync, then apply to the page, set its LSN and
mark it dirty) and the start-up sequence are modelled from the spec, because
the repository's executor does not implement them. Those definitions are
marked `spec_modelled`. The ghost variable `db` holds the rows the writer was
told it wrote.

## Runs

| Run | Expect | What it shows |
|---|---|---|
| `tm` | pass | Three threads with transactions through guards. `SingleWriter`, and `LockMatchesTransactions` (`readers_` equals the number of active readers; `writer_` is set exactly when a write transaction is active). On the lock underneath: `Exclusion`, writer preference (`NoReaderOvertakesWriter`), and `WriterProgress` and `ReaderProgress` under spurious wake-ups. `ImplementsAbstract`: every step is a step of the abstract single-writer/multiple-reader model, or leaves the active transactions unchanged. |
| `page` | pass | Records stay disjoint, above the directory and inside the page (`RecordsInPage`), and `FreeSpaceIsGap` holds. |
| `executor` | pass | Every SELECT shape, with the writer, allocation, flushes, close and budget expiry. `ResultMatchesTable`: a query that succeeds returns exactly the rows its plan selects. `ExTypeOK`: a finished or failed query holds no page. `BufferPoolBound`, and `NoLostWrite` (the copy a reader finds, cached or on disk, is the last one written). |
| `executor_row_budget` | violation | A SELECT without LIMIT returns more than `max_result_rows` rows and succeeds. Only `LimitOperator` counts `rows_returned` (spec 8.6). |
| `bufferpool_scans` | violation | Two scans: one scan's `get_page` evicts the page the other still reads through (spec 4.5). |
| `wal` | pass | `ReadableLsnsIncrease` holds across torn appends and reopenings. |
| `wal_torn_tail` | violation | After a torn append, the new records go behind the torn bytes and `read_from` never reaches them. |
| `recovery` | pass | Insert and update on one page with checkpoints, crashes (also inside `recover()`) and restarts: `RecoveryRestoresData` and `RecoveryLsnMonotone`. With one client page and a one-page pool nothing is evicted; eviction during recovery is left to a second page, which `recovery_two_pages` shows already loses data. |
| `recovery_two_pages` | violation | `next_page_id_` restarts at 0, so `apply_insert`'s `allocate_page` writes page 1's row into page 0. |
| `recovery_delete` | violation | `apply_insert` has no LSN guard: replay resurrects a deleted row and lowers the page LSN. |
| `server` | pass | Start-up (or its failure), connections, a signal at any time, and the shutdown phases with timeouts. `NoConnectionRejected`: the listener stops before the pool, so no accepted connection meets a stopped pool. `ShutdownDrainsConnections`: no connection is in flight when `main` exits. `ShutdownTerminates`: after a signal, `main` exits. `QueuedConnectionServed`: every queued connection is served. `StopAfterAcceptJoined`: no step sets the pool's `stop_` while the accept thread may still call `submit()`. |

Every property of a passing run has a mutant in `PROJECT.json`. A mutant
replaces one definition with a plausible slip, for example:
- a dropped notify;
- a missing write-back on eviction;
- an off-by-one offset;
- `>` for `>=`;
- a missing LSN guard.

TLC finds each mutant's property violated.

## Bounds

- **Locks:** three threads. That is enough for a writer to wait behind a
  reader while a second reader arrives, or for two writers to compete while a
  reader waits.
- **Page:** a 32-byte page in a 64-value word, with the code's proportions.
  There is room for four records, and lengths 1, 3, 8, 20 and 24 fill it in
  every order.
- **Buffer pool and executor:** a pool of two pages over three page ids and
  two rows per page. Each load past the pool's size evicts, and a scan
  crosses pages. A table of up to four rows and `max_result_rows` = 3 make
  LIMIT 1 with OFFSET 0 and 1, the row cap, and a sort over several pages all
  reachable. `max_instructions` = 60 lets a query over three rows succeed
  and a query over more fail.
- **Server:** two workers and three connections. Both workers can be busy
  while a third connection queues, and shutdown can meet a non-empty queue.
- **WAL:** four LSNs and two tears. That covers a torn tail, a restart,
  appends behind the torn bytes, and a second tear.
- **Recovery:** five LSNs and one page. A behaviour then holds an insert, an
  update, a checkpoint, a crash and a replay. The two-page run uses a pool
  of two pages, so that both pages are cached together.

## Fairness

The lock's liveness properties in `tm` assume weak fairness of two kinds:
- of releasing a held lock, because the RAII guards' destructors release
  it;
- of a woken thread re-testing its predicate, because a notified thread is
  scheduled again by the OS.

No thread is assumed to take a lock, and spurious wake-ups are not assumed
to happen.

`server` assumes weak fairness of each thread's own steps: main, the accept
thread and each worker. Each is a running OS thread that is not blocked when
its step is enabled. A worker in `condition_.wait` has no enabled step until
a notify. The signal, connections, spurious wake-ups and the phase deadline
get no fairness, since they may never happen.

## Proofs (TLAPS)

`RWLockProofs` proves `Spec => []TypeOK` and `Spec => []Exclusion` for every
finite non-empty set of threads. Exclusion is not inductive on its own: a
step of `lock_write` reads the counters, not the threads' states. The
strengthening `IInv` adds `Counts`:
- `readers` is the number of threads reading;
- `waiting_writers` is the number of threads in `w_wait` or `w_woken`;
- `writer` holds exactly when some thread is writing.

With `Counts`, each action's guard on the counters says what it needs about
the threads. One lemma per action shows that the action preserves `IInv`.
Those lemmas rest on cardinality facts from `FiniteSetTheorems`.

`TransactionManagerProofs` proves `TMSpec => []SingleWriter` and
`TMSpec => []LockMatchesTransactions`. Its strengthening adds `TxnMatch`:
the threads with an active read transaction are exactly the reading threads,
and the same holds for writers. Proving it needs the assumption
`NoTxnAssumption` (a null handle is no Transaction). `SingleWriter` then
follows from `Exclusion`. The theorems are about `TMSpec`, the clients that
end each transaction once. The same invariant gives `TMTypeOK`
(`TMTypeCorrect`).

It also gives the action property `NoReaderOvertakesWriter`
(`NoReaderOvertakesWriterHolds`), the writer preference of spec 8.7. The
argument:
- A thread enters `reading` only in `ReadAwait`, the step of `begin_read`
  and of its wake-ups.
- That step requires `ReadPred`, and so `waiting_writers_ = 0`.
- `Counts` makes `waiting_writers_` the number of threads inside
  `lock_write`, so no such thread exists.
- No other step moves a thread into `reading`: the release notifications
  move threads only to `idle`, `w_woken` or `r_woken` (`NotifyNoReader`).

The same module proves the refinement `TMSpec => ImplementsAbstract`
(`TMImplementsAbstract`). The argument goes step by step:
- By the invariant, `TxnHolder` equals `HolderOf(Reading, Writing)`, a
  function of the sets of reading and writing threads (`TxnHolderIs`).
- Each step of the detailed model then maps to the abstract model:
  - a `begin_read` that takes the lock is `BeginRead`, because no thread
    writes while `writer_` is clear;
  - a `begin_write` or `try_begin_write` that takes the lock is
    `BeginWrite`, because `readers_ = 0` means nobody reads
    (`RefineWriteAcquire`);
  - a commit or abort is `Finish`;
  - a wait, a wake-up or a spurious wake-up leaves `TxnHolder` unchanged.
- The initial state maps to the abstract initial state.

`PageProofs` proves `RecordsInPage` and `FreeSpaceIsGap` for every page
geometry that `PageAssumption` allows. The hypothesis `NoWrap` says no
length is within `SlotSize` of 2^16. It holds for every length the code
passes: `insert_record`'s only caller, `apply_insert`
(page_manager.cpp:616), passes a WAL payload, and `read_from` caps a record
at 64 KiB including its 32-byte header, so a payload is at most 65504. `RecordsInPage` is
not inductive, because `insert_record` tests `free_space` and
`data_start`, not the slots. The strengthening `IInv` adds three facts:
- `FreeSpaceIsGap`;
- `data_start` lies below every live record (`InPage`);
- live records are packed downwards in slot order (`Ordered`). Disjointness
  of a new record from the old ones rests on this.

`ServerLifecycleProofs` proves four properties for every non-empty pool of
workers and every set of connections:
- `TypeOK`;
- `NoConnectionRejected`;
- `ShutdownDrainsConnections`;
- the action property `StopAfterAcceptJoined`.

Both state invariants talk about the end of shutdown. What keeps them true
is the order in which the main thread runs the phases, so the strengthening
has three parts:
- `MainInv` ties each place of the main thread to the listener's state.
  Once the listener is stopped, the accept thread has left `accept_loop`,
  and `stop_` is set only after that.
- `PoolInv` ties `stop_` to the workers. Once the pool is joined every
  worker has exited, and a worker exits only on an empty queue.
- `ConnInv` says where each connection is (accepted, queued or handled)
  and who holds it.

`WorkersAssumption` (the `ThreadPool` constructor makes at least one thread)
is needed for the drain: with no workers the queue is never emptied.
`StopAfterAcceptJoined` follows from the same invariant: the only step that
sets `stop_` is `ThreadPool::shutdown`, and `MainInv` puts it after the join.

`WalProofs` proves `TypeOK` and `ReadableLsnsIncrease` for every `MaxLsn`,
across any number of crashes, torn appends and reopenings. The strengthening
needs two facts:
- `Increasing`: any two readable records, not just neighbours, are in
  order.
- `Fresh`: while the process runs and the file has no torn entry,
  `current_lsn_` is above every LSN in the file.

`Fresh` is needed because `append` stamps the new record with
`current_lsn_`. It does not hold after a torn entry with records behind it,
because `read_header` may then compute any value. But those records lie
behind the torn entry, where `read_from` does not reach them, so
`Increasing` is not disturbed. The proof rests on lemmas about
`ReadableLen`:
- its value is the first torn index minus one (`RLChar`, `RLUnique`, with
  the least torn index from `WFMin`);
- an append extends it only when the whole file is readable and the new
  entry is whole (`RLAppend`).

`BufferPoolProofs` proves `ExSpec => []NoLostWrite` (`NoLostWriteHolds`)
for every set of page ids, every pool capacity and every set of plans. The
setting is the executor's queries together with the writer, `allocate_page`,
`flush_page`, `flush_all` and `close`. `NoLostWrite` is not inductive. A
step of `evict_page` replaces a cached page by the file's copy, so the proof
must know what the file holds. The strengthening `Faithful(bp, latest)` says
four things:
- every dirty page is cached;
- a cached page is the latest content;
- a clean cached page equals the file's copy;
- the file's copy of an uncached page is the latest content.

`Faithful` is a predicate of a single pool state. So each transformer of
`BufferPool` gets one lemma: `EvictFaithful`, `MakeRoomFaithful`,
`LoadPageFaithful`, `GetPageFaithful`, `FlushPageFaithful`,
`FlushAllFaithful`, `CloseFaithful` and `DirtyPageFaithful`. The executor's
steps then compose these lemmas. Two details of the argument:
- Eviction is proved for every victim and every LRU node (`EvictVictim`).
  So the `CHOOSE` that picks the victim never has to be evaluated, and the
  duplicate LRU nodes that `allocate_page` leaves behind do not matter.
- A load needs the page to be uncached, and eviction uncaches pages but
  never caches one.

The proof needs the assumption `NoPageAssumption`: a null `Page*` is no
page.

The same module proves `ExSpec => []BufferPoolBound`
(`BufferPoolBoundHolds`) for every `max_pages_ >= 1`. The bound is not
inductive either. `MakeRoomOn` evicts once on a full pool, and that frees a
slot only if `evict_page`'s walk from the back of `lru_list_` finds a cached
key. The strengthening `BIInv` adds two facts to `Faithful`:
- `Covered`: every cached page has a node in the LRU list;
- `Bounded`: the cache is finite and holds at most `max_pages_` pages.

With them, the argument runs as follows:
- On a full pool the cache is not empty, so `Covered` yields a live node,
  and `EvictBound` shows the eviction removes exactly one cached page.
- `MakeRoomBound` then leaves fewer than `max_pages_` pages.
- `PushFrontBound` shows that a load or an `allocate_page` that caches one
  page and pushes its node keeps both facts.
- A hit moves the page's front-most node to the front. `FirstIndexFound`,
  `RemoveAtKeeps` and `PushFrontKeeps` show that every other cached page
  keeps a node.
- The writer changes a cached page in place, the flushes leave the pool
  and the list alone, and `close` empties both.

The greatest live index that the victim `CHOOSE` needs comes from
`GreatestIndex`, which is proved with `WFMin` on `Nat`.

`ExecutorProofs` proves `ExSpec => []ExTypeOK` (`ExTypeCorrect`) for every
set of plans, scans and budgets. The strengthening `QInv` has three parts:
- every query state is a record of the shape `QRec`, so the continuations'
  `EXCEPT`s keep the fields' types;
- `held` is a function on the scans;
- `next_page_id` is a natural number, so that `TableRows`, the count behind
  the ghost `expect`, is a cardinality of a finite set.

There is one lemma per continuation (`Continue`, `Fail`, `Finish`,
`RootRow`, `LimitRow`, `SortNext`, `ScanRow`, `ScanEnd`) and one per
action. `ExecutorAssumption` states that there is at least one plan and
that a plan's `filter` and `sort` are Booleans. That is the shape the
`Plans` constant documents. The idle query of `ExInit` carries a plan, so
`ExTypeOK` needs one to exist.

## What is only model-checked

- **Liveness.** `WriterProgress`, `ReaderProgress`, `ShutdownTerminates`
  and `QueuedConnectionServed` are checked only by TLC. They need fairness
  and `ENABLED`, which TLAPS cannot reason about.
- **Query results.** `ResultMatchesTable` is checked only by TLC. It
  compares a query's output with `TableRows`, the cardinality of a set of
  (page, slot) pairs. Its proof would need the scan's row count related to
  that set across page changes and the writer's appends. That is a counting
  invariant over the scan's position, and it has not been worked out.
- **Recovery.** `TypeOK`, `RecoveryRestoresData` and `RecoveryLsnMonotone` of `Recovery` are checked only by TLC. Each needs
  to know that the records `recover()` replays come from the WAL file: that
  their LSNs are bounded, their pages are client pages and their types are
  mutations. `RedoRecords` computes them with `SelectSeq`, a
  `LET`-recursive function over the file. What it returns for every file is
  a fact by induction over data, which the installed provers cannot
  establish: the library's induction and recursive-function theorems take
  an operator parameter that none of them can instantiate.

## Not modelled

- **I/O failures.** `write_page` and `load_page` never fail for a reason
  other than a missing page, so `evict_page` ignoring a failed write and
  `checkpoint` ignoring failed flushes are listed as hazards but not checked.
- **`needs_recovery`.** Nothing in the repository calls it or `recover()`.
  The modelled start-up always runs `recover()`. The `size() > 1` test would
  skip a single record after the checkpoint; that is listed as a hazard.
- **Space reclaim.** `delete_record` and `update_record` reclaim no space, as
  a code comment says, so spec 8.1's exact space equation does not hold after
  a delete. `FreeSpaceIsGap` is the equation the code keeps.
- **Power loss.** `Wal::sync` does not fsync. The model's crash is a process
  crash, in which what was flushed to the OS survives.
- **`MemoryTracker`, `ActiveOperationGuard`.** Nothing in the repository
  calls them on a live path, so they have no reachable hazard.
- **The memory budget.** The executor's operators never allocate through
  `QueryAllocator`.
- **Aggregates.** `build_operator` returns a null operator for AGGREGATE,
  and a Sort or Limit above it dereferences that null child. This is listed
  as a hazard.
- **The segment manager.** Neither the page manager nor recovery uses it.
- **The SQL front end, the planner and request handling.** They are string
  and tree processing with no shared state. The executor takes from the
  planner only the plan shapes it builds. OFFSET without LIMIT is dropped,
  as `plan_select` does.
