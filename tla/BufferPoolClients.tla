-------------------------- MODULE BufferPoolClients --------------------------
(***************************************************************************)
(* The buffer pool under the clients the engine gives it: concurrent read  *)
(* queries whose TableScanOperator (src/executor/executor.cpp) keeps the   *)
(* Page* returned by get_page between next() calls, and a writer that, in  *)
(* a write transaction (so with no scan running), changes a cached page    *)
(* and marks it dirty.  The writer is the mutation path of spec 2 ("apply  *)
(* to page via buffer pool, mark dirty"), which the repository's executor *)
(* does not implement; it is modelled from the spec.                       *)
(*                                                                         *)
(* The ghost latest[p] is the content the writer last gave page p.         *)
(***************************************************************************)
EXTENDS BufferPool

CONSTANTS
  Scans,    \* the read queries that may run at once
  None      \* a scan that holds no page

VARIABLES
  bp,            \* the PageManager's pool, dirty bits, LRU list and file
  next_page_id,  \* next_page_id_[table]
  held,          \* held[s]: the page TableScanOperator s points to (page_)
  latest         \* ghost: the content last written to each page

bpcVars == <<bp, next_page_id, held, latest>>

\* Where a reader finds page p: in the pool, else in the file.
View(b, p) == IF b.pool[p] # NoPage THEN b.pool[p] ELSE b.disk[p]

Scanning == {s \in Scans : held[s] # None}

-----------------------------------------------------------------------------
Init ==
  /\ bp = FreshPoolOn([p \in PageIds |-> NoPage])   \* an empty table file
  /\ next_page_id = 0
  /\ held = [s \in Scans |-> None]
  /\ latest = [p \in PageIds |-> NoPage]

(* TableScanOperator::open: current_page_ = 0, page_ = get_page(0).  A     *)
(* failed get_page leaves page_ null and the scan returns no row.           *)
ScanOpen(s) ==
  /\ held[s] = None
  /\ LET g == GetPageOn(bp, 0)
     IN  /\ g.ok
         /\ bp' = g.bp
         /\ held' = [held EXCEPT ![s] = 0]
  /\ UNCHANGED <<next_page_id, latest>>

(* TableScanOperator::next after the slots of page_ are exhausted:         *)
(* current_page_++ and page_ = get_page(current_page_); the scan ends when *)
(* that fails.  Reading the rows of page_ before it goes through the       *)
(* pointer taken earlier.                                                  *)
ScanNextPage(s) ==
  /\ held[s] # None
  /\ LET g == GetPageOn(bp, held[s] + 1)
     IN  /\ bp' = g.bp
         /\ held' = [held EXCEPT ![s] = IF g.ok THEN held[s] + 1 ELSE None]
  /\ UNCHANGED <<next_page_id, latest>>

\* TableScanOperator::close: page_ = nullptr.
ScanClose(s) ==
  /\ held[s] # None
  /\ held' = [held EXCEPT ![s] = None]
  /\ UNCHANGED <<bp, next_page_id, latest>>

(* The writer appends row v to page p: get_page(p), insert through the    *)
(* pointer, mark_dirty(p).  It runs under the write lock, so no scan is    *)
(* in progress.                                                             *)
WriteRow(p, v) ==
  /\ Scanning = {}
  /\ LET g  == GetPageOn(bp, p)
         pg == g.bp.pool[p]
         new == [pg EXCEPT !.slots = Append(@, v)]
     IN  /\ g.ok
         /\ Len(pg.slots) < MaxSlots
         /\ bp' = MarkDirtyOn(SetPageOn(g.bp, p, new), p)
         /\ latest' = [latest EXCEPT ![p] = new]
  /\ UNCHANGED <<next_page_id, held>>

(* The writer needs a new page: allocate_page(table) hands out             *)
(* next_page_id_[table]++ and caches an empty dirty page for it.            *)
allocate_page ==
  /\ Scanning = {}
  /\ next_page_id \in PageIds
  /\ bp' = AllocateOn(bp, next_page_id)
  /\ next_page_id' = next_page_id + 1
  /\ latest' = [latest EXCEPT ![next_page_id] = EmptyPage]
  /\ UNCHANGED held

\* flush_page: write page p back if it is cached and dirty.
flush_page(p) ==
  /\ bp' = FlushPageOn(bp, p)
  /\ UNCHANGED <<next_page_id, held, latest>>

flush_all ==
  /\ bp' = FlushAllOn(bp)
  /\ UNCHANGED <<next_page_id, held, latest>>

\* close runs at shutdown, after the queries have finished.
close ==
  /\ Scanning = {}
  /\ bp' = CloseOn(bp)
  /\ UNCHANGED <<next_page_id, held, latest>>

Next ==
  \/ \E s \in Scans : ScanOpen(s) \/ ScanNextPage(s) \/ ScanClose(s)
  \/ \E p \in PageIds, v \in Vals : WriteRow(p, v)
  \/ allocate_page
  \/ \E p \in PageIds : flush_page(p)
  \/ flush_all
  \/ close

Spec == Init /\ [][Next]_bpcVars

-----------------------------------------------------------------------------
(* Buffer-pool bound (spec 8.9): page_count() never exceeds max_pages_,    *)
(* over any mix of hits, misses, failed loads and allocations.              *)
BufferPoolBound == Cardinality(Cached(bp)) <= MaxPages

(* No write is lost: for every page, the copy a reader would find (cached  *)
(* or in the file) is the one the writer last produced, whatever pages     *)
(* eviction, flush_all and close have moved between pool and file.         *)
NoLostWrite == \A p \in PageIds : View(bp, p) = latest[p]

(* Spec 4.5: "a page with outstanding external references must not be     *)
(* evicted while held".  Every page a scan points to is still cached.       *)
NoDanglingPage == \A s \in Scanning : bp.pool[held[s]] # NoPage
=============================================================================
