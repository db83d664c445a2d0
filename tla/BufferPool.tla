----------------------------- MODULE BufferPool -----------------------------
(***************************************************************************)
(* The buffer pool of PageManager (src/storage/page_manager.cpp) for one   *)
(* table: get_page, allocate_page, mark_dirty, flush_page, flush_all,      *)
(* close, and load_page / write_page / evict_page underneath them.  Every  *)
(* public member function holds the PageManager mutex for its whole body,  *)
(* so each is one step.                                                    *)
(*                                                                         *)
(* A page is abstracted to its header LSN and its slot directory, a        *)
(* sequence of row values in which a deleted slot is DEL; at most MaxSlots *)
(* rows fit.  The table file is the function disk: disk[p] = NoPage when   *)
(* reading page p fails (past the end of the file, or a hole whose magic   *)
(* is zero).  lru_list_ is the sequence lru, front = most recently used.   *)
(* It may hold a key twice: allocate_page pushes a new node even when the  *)
(* key is already cached, and lru_map_ then names the newer (front) node.  *)
(*                                                                         *)
(* The operators ending in "On" are the state transformers the operations *)
(* are built from; Recovery composes them too.  A buffer-pool state is a   *)
(* record [pool, dirty, lru, disk].                                        *)
(***************************************************************************)
EXTENDS Integers, Sequences, FiniteSets

CONSTANTS
  PageIds,    \* the page ids the table can reach
  MaxPages,   \* max_pages_: the capacity of the pool
  MaxSlots,   \* the number of rows a page holds
  Vals,       \* row values
  NoPage,     \* no page cached / no valid page in the file
  DEL         \* a deleted slot

ASSUME BufferPoolAssumption ==
  /\ PageIds \subseteq Nat /\ 0 \in PageIds
  /\ MaxPages \in Nat \ {0}
  /\ MaxSlots \in Nat \ {0}

PageVal == [lsn : Nat, slots : Seq(Vals \cup {DEL})]
EmptyPage == [lsn |-> 0, slots |-> << >>]       \* Page::init

\* A null Page* is no page.
ASSUME NoPageAssumption == NoPage \notin PageVal

-----------------------------------------------------------------------------
\* Helpers on a buffer-pool state bp = [pool, dirty, lru, disk].
Cached(bp) == {p \in PageIds : bp.pool[p] # NoPage}

RemoveAt(s, i) == [j \in 1 .. Len(s) - 1 |-> IF j < i THEN s[j] ELSE s[j + 1]]

\* lru_map_[key]: the front-most node of key.
FirstIndex(s, k) == CHOOSE i \in 1 .. Len(s) :
                      s[i] = k /\ \A j \in 1 .. i - 1 : s[j] # k

\* write_page: the page image goes to the file at page_id * PAGE_SIZE.
WritePageOn(bp, p) == [bp EXCEPT !.disk[p] = bp.pool[p]]

\* Mutant: the victim is dropped without writing it back when dirty.
EvictOnNoWriteBack(bp) ==
  LET live == {i \in 1 .. Len(bp.lru) : bp.pool[bp.lru[i]] # NoPage}
  IN  IF live = {} THEN bp
      ELSE LET i == CHOOSE j \in live : \A l \in live : l <= j
               k == bp.lru[i]
           IN  [bp EXCEPT !.pool[k] = NoPage, !.dirty = @ \ {k},
                          !.lru = RemoveAt(@, i)]

(* evict_page: walk lru_list_ from the back to the first node whose key is *)
(* cached, write that page if dirty (the result of write_page is          *)
(* ignored), drop it from the pool, lru_map_ and that node.                *)
EvictOn(bp) ==
  LET live == {i \in 1 .. Len(bp.lru) : bp.pool[bp.lru[i]] # NoPage}
  IN  IF live = {} THEN bp
      ELSE LET i == CHOOSE j \in live : \A l \in live : l <= j
               k == bp.lru[i]
               w == IF k \in bp.dirty THEN WritePageOn(bp, k) ELSE bp
           IN  [w EXCEPT !.pool[k] = NoPage, !.dirty = @ \ {k},
                         !.lru = RemoveAt(@, i)]

\* Mutant: "while (buffer_pool_.size() > max_pages_)".
MakeRoomOnStrict(bp) ==
  IF Cardinality(Cached(bp)) > MaxPages THEN EvictOn(bp) ELSE bp

(* "while (buffer_pool_.size() >= max_pages_) evict_page();".  The pool    *)
(* never holds more than max_pages_ entries (BufferPoolBound), so the loop *)
(* runs at most once.                                                       *)
MakeRoomOn(bp) ==
  IF Cardinality(Cached(bp)) >= MaxPages THEN EvictOn(bp) ELSE bp

(* load_page: evict while the pool is full, then read page p from the     *)
(* file; fail if there is no valid page p there (a page id past PageIds is *)
(* past the end of the file).  The result is [bp, ok].                     *)
LoadPageOn(bp, p) ==
  LET r == MakeRoomOn(bp)
  IN  IF p \notin PageIds \/ r.disk[p] = NoPage THEN [bp |-> r, ok |-> FALSE]
      ELSE [bp |-> [r EXCEPT !.pool[p] = r.disk[p], !.lru = <<p>> \o @],
            ok |-> TRUE]

(* get_page: a hit moves the key's node to the front; a miss runs          *)
(* load_page.                                                               *)
GetPageOn(bp, p) ==
  IF p \in PageIds /\ bp.pool[p] # NoPage
  THEN [bp |-> [bp EXCEPT !.lru = <<p>> \o RemoveAt(@, FirstIndex(@, p))],
        ok |-> TRUE]
  ELSE LoadPageOn(bp, p)

(* allocate_page with next_page_id_[table] = id: evict, then put a fresh   *)
(* dirty page at key id, replacing any page already cached there, and push *)
(* a node for it.                                                           *)
AllocateOn(bp, id) ==
  LET r == MakeRoomOn(bp)
  IN  [r EXCEPT !.pool[id] = EmptyPage, !.dirty = @ \cup {id},
                !.lru = <<id>> \o @]

\* mark_dirty: only a cached page is marked.
MarkDirtyOn(bp, p) ==
  IF bp.pool[p] # NoPage THEN [bp EXCEPT !.dirty = @ \cup {p}] ELSE bp

\* flush_page: write page p if it is cached and dirty, and clear its bit.
FlushPageOn(bp, p) ==
  IF p \in bp.dirty THEN [WritePageOn(bp, p) EXCEPT !.dirty = @ \ {p}] ELSE bp

\* flush_all: write every dirty page and clear its dirty bit.
FlushAllOn(bp) ==
  [bp EXCEPT !.disk = [p \in PageIds |->
                         IF p \in bp.dirty THEN bp.pool[p] ELSE bp.disk[p]],
             !.dirty = {}]

\* close: flush every dirty page, then clear the pool and the LRU list.
CloseOn(bp) ==
  [FlushAllOn(bp) EXCEPT !.pool = [p \in PageIds |-> NoPage], !.lru = << >>]

\* A caller changes a cached page through the Page* it got.
SetPageOn(bp, p, pg) == [bp EXCEPT !.pool[p] = pg]

\* A new PageManager over the table file disk: nothing cached.
FreshPoolOn(disk) ==
  [pool |-> [p \in PageIds |-> NoPage], dirty |-> {}, lru |-> << >>,
   disk |-> disk]
=============================================================================
