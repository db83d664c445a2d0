------------------------------ MODULE Recovery ------------------------------
(***************************************************************************)
(* The storage engine across crashes: the buffer pool (BufferPool), the    *)
(* WAL (Wal), CheckpointManager::checkpoint and RecoveryManager::recover   *)
(* with apply_insert / apply_update / apply_delete (src/storage/           *)
(* page_manager.cpp, the recovery.cpp part).                               *)
(*                                                                         *)
(* The writer is the mutation path of spec 2 and 4.7, which the            *)
(* repository's executor does not implement: under the write lock it       *)
(* stages a record, appends and syncs it, then applies it to the page      *)
(* through the buffer pool, sets the page LSN and marks the page dirty.    *)
(* It is modelled from the spec.  So is the start-up sequence (spec 4.9):  *)
(* open the WAL, make a new PageManager, and run recover(); nothing in the *)
(* repository calls recover() or needs_recovery() yet.                      *)
(*                                                                         *)
(* The process crashes between calls.  An append cut short by a crash is   *)
(* WalLog's subject: records appended behind a torn tail are never read    *)
(* back (run wal_torn_tail), which here would surface as pages stamped     *)
(* with LSNs recovery cannot see.                                           *)
(*                                                                         *)
(* The ghost db is what the writer was told it wrote: each page's rows     *)
(* after every mutation whose append and sync returned.                    *)
(***************************************************************************)
EXTENDS BufferPool, Wal

CONSTANTS
  Ops,                  \* the mutations the workload issues
  ClientPages,          \* the pages the workload writes
  MaxEntries            \* how many entries the WAL file may grow to

ASSUME RecoveryAssumption ==
  /\ Ops \subseteq {"INSERT", "UPDATE", "DELETE"}
  /\ ClientPages \subseteq PageIds
  /\ 0 .. MaxLsn - 1 \subseteq PageIds   \* room for every allocate_page
  /\ MaxEntries \in Nat

VARIABLES
  bp,            \* the PageManager: pool, dirty bits, LRU list, table file
  next_page_id,  \* next_page_id_[table], in memory only
  wal_file,      \* the WAL file's entries
  current_lsn,   \* Wal::current_lsn_
  mode,          \* "running", "recovering" (inside recover()) or "down"
  redo,          \* the records recover() has still to apply
  db             \* ghost: the rows of each page the writer was told of

recVars == <<bp, next_page_id, wal_file, current_lsn, mode, redo, db>>

Rows(b, p) ==
  LET v == IF b.pool[p] # NoPage THEN b.pool[p] ELSE b.disk[p]
  IN  IF v = NoPage THEN << >> ELSE v.slots

Live(pg, i) == i \in 1 .. Len(pg.slots) /\ pg.slots[i] # DEL

-----------------------------------------------------------------------------
(* Recovery's apply functions, as transformers of [bp, nid] where nid is   *)
(* next_page_id.  Each may fail (stats_.errors++); apply_record carries on *)
(* either way, so a failure leaves whatever get_page already did.          *)

\* Mutant: apply_insert without the live-slot skip.
ApplyInsertOnNoSkip(s, r) ==
  LET g  == GetPageOn(s.bp, r.page)
      a  == IF g.ok THEN [bp |-> g.bp, nid |-> s.nid, q |-> r.page]
            ELSE [bp |-> GetPageOn(AllocateOn(g.bp, s.nid), s.nid).bp,
                  nid |-> s.nid + 1, q |-> s.nid]
      pg == a.bp.pool[a.q]
  IN  IF Len(pg.slots) >= MaxSlots THEN [bp |-> a.bp, nid |-> a.nid]
      ELSE [bp |-> MarkDirtyOn(SetPageOn(a.bp, a.q,
                      [lsn |-> r.lsn, slots |-> Append(pg.slots, r.val)]),
                    r.page),
            nid |-> a.nid]

(* apply_insert: get_page(record.page_id); if that fails, allocate_page    *)
(* and get_page(new id).  Skip if the record's slot holds a live row;      *)
(* otherwise insert_record (which appends a slot), set the page LSN to the *)
(* record's and mark_dirty(record.page_id).                                *)
ApplyInsertOn(s, r) ==
  LET g  == GetPageOn(s.bp, r.page)
      a  == IF g.ok THEN [bp |-> g.bp, nid |-> s.nid, q |-> r.page]
            ELSE [bp |-> GetPageOn(AllocateOn(g.bp, s.nid), s.nid).bp,
                  nid |-> s.nid + 1, q |-> s.nid]
      pg == a.bp.pool[a.q]
      new == [lsn |-> r.lsn, slots |-> Append(pg.slots, r.val)]
  IN  IF r.slot <= Len(pg.slots) /\ Live(pg, r.slot)
      THEN [bp |-> a.bp, nid |-> a.nid]
      ELSE IF Len(pg.slots) >= MaxSlots
      THEN [bp |-> a.bp, nid |-> a.nid]
      ELSE [bp |-> MarkDirtyOn(SetPageOn(a.bp, a.q, new), r.page),
            nid |-> a.nid]

\* Mutant: apply_update / apply_delete without the LSN guard.
ApplyChangeOnNoLsnGuard(s, r, newVal) ==
  LET g  == GetPageOn(s.bp, r.page)
      pg == g.bp.pool[r.page]
  IN  IF ~g.ok \/ ~Live(pg, r.slot)
      THEN [bp |-> g.bp, nid |-> s.nid]
      ELSE [bp |-> MarkDirtyOn(SetPageOn(g.bp, r.page,
                      [lsn |-> r.lsn,
                       slots |-> [pg.slots EXCEPT ![r.slot] = newVal]]),
                    r.page),
            nid |-> s.nid]

(* apply_update / apply_delete: get_page, the LSN guard (skip when the     *)
(* page LSN is >= the record's), the slot operation, page LSN, mark_dirty. *)
(* update_record fails on a slot that is not live (an error);             *)
(* delete_record fails the same way (counted as skipped).                 *)
ApplyChangeOn(s, r, newVal) ==
  LET g  == GetPageOn(s.bp, r.page)
      pg == g.bp.pool[r.page]
  IN  IF ~g.ok \/ pg.lsn >= r.lsn \/ ~Live(pg, r.slot)
      THEN [bp |-> g.bp, nid |-> s.nid]
      ELSE [bp |-> MarkDirtyOn(SetPageOn(g.bp, r.page,
                      [lsn |-> r.lsn,
                       slots |-> [pg.slots EXCEPT ![r.slot] = newVal]]),
                    r.page),
            nid |-> s.nid]

\* apply_record: dispatch on the record type.
ApplyRecordOn(s, r) ==
  CASE r.type = "INSERT" -> ApplyInsertOn(s, r)
    [] r.type = "UPDATE" -> ApplyChangeOn(s, r, r.val)
    [] r.type = "DELETE" -> ApplyChangeOn(s, r, DEL)

\* find_last_checkpoint: the LSN of the last CHECKPOINT read_all yields.
LastCheckpoint(file) ==
  LET cps == {i \in 1 .. ReadableLen(file) : file[i].type = "CHECKPOINT"}
  IN  IF cps = {} THEN 0
      ELSE file[CHOOSE i \in cps : \A j \in cps : j <= i].lsn


\* recover(): the records read_from(start_lsn) yields, checkpoints skipped.
RedoRecords(file) ==
  LET cp == LastCheckpoint(file)
  IN  SelectSeq(ReadFrom(file, IF cp > 0 THEN cp ELSE 1),
                LAMBDA e : e.type # "CHECKPOINT")
-----------------------------------------------------------------------------
Init ==
  /\ bp = FreshPoolOn([p \in PageIds |-> NoPage])
  /\ next_page_id = 0
  /\ wal_file = << >>
  /\ current_lsn = 1
  /\ mode = "running"
  /\ redo = << >>
  /\ db = [p \in PageIds |-> << >>]

Logged(type, p, slot, v) ==
  wal_file' = AppendOn(wal_file, current_lsn,
                       [lsn |-> 0, type |-> type, page |-> p, slot |-> slot,
                        val |-> v])

CanLog == mode = "running" /\ current_lsn <= MaxLsn /\ Len(wal_file) < MaxEntries

(* The writer's mutation: append + sync the record, then apply it to page  *)
(* p as found by b (after get_page or allocate_page): new slot directory,  *)
(* page LSN = the record's LSN, mark_dirty.                                 *)
Mutate(b, p, type, slot, v, slots) ==
  /\ Logged(type, p, slot, v)
  /\ current_lsn' = current_lsn + 1
  /\ bp' = MarkDirtyOn(SetPageOn(b, p, [lsn |-> current_lsn, slots |-> slots]), p)
  /\ db' = [db EXCEPT ![p] = slots]
  /\ UNCHANGED <<mode, redo>>

(* INSERT of row v into page p: get_page(p), or, when p is the table's     *)
(* next page, allocate_page; the row takes the next slot.                   *)
ClientInsert(p, v) ==
  /\ CanLog /\ "INSERT" \in Ops
  /\ LET g == GetPageOn(bp, p) IN
     \/ /\ g.ok
        /\ Len(g.bp.pool[p].slots) < MaxSlots
        /\ Mutate(g.bp, p, "INSERT", Len(g.bp.pool[p].slots) + 1, v,
                  Append(g.bp.pool[p].slots, v))
        /\ UNCHANGED next_page_id
     \/ /\ ~g.ok /\ p = next_page_id
        /\ Mutate(AllocateOn(g.bp, p), p, "INSERT", 1, v, <<v>>)
        /\ next_page_id' = next_page_id + 1

\* UPDATE (new value v) or DELETE of the live row in slot i of page p.
ClientChange(type, p, i, v) ==
  /\ CanLog /\ type \in Ops
  /\ LET g == GetPageOn(bp, p) IN
     /\ g.ok
     /\ Live(g.bp.pool[p], i)
     /\ Mutate(g.bp, p, type, i, v, [g.bp.pool[p].slots EXCEPT ![i] = v])
  /\ UNCHANGED next_page_id

(* CheckpointManager::checkpoint: flush_all, append CHECKPOINT, sync.       *)
checkpoint ==
  /\ CanLog
  /\ bp' = FlushAllOn(bp)
  /\ Logged("CHECKPOINT", 0, 0, 0)
  /\ current_lsn' = current_lsn + 1
  /\ UNCHANGED <<next_page_id, mode, redo, db>>

(* Orderly shutdown: PageManager::close writes every dirty page; the Wal   *)
(* destructor syncs and closes.                                             *)
close ==
  /\ mode = "running"
  /\ bp' = CloseOn(bp)
  /\ mode' = "down"
  /\ UNCHANGED <<next_page_id, wal_file, current_lsn, redo, db>>

\* The process dies between two calls, also in the middle of recover().
Crash ==
  /\ mode # "down"
  /\ mode' = "down"
  /\ bp' = FreshPoolOn(bp.disk)
  /\ redo' = << >>
  /\ UNCHANGED <<next_page_id, wal_file, current_lsn, db>>

(* Start-up: Wal::open (read_header), a new PageManager over the table     *)
(* file (nothing cached, next_page_id_ empty), then recover().            *)
Restart ==
  /\ mode = "down"
  /\ \E lsn \in ReadHeaderLsns(wal_file) : current_lsn' = lsn
  /\ bp' = FreshPoolOn(bp.disk)
  /\ next_page_id' = 0
  /\ mode' = "recovering"
  /\ redo' = RedoRecords(wal_file)
  /\ UNCHANGED <<wal_file, db>>

\* recover(): apply_record on the next record.
RecoverStep ==
  /\ mode = "recovering"
  /\ redo # << >>
  /\ LET s == ApplyRecordOn([bp |-> bp, nid |-> next_page_id], Head(redo))
     IN  bp' = s.bp /\ next_page_id' = s.nid
  /\ redo' = Tail(redo)
  /\ UNCHANGED <<wal_file, current_lsn, mode, db>>

\* recover() returns; the engine serves queries.
RecoverDone ==
  /\ mode = "recovering" /\ redo = << >>
  /\ mode' = "running"
  /\ UNCHANGED <<bp, next_page_id, wal_file, current_lsn, redo, db>>

Next ==
  \/ \E p \in ClientPages, v \in Vals : ClientInsert(p, v)
  \/ \E type \in {"UPDATE", "DELETE"}, p \in ClientPages, i \in 1 .. MaxSlots,
        v \in Vals : ClientChange(type, p, i, IF type = "DELETE" THEN DEL ELSE v)
  \/ checkpoint
  \/ close
  \/ Crash
  \/ Restart
  \/ RecoverStep
  \/ RecoverDone

Spec == Init /\ [][Next]_recVars

-----------------------------------------------------------------------------
(* The pool, the file and the log have their shapes.                       *)
TypeOK ==
  /\ bp.pool \in [PageIds -> PageVal \cup {NoPage}]
  /\ bp.disk \in [PageIds -> PageVal \cup {NoPage}]
  /\ bp.dirty \subseteq PageIds
  /\ next_page_id \in Nat
  /\ mode \in {"running", "recovering", "down"}
  /\ current_lsn \in 1 .. MaxLsn + 1

(* Crash recovery restores the data (spec 1, 4.9 and scenario E4): while   *)
(* the engine serves queries, every page holds exactly the rows the writer *)
(* was told it wrote, whatever crashes, shutdowns, checkpoints, evictions   *)
(* and replays came before.                                                 *)
RecoveryRestoresData ==
  mode = "running" => \A p \in PageIds : Rows(bp, p) = db[p]

\* The LSN of page p as a reader finds it, cached or in the file.
PageLsn(b, p) ==
  LET v == IF b.pool[p] # NoPage THEN b.pool[p] ELSE b.disk[p]
  IN  IF v = NoPage THEN 0 ELSE v.lsn

(* Spec 8.5: "across successful applies of a single recovery pass, page    *)
(* LSNs never decrease" -- no step of recover() lowers the LSN of a page,  *)
(* whether it was cached or had to be loaded.                               *)
RecoveryLsnMonotone ==
  [][mode = "recovering" /\ mode' = "recovering" =>
       \A p \in PageIds : PageLsn(bp', p) >= PageLsn(bp, p)]_recVars
=============================================================================
