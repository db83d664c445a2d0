-------------------------- MODULE BufferPoolProofs --------------------------
(***************************************************************************)
(* Proofs that the buffer pool of src/storage/page_manager.cpp loses no    *)
(* write (NoLostWrite): under the executor's queries, the writer,          *)
(* allocate_page, flush_page, flush_all and close, for every set of page  *)
(* ids, every capacity and every plan, the copy of a page a reader finds, *)
(* cached or in the file, is the one the writer last produced.             *)
(*                                                                         *)
(* NoLostWrite is not inductive: a step of evict_page turns a cached page *)
(* into the file's copy, so it needs to know that the file's copy of a    *)
(* clean cached page is the cached one, and that every dirty page is      *)
(* cached (Faithful).  Faithful is a predicate of one pool state, so that *)
(* each transformer of BufferPool (EvictOn, LoadPageOn, GetPageOn, ...)   *)
(* gets one lemma, and the steps of the executor compose them.            *)
(***************************************************************************)
EXTENDS Executor, FiniteSetTheorems, WellFoundedInduction, TLAPS

USE BufferPoolAssumption

\* What a pool slot or a file page holds: a page, or none.
PV == PageVal \cup {NoPage}

\* The shape of a buffer-pool state [pool, dirty, lru, disk].
BPRec ==
  [pool : [PageIds -> PV], dirty : SUBSET PageIds, lru : Seq(PageIds),
   disk : [PageIds -> PV]]

(* The pool b is faithful to the contents lat the writer produced: every  *)
(* dirty page is cached, a cached page is the latest content, a clean     *)
(* cached page is also what the file holds, and the file holds the latest *)
(* content of every page that is not cached.                              *)
Faithful(b, lat) ==
  /\ b \in BPRec
  /\ lat \in [PageIds -> PV]
  /\ b.dirty \subseteq Cached(b)
  /\ \A p \in PageIds : b.pool[p] # NoPage => b.pool[p] = lat[p]
  /\ \A p \in PageIds : b.pool[p] # NoPage /\ p \notin b.dirty =>
                          b.disk[p] = b.pool[p]
  /\ \A p \in PageIds : b.pool[p] = NoPage => b.disk[p] = lat[p]

-----------------------------------------------------------------------------
(* Lemmas about the helpers of BufferPool.                                 *)

\* Removing the i-th node of the LRU list leaves a list of page ids, for
\* any i (the node FirstIndex or evict_page's scan picks).
LEMMA RemoveAtSeq ==
  ASSUME NEW S, NEW s \in Seq(S), NEW i
  PROVE  RemoveAt(s, i) \in Seq(S)
<1>1. Len(s) - 1 \in Nat \/ Len(s) - 1 = -1
  OBVIOUS
<1>2. \A j \in 1 .. Len(s) - 1 : s[j] \in S /\ s[j + 1] \in S
  OBVIOUS
<1>. QED
  BY <1>1, <1>2 DEF RemoveAt

(* The body of evict_page once it has picked node i of the LRU list, of   *)
(* page k: write k to the file when it is dirty, then drop it from the     *)
(* pool, the dirty set and the list.                                        *)
EvictStep(b, k, i) ==
  [IF k \in b.dirty THEN WritePageOn(b, k) ELSE b
     EXCEPT !.pool[k] = NoPage, !.dirty = @ \ {k}, !.lru = RemoveAt(@, i)]

(* Evicting a victim k keeps the pool faithful, whichever node i of the   *)
(* LRU list the step removes, and caches no page.                          *)
LEMMA EvictVictim ==
  ASSUME NEW b, NEW lat, NEW k, NEW i, Faithful(b, lat)
  PROVE  /\ Faithful(EvictStep(b, k, i), lat)
         /\ \A p \in PageIds :
              b.pool[p] = NoPage => EvictStep(b, k, i).pool[p] = NoPage
<1>. DEFINE w == IF k \in b.dirty THEN WritePageOn(b, k) ELSE b
            e == [w EXCEPT !.pool[k] = NoPage, !.dirty = @ \ {k},
                           !.lru = RemoveAt(@, i)]
            dk == IF k \in b.dirty THEN [b.disk EXCEPT ![k] = b.pool[k]]
                  ELSE b.disk
<1>1. RemoveAt(b.lru, i) \in Seq(PageIds)
  BY RemoveAtSeq DEF Faithful, BPRec
<1>2. /\ w \in BPRec
      /\ w.pool = b.pool /\ w.dirty = b.dirty /\ w.lru = b.lru /\ w.disk = dk
  <2>1. CASE k \in b.dirty
    <3>1. k \in PageIds /\ b.pool[k] \in PV
      BY <2>1 DEF Faithful, Cached, BPRec
    <3>2. w = [b EXCEPT !.disk = [b.disk EXCEPT ![k] = b.pool[k]]]
      BY <2>1 DEF WritePageOn
    <3>3. [b.disk EXCEPT ![k] = b.pool[k]] \in [PageIds -> PV]
      BY <3>1 DEF Faithful, BPRec
    <3>4. dk = [b.disk EXCEPT ![k] = b.pool[k]]
      BY <2>1
    <3>. QED
      BY <3>2, <3>3, <3>4 DEF Faithful, BPRec
  <2>2. CASE k \notin b.dirty
    BY <2>2 DEF Faithful
  <2>. QED
    BY <2>1, <2>2
<1>20. /\ e \in BPRec
       /\ e.pool = [b.pool EXCEPT ![k] = NoPage] /\ e.dirty = b.dirty \ {k}
       /\ e.lru = RemoveAt(b.lru, i) /\ e.disk = dk
  BY <1>1, <1>2 DEF BPRec, PV
<1>3. k \in b.dirty => k \in PageIds /\ b.pool[k] # NoPage /\ b.pool[k] = lat[k]
  BY DEF Faithful, Cached
<1>5. e.dirty \subseteq Cached(e)
  BY <1>20 DEF Faithful, BPRec, Cached
<1>6. \A p \in PageIds : e.pool[p] # NoPage => e.pool[p] = lat[p]
  BY <1>20 DEF Faithful, BPRec
<1>7. \A p \in PageIds : e.pool[p] # NoPage /\ p \notin e.dirty =>
                           e.disk[p] = e.pool[p]
  BY <1>20 DEF Faithful, BPRec
<1>8. \A p \in PageIds : e.pool[p] = NoPage => e.disk[p] = lat[p]
  BY <1>20, <1>3 DEF Faithful, BPRec, Cached
<1>9. \A p \in PageIds : b.pool[p] = NoPage => e.pool[p] = NoPage
  BY <1>20 DEF Faithful, BPRec
<1>. QED
  BY <1>20, <1>5, <1>6, <1>7, <1>8, <1>9 DEF Faithful, EvictStep

\* evict_page keeps the pool faithful and caches no page.
LEMMA EvictFaithful ==
  ASSUME NEW b, NEW lat, Faithful(b, lat)
  PROVE  /\ Faithful(EvictOn(b), lat)
         /\ \A p \in PageIds : b.pool[p] = NoPage => EvictOn(b).pool[p] = NoPage
<1>. DEFINE live == {i \in 1 .. Len(b.lru) : b.pool[b.lru[i]] # NoPage}
            i == CHOOSE j \in live : \A l \in live : l <= j
            k == b.lru[i]
<1>1. CASE live = {}
  BY <1>1, Zenon DEF EvictOn
<1>2. CASE live # {}
  <2>1. EvictOn(b) = EvictStep(b, k, i)
    BY <1>2, Zenon DEF EvictOn, EvictStep
  <2>2. PICK kk, ii : EvictOn(b) = EvictStep(b, kk, ii)
    BY <2>1
  <2>3. /\ Faithful(EvictStep(b, kk, ii), lat)
        /\ \A p \in PageIds :
             b.pool[p] = NoPage => EvictStep(b, kk, ii).pool[p] = NoPage
    BY EvictVictim
  <2>. QED
    BY <2>2, <2>3
<1>. QED
  BY <1>1, <1>2

\* The eviction loop of load_page and allocate_page, likewise.
LEMMA MakeRoomFaithful ==
  ASSUME NEW b, NEW lat, Faithful(b, lat)
  PROVE  /\ Faithful(MakeRoomOn(b), lat)
         /\ \A p \in PageIds :
              b.pool[p] = NoPage => MakeRoomOn(b).pool[p] = NoPage
BY EvictFaithful DEF MakeRoomOn

(* load_page of a page that is not cached keeps the pool faithful; when it *)
(* succeeds, page p is cached.                                             *)
LEMMA LoadPageFaithful ==
  ASSUME NEW b, NEW lat, NEW p, Faithful(b, lat),
         p \in PageIds => b.pool[p] = NoPage
  PROVE  /\ Faithful(LoadPageOn(b, p).bp, lat)
         /\ LoadPageOn(b, p).ok => p \in PageIds /\ LoadPageOn(b, p).bp.pool[p] # NoPage
<1>. DEFINE r == MakeRoomOn(b)
            l == [r EXCEPT !.pool[p] = r.disk[p], !.lru = <<p>> \o @]
<1>1. Faithful(r, lat) /\ (p \in PageIds => r.pool[p] = NoPage)
  BY MakeRoomFaithful
<1>2. CASE p \notin PageIds \/ r.disk[p] = NoPage
  <2>1. LoadPageOn(b, p) = [bp |-> r, ok |-> FALSE]
    BY <1>2 DEF LoadPageOn
  <2>. QED
    BY <1>1, <2>1
<1>3. CASE p \in PageIds /\ r.disk[p] # NoPage
  <2>1. LoadPageOn(b, p) = [bp |-> l, ok |-> TRUE]
    BY <1>3 DEF LoadPageOn
  <2>2. /\ r.pool[p] = NoPage /\ r.disk[p] = lat[p] /\ r.disk[p] \in PV
        /\ p \notin r.dirty
    BY <1>1, <1>3 DEF Faithful, BPRec, Cached
  <2>6. <<p>> \o r.lru \in Seq(PageIds)
    BY <1>3, <1>1 DEF Faithful, BPRec
  <2>7. [r.pool EXCEPT ![p] = r.disk[p]] \in [PageIds -> PV]
    BY <1>1, <2>2 DEF Faithful, BPRec
  <2>3. /\ l \in BPRec
        /\ l.pool = [r.pool EXCEPT ![p] = r.disk[p]]
        /\ l.dirty = r.dirty /\ l.disk = r.disk
    BY <1>1, <2>6, <2>7 DEF Faithful, BPRec
  <2>4. Faithful(l, lat)
    BY <1>1, <1>3, <2>2, <2>3 DEF Faithful, BPRec, Cached
  <2>5. l.pool[p] # NoPage
    BY <1>1, <1>3, <2>3 DEF Faithful, BPRec
  <2>8. LoadPageOn(b, p).bp = l /\ LoadPageOn(b, p).ok
    BY <2>1
  <2>. QED
    BY <1>3, <2>4, <2>5, <2>8
<1>. QED
  BY <1>2, <1>3

(* get_page keeps the pool faithful; when it succeeds, page p is cached.  *)
LEMMA GetPageFaithful ==
  ASSUME NEW b, NEW lat, NEW p, Faithful(b, lat)
  PROVE  /\ Faithful(GetPageOn(b, p).bp, lat)
         /\ GetPageOn(b, p).ok => p \in PageIds /\ GetPageOn(b, p).bp.pool[p] # NoPage
<1>. DEFINE h == [b EXCEPT !.lru = <<p>> \o RemoveAt(@, FirstIndex(@, p))]
<1>1. CASE p \in PageIds /\ b.pool[p] # NoPage
  <2>1. GetPageOn(b, p) = [bp |-> h, ok |-> TRUE]
    BY <1>1 DEF GetPageOn
  <2>2. RemoveAt(b.lru, FirstIndex(b.lru, p)) \in Seq(PageIds)
    BY RemoveAtSeq DEF Faithful, BPRec
  <2>5. <<p>> \o RemoveAt(b.lru, FirstIndex(b.lru, p)) \in Seq(PageIds)
    BY <1>1, <2>2
  <2>3. /\ h \in BPRec
        /\ h.pool = b.pool /\ h.dirty = b.dirty /\ h.disk = b.disk
    BY <2>5 DEF Faithful, BPRec
  <2>4. Faithful(h, lat)
    BY <2>3 DEF Faithful, Cached
  <2>6. GetPageOn(b, p).bp = h /\ GetPageOn(b, p).ok
    BY <2>1
  <2>. QED
    BY <1>1, <2>3, <2>4, <2>6
<1>2. CASE ~(p \in PageIds /\ b.pool[p] # NoPage)
  <2>1. GetPageOn(b, p) = LoadPageOn(b, p)
    BY <1>2 DEF GetPageOn
  <2>. QED
    BY <1>2, <2>1, LoadPageFaithful
<1>. QED
  BY <1>1, <1>2

(* Caching content x as the dirty page id keeps the pool faithful to the  *)
(* contents in which id's is x: the last step of allocate_page, and the   *)
(* writer's change through its Page* followed by mark_dirty.  d is the    *)
(* resulting state, whatever its LRU list.                                  *)
LEMMA DirtyPageFaithful ==
  ASSUME NEW b, NEW lat, NEW id \in PageIds, NEW x \in PageVal,
         NEW d \in BPRec, Faithful(b, lat),
         d.pool = [b.pool EXCEPT ![id] = x], d.dirty = b.dirty \cup {id},
         d.disk = b.disk
  PROVE  Faithful(d, [lat EXCEPT ![id] = x])
<1>. DEFINE l2 == [lat EXCEPT ![id] = x]
<1>1. x # NoPage
  BY NoPageAssumption
<1>4. l2 \in [PageIds -> PV]
  BY DEF Faithful, PV
<1>5. d.dirty \subseteq Cached(d)
  BY <1>1 DEF Faithful, BPRec, Cached
<1>6. \A p \in PageIds : d.pool[p] # NoPage => d.pool[p] = l2[p]
  BY DEF Faithful, BPRec
<1>7. \A p \in PageIds : d.pool[p] # NoPage /\ p \notin d.dirty =>
                           d.disk[p] = d.pool[p]
  BY DEF Faithful, BPRec
<1>8. \A p \in PageIds : d.pool[p] = NoPage => d.disk[p] = l2[p]
  BY <1>1 DEF Faithful, BPRec
<1>. QED
  BY <1>4, <1>5, <1>6, <1>7, <1>8 DEF Faithful

\* flush_page keeps the pool faithful.
LEMMA FlushPageFaithful ==
  ASSUME NEW b, NEW lat, NEW p, Faithful(b, lat)
  PROVE  Faithful(FlushPageOn(b, p), lat)
<1>1. CASE p \in b.dirty
  <2>. DEFINE f == [WritePageOn(b, p) EXCEPT !.dirty = @ \ {p}]
  <2>1. p \in PageIds /\ b.pool[p] # NoPage /\ b.pool[p] \in PV
    BY <1>1 DEF Faithful, Cached, BPRec
  <2>2. [b.disk EXCEPT ![p] = b.pool[p]] \in [PageIds -> PV]
    BY <2>1 DEF Faithful, BPRec
  <2>3. /\ f \in BPRec
        /\ f.pool = b.pool /\ f.dirty = b.dirty \ {p}
        /\ f.disk = [b.disk EXCEPT ![p] = b.pool[p]]
    BY <2>2 DEF WritePageOn, Faithful, BPRec
  <2>4. Faithful(f, lat)
    <3>1. f.dirty \subseteq Cached(f)
      BY <2>3 DEF Faithful, Cached
    <3>2. \A pp \in PageIds : f.pool[pp] # NoPage /\ pp \notin f.dirty =>
                               f.disk[pp] = f.pool[pp]
      BY <2>1, <2>3 DEF Faithful, BPRec
    <3>3. \A pp \in PageIds : f.pool[pp] = NoPage => f.disk[pp] = lat[pp]
      BY <2>1, <2>3 DEF Faithful, BPRec
    <3>. QED
      BY <2>3, <3>1, <3>2, <3>3 DEF Faithful
  <2>5. FlushPageOn(b, p) = f
    BY <1>1, Zenon DEF FlushPageOn
  <2>. QED
    BY <2>4, <2>5
<1>2. CASE p \notin b.dirty
  BY <1>2 DEF FlushPageOn
<1>. QED
  BY <1>1, <1>2

\* flush_all keeps the pool faithful.
LEMMA FlushAllFaithful ==
  ASSUME NEW b, NEW lat, Faithful(b, lat)
  PROVE  Faithful(FlushAllOn(b), lat)
<1>. DEFINE dk == [p \in PageIds |->
                     IF p \in b.dirty THEN b.pool[p] ELSE b.disk[p]]
            f == FlushAllOn(b)
<1>1. dk \in [PageIds -> PV]
  BY DEF Faithful, BPRec
<1>2. /\ f \in BPRec
      /\ f.pool = b.pool /\ f.dirty = {} /\ f.disk = dk
  BY <1>1 DEF FlushAllOn, Faithful, BPRec
<1>. QED
  BY <1>2 DEF Faithful, Cached

(* close keeps the pool faithful: what was cached, dirty or clean, is in   *)
(* the file afterwards.                                                     *)
LEMMA CloseFaithful ==
  ASSUME NEW b, NEW lat, Faithful(b, lat)
  PROVE  Faithful(CloseOn(b), lat)
<1>. DEFINE f == FlushAllOn(b)
            c == CloseOn(b)
<1>0. Faithful(f, lat)
  BY FlushAllFaithful
<1>1. Faithful(f, lat) /\ f.pool = b.pool /\ f.dirty = {}
  BY <1>0 DEF FlushAllOn, Faithful, BPRec
<1>2. /\ [p \in PageIds |-> NoPage] \in [PageIds -> PV]
      /\ << >> \in Seq(PageIds)
  BY DEF PV
<1>5. f \in BPRec
  BY <1>1 DEF Faithful
<1>3. /\ c \in BPRec
      /\ c.pool = [p \in PageIds |-> NoPage] /\ c.dirty = {} /\ c.disk = f.disk
  BY <1>1, <1>2, <1>5 DEF CloseOn, BPRec
<1>4. \A p \in PageIds : c.disk[p] = lat[p]
  <2> SUFFICES ASSUME NEW p \in PageIds PROVE f.disk[p] = lat[p]
    BY <1>3
  <2>1. CASE f.pool[p] = NoPage
    BY <1>1, <2>1 DEF Faithful
  <2>2. CASE f.pool[p] # NoPage
    BY <1>1, <2>2 DEF Faithful
  <2>. QED
    BY <2>1, <2>2
<1>. QED
  BY <1>1, <1>3, <1>4 DEF Faithful, Cached

-----------------------------------------------------------------------------
(* The steps of the executor and of the pool's other clients.              *)

\* The pool is faithful to the writer's contents.
IInv == Faithful(bp, latest)

\* A new PageManager over an empty table file is faithful.
LEMMA InitIInv == ExInit => IInv
BY DEF ExInit, Init, FreshPoolOn, IInv, Faithful, BPRec, PV, Cached

(* The writer's step: get_page(p), append v through the pointer,          *)
(* mark_dirty(p).                                                          *)
LEMMA WriteRowIInv ==
  ASSUME IInv, NEW p \in PageIds, NEW v \in Vals, WriteRow(p, v)
  PROVE  IInv'
<1>. DEFINE g == GetPageOn(bp, p)
            pg == g.bp.pool[p]
            new == [pg EXCEPT !.slots = Append(@, v)]
            s1 == SetPageOn(g.bp, p, new)
<1>1. /\ Faithful(g.bp, latest)
      /\ g.ok => p \in PageIds /\ g.bp.pool[p] # NoPage
  BY GetPageFaithful DEF IInv
<1>2. /\ g.ok
      /\ bp' = MarkDirtyOn(s1, p)
      /\ latest' = [latest EXCEPT ![p] = new]
  BY DEF WriteRow
<1>3. pg \in PageVal
  BY <1>1, <1>2 DEF Faithful, BPRec, PV
<1>4. new \in PageVal /\ new # NoPage
  <2>2. Append(pg.slots, v) \in Seq(Vals \cup {DEL})
    BY <1>3 DEF PageVal
  <2>1. new \in PageVal
    BY <1>3, <2>2 DEF PageVal
  <2>. QED
    BY <2>1, NoPageAssumption
<1>5. /\ s1 \in BPRec
      /\ s1.pool = [g.bp.pool EXCEPT ![p] = new]
      /\ s1.dirty = g.bp.dirty /\ s1.disk = g.bp.disk
  BY <1>1, <1>4 DEF SetPageOn, Faithful, BPRec, PV
<1>6. bp' = [s1 EXCEPT !.dirty = @ \cup {p}]
  <2>1. s1.pool[p] # NoPage
    BY <1>1, <1>4, <1>5 DEF Faithful, BPRec
  <2>. QED
    BY <1>2, <2>1 DEF MarkDirtyOn
<1>7. /\ bp' \in BPRec
      /\ bp'.pool = [g.bp.pool EXCEPT ![p] = new]
      /\ bp'.dirty = g.bp.dirty \cup {p} /\ bp'.disk = g.bp.disk
  BY <1>5, <1>6 DEF BPRec
<1>. QED
  BY <1>1, <1>2, <1>4, <1>7, DirtyPageFaithful DEF IInv

(* allocate_page: evict while full, then cache an empty dirty page at      *)
(* next_page_id_.                                                          *)
LEMMA AllocateIInv ==
  ASSUME IInv, allocate_page
  PROVE  IInv'
<1>. DEFINE id == next_page_id
            r == MakeRoomOn(bp)
<1>1. id \in PageIds /\ bp' = AllocateOn(bp, id)
      /\ latest' = [latest EXCEPT ![id] = EmptyPage]
  BY DEF allocate_page
<1>2. Faithful(r, latest)
  BY MakeRoomFaithful DEF IInv
<1>3. EmptyPage \in PageVal
  BY DEF EmptyPage, PageVal
<1>4. <<id>> \o r.lru \in Seq(PageIds)
  BY <1>1, <1>2 DEF Faithful, BPRec
<1>5. [r.pool EXCEPT ![id] = EmptyPage] \in [PageIds -> PV]
  BY <1>2, <1>3 DEF Faithful, BPRec, PV
<1>6. /\ bp' \in BPRec
      /\ bp'.pool = [r.pool EXCEPT ![id] = EmptyPage]
      /\ bp'.dirty = r.dirty \cup {id} /\ bp'.disk = r.disk
  BY <1>1, <1>2, <1>4, <1>5 DEF AllocateOn, Faithful, BPRec
<1>. QED
  BY <1>1, <1>2, <1>3, <1>6, DirtyPageFaithful DEF IInv

(* TableScanOperator::next changes the pool only by the get_page of the   *)
(* next page, and never the writer's contents.                             *)
LEMMA ScanStepPool ==
  ASSUME NEW s, ScanStep(s)
  PROVE  /\ bp' = bp \/ bp' = GetPageOn(bp, held[s] + 1).bp
         /\ latest' = latest
BY Zenon DEF ScanStep

\* Every step of the executor and of the other clients keeps IInv.
LEMMA NextIInv == IInv /\ [ExNext]_exVars => IInv'
<1> SUFFICES ASSUME IInv, [ExNext]_exVars PROVE IInv'
  OBVIOUS
<1>1. CASE UNCHANGED exVars
  BY <1>1 DEF exVars, IInv
<1>2. CASE \E s \in Scans, pl \in Plans : execute(s, pl)
  <2>1. bp' = GetPageOn(bp, 0).bp /\ latest' = latest
    BY <1>2 DEF execute
  <2>. QED
    BY <2>1, GetPageFaithful DEF IInv
<1>3. CASE \E s \in Scans : NextCall(s) \/ Tick(s)
  <2>1. bp' = bp /\ latest' = latest
    BY <1>3 DEF NextCall, Tick
  <2>. QED
    BY <2>1 DEF IInv
<1>4. CASE \E s \in Scans : ScanStep(s)
  <2>1. PICK s \in Scans : ScanStep(s)
    BY <1>4
  <2>2. /\ bp' = bp \/ bp' = GetPageOn(bp, held[s] + 1).bp
        /\ latest' = latest
    BY <2>1, ScanStepPool
  <2>3. Faithful(GetPageOn(bp, held[s] + 1).bp, latest)
    BY GetPageFaithful DEF IInv
  <2>. QED
    BY <2>2, <2>3 DEF IInv
<1>5. CASE Others
  <2>1. CASE \E p \in PageIds, v \in Vals : WriteRow(p, v)
    BY <2>1, WriteRowIInv
  <2>2. CASE allocate_page
    BY <2>2, AllocateIInv
  <2>3. CASE \E p \in PageIds : flush_page(p)
    BY <2>3, FlushPageFaithful DEF flush_page, IInv
  <2>4. CASE flush_all
    BY <2>4, FlushAllFaithful DEF flush_all, IInv
  <2>5. CASE close
    BY <2>5, CloseFaithful DEF close, IInv
  <2>. QED
    BY <1>5, <2>1, <2>2, <2>3, <2>4, <2>5 DEF Others
<1>. QED
  BY <1>1, <1>2, <1>3, <1>4, <1>5 DEF ExNext

\* IInv holds in every reachable state.
THEOREM IInvHolds == ExSpec => []IInv
BY InitIInv, NextIInv, PTL DEF ExSpec

-----------------------------------------------------------------------------
(* The pool's bound (BufferPoolBound, spec 8.9).  The eviction loop of     *)
(* load_page and allocate_page removes a page only if evict_page finds a   *)
(* node of lru_list_ whose key is cached, so the bound needs every cached  *)
(* page to have a node in the list (Covered), and a finite cache to count. *)

\* Every cached page has a node in the LRU list.
Covered(b) == \A p \in Cached(b) : \E j \in 1 .. Len(b.lru) : b.lru[j] = p

\* The cache is finite and holds at most max_pages_ pages.
Bounded(b) == IsFiniteSet(Cached(b)) /\ Cardinality(Cached(b)) <= MaxPages

BIInv == IInv /\ Covered(bp) /\ Bounded(bp)

\* A faithful pool loses no write.
LEMMA IInvNoLostWrite == IInv => NoLostWrite
BY DEF IInv, Faithful, NoLostWrite, View

(* No write is lost, for every set of page ids, capacity and plans: under *)
(* the executor's queries, the writer, allocate_page, flush_page,         *)
(* flush_all and close, the copy of each page that get_page would return  *)
(* (cached, or read from the file by load_page after evict_page wrote it  *)
(* back) is the one the writer last produced.                              *)
THEOREM NoLostWriteHolds == ExSpec => []NoLostWrite
BY IInvHolds, IInvNoLostWrite, PTL

-----------------------------------------------------------------------------
(* Lemmas about positions in the LRU list.                                 *)

\* A non-empty set of naturals has a least element.
LEMMA LeastNat ==
  ASSUME NEW T \in SUBSET Nat, T # {}
  PROVE  \E x \in T : \A y \in T : x <= y
<1>1. PICK x \in T : \A y \in T : ~(<<y, x>> \in OpToRel(<, Nat))
  BY WFMin, NatLessThanWellFounded, Zenon
<1>2. \A y \in T : ~(y < x)
  <2>1. SUFFICES ASSUME NEW y \in T, y < x PROVE FALSE
    OBVIOUS
  <2>2. <<y, x>> \in OpToRel(<, Nat)
    BY <2>1 DEF OpToRel
  <2>. QED
    BY <1>1, <2>2, Zenon
<1>. QED
  BY <1>2

\* A non-empty set of list positions has a greatest one: evict_page's scan
\* from the back of lru_list_ stops at one.
LEMMA GreatestIndex ==
  ASSUME NEW n \in Nat, NEW S \in SUBSET (1 .. n), S # {}
  PROVE  \E j \in S : \A l \in S : l <= j
<1>. DEFINE T == {n - l : l \in S}
<1>1. \A l \in S : n - l \in Nat
  OBVIOUS
<1>2. T \in SUBSET Nat
  BY <1>1
<1>3. T # {}
  OBVIOUS
<1>4. PICK x \in T : \A y \in T : x <= y
  BY <1>2, <1>3, LeastNat
<1>5. PICK j \in S : x = n - j
  BY <1>4
<1>6. \A l \in S : n - j <= n - l
  BY <1>4, <1>5
<1>. QED
  BY <1>6

(* lru_map_[p] names the front-most node of p: when p has a node,         *)
(* FirstIndex finds it.                                                    *)
LEMMA FirstIndexFound ==
  ASSUME NEW s \in Seq(PageIds), NEW k, \E j \in 1 .. Len(s) : s[j] = k
  PROVE  FirstIndex(s, k) \in 1 .. Len(s) /\ s[FirstIndex(s, k)] = k
<1>. DEFINE T == {j \in 1 .. Len(s) : s[j] = k}
<1>0. T \in SUBSET Nat /\ T # {}
  OBVIOUS
<1>1. PICK x \in T : \A y \in T : x <= y
  BY <1>0, LeastNat
<1>2. x \in 1 .. Len(s) /\ s[x] = k /\ \A j \in 1 .. x - 1 : s[j] # k
  BY <1>1
<1>3. \E i \in 1 .. Len(s) : s[i] = k /\ \A j \in 1 .. i - 1 : s[j] # k
  BY <1>2
<1>. QED
  BY <1>3, Zenon DEF FirstIndex

(* Removing node i of the list keeps every other node, one place earlier  *)
(* if it was behind i.                                                      *)
LEMMA RemoveAtKeeps ==
  ASSUME NEW s \in Seq(PageIds), NEW i \in 1 .. Len(s), NEW j \in 1 .. Len(s),
         j # i
  PROVE  \E m \in 1 .. Len(RemoveAt(s, i)) : RemoveAt(s, i)[m] = s[j]
<1>1. Len(RemoveAt(s, i)) = Len(s) - 1
  BY RemoveAtSeq DEF RemoveAt
<1>2. CASE j < i
  BY <1>1, <1>2 DEF RemoveAt
<1>3. CASE j > i
  <2>1. j - 1 \in 1 .. Len(s) - 1 /\ ~(j - 1 < i)
    BY <1>3
  <2>2. RemoveAt(s, i)[j - 1] = s[j]
    BY <2>1 DEF RemoveAt
  <2>. QED
    BY <1>1, <2>1, <2>2
<1>. QED
  BY <1>2, <1>3

\* Pushing a node at the front keeps every node, one place later.
LEMMA PushFrontKeeps ==
  ASSUME NEW s \in Seq(PageIds), NEW p \in PageIds
  PROVE  /\ <<p>> \o s \in Seq(PageIds)
         /\ Len(<<p>> \o s) = Len(s) + 1
         /\ (<<p>> \o s)[1] = p
         /\ \A j \in 1 .. Len(s) : (<<p>> \o s)[j + 1] = s[j]
OBVIOUS

-----------------------------------------------------------------------------
(* What the transformers do to the set of cached pages and the LRU list.  *)

\* The victim step clears the victim's pool entry and removes node i.
LEMMA EvictStepFields ==
  ASSUME NEW b \in BPRec, NEW k, NEW i
  PROVE  /\ EvictStep(b, k, i).pool = [b.pool EXCEPT ![k] = NoPage]
         /\ EvictStep(b, k, i).lru = RemoveAt(b.lru, i)
<1>. DEFINE w == IF k \in b.dirty THEN WritePageOn(b, k) ELSE b
<1>1. w \in BPRec /\ w.pool = b.pool /\ w.lru = b.lru
  <2>1. CASE k \in b.dirty
    <3>1. k \in PageIds /\ b.pool[k] \in PV
      BY <2>1 DEF BPRec
    <3>2. w = [b EXCEPT !.disk = [b.disk EXCEPT ![k] = b.pool[k]]]
      BY <2>1 DEF WritePageOn
    <3>3. [b.disk EXCEPT ![k] = b.pool[k]] \in [PageIds -> PV]
      BY <3>1 DEF BPRec
    <3>. QED
      BY <3>2, <3>3 DEF BPRec
  <2>2. CASE k \notin b.dirty
    BY <2>2
  <2>. QED
    BY <2>1, <2>2
<1>. QED
  BY <1>1 DEF EvictStep, BPRec

(* When some page is cached, evict_page drops exactly one cached page and *)
(* every other cached page keeps a node in the list.                       *)
LEMMA EvictBound ==
  ASSUME NEW b, NEW lat, Faithful(b, lat), Covered(b),
         IsFiniteSet(Cached(b)), Cached(b) # {}
  PROVE  /\ Covered(EvictOn(b))
         /\ IsFiniteSet(Cached(EvictOn(b)))
         /\ Cardinality(Cached(EvictOn(b))) = Cardinality(Cached(b)) - 1
<1>. DEFINE live == {j \in 1 .. Len(b.lru) : b.pool[b.lru[j]] # NoPage}
<1>1. b.lru \in Seq(PageIds) /\ b.pool \in [PageIds -> PV]
  BY DEF Faithful, BPRec
<1>2. live # {}
  <2>1. PICK p \in Cached(b) : TRUE
    OBVIOUS
  <2>2. PICK j \in 1 .. Len(b.lru) : b.lru[j] = p
    BY <2>1 DEF Covered
  <2>. QED
    BY <2>1, <2>2 DEF Cached
<1>3. \E j \in live : \A l \in live : l <= j
  <2>1. \A n \in Nat : \A S \in SUBSET (1 .. n) :
          S # {} => \E j \in S : \A l \in S : l <= j
    BY GreatestIndex
  <2>2. Len(b.lru) \in Nat /\ live \in SUBSET (1 .. Len(b.lru))
    BY <1>1
  <2>. QED
    BY <1>2, <2>1, <2>2
<1>4. PICK i : i = CHOOSE j \in live : \A l \in live : l <= j
  OBVIOUS
<1>5. i \in live
  BY <1>3, <1>4
<1>6. PICK k : k = b.lru[i]
  OBVIOUS
<1>7. EvictOn(b) = EvictStep(b, k, i)
  <2>. DEFINE ci == CHOOSE j \in live : \A l \in live : l <= j
  <2>1. EvictOn(b) = EvictStep(b, b.lru[ci], ci)
    BY <1>2, Zenon DEF EvictOn, EvictStep
  <2>. QED
    BY <1>4, <1>6, <2>1
<1>8. EvictStep(b, k, i).pool = [b.pool EXCEPT ![k] = NoPage]
      /\ EvictStep(b, k, i).lru = RemoveAt(b.lru, i)
  <2>1. b \in BPRec
    BY DEF Faithful
  <2>. QED
    BY <2>1, EvictStepFields
<1>9. k \in Cached(b) /\ i \in 1 .. Len(b.lru)
  BY <1>1, <1>5, <1>6 DEF Cached
<1>10. Cached(EvictStep(b, k, i)) = Cached(b) \ {k}
  BY <1>1, <1>8, <1>9 DEF Cached
<1>11. /\ IsFiniteSet(Cached(b) \ {k})
       /\ Cardinality(Cached(b) \ {k}) = Cardinality(Cached(b)) - 1
  BY <1>9, FS_RemoveElement
<1>12. Covered(EvictStep(b, k, i))
  <2> SUFFICES ASSUME NEW p \in Cached(b) \ {k}
               PROVE  \E m \in 1 .. Len(RemoveAt(b.lru, i)) :
                        RemoveAt(b.lru, i)[m] = p
    BY <1>8, <1>10 DEF Covered
  <2>1. PICK j \in 1 .. Len(b.lru) : b.lru[j] = p
    BY DEF Covered
  <2>2. j # i
    BY <1>6, <2>1
  <2>3. \E m \in 1 .. Len(RemoveAt(b.lru, i)) : RemoveAt(b.lru, i)[m] = b.lru[j]
    BY <1>1, <1>9, <2>2, RemoveAtKeeps
  <2>. QED
    BY <2>1, <2>3
<1>. QED
  BY <1>7, <1>10, <1>11, <1>12

(* The eviction loop leaves room for one more page: after it the cache    *)
(* holds fewer than max_pages_ pages, each with a node in the list.        *)
LEMMA MakeRoomBound ==
  ASSUME NEW b, NEW lat, Faithful(b, lat), Covered(b), Bounded(b)
  PROVE  /\ Covered(MakeRoomOn(b))
         /\ IsFiniteSet(Cached(MakeRoomOn(b)))
         /\ Cardinality(Cached(MakeRoomOn(b))) < MaxPages
<1>1. Cardinality(Cached(b)) \in Nat
  BY FS_CardinalityType DEF Bounded
<1>2. CASE Cardinality(Cached(b)) >= MaxPages
  <2>1. Cardinality(Cached(b)) = MaxPages /\ Cached(b) # {}
    <3>1. Cardinality(Cached(b)) = MaxPages
      BY <1>1, <1>2 DEF Bounded
    <3>2. Cardinality(Cached(b)) # 0
      BY <3>1
    <3>. QED
      BY <3>1, <3>2, FS_EmptySet
  <2>2. MakeRoomOn(b) = EvictOn(b)
    BY <1>2 DEF MakeRoomOn
  <2>. QED
    BY <2>1, <2>2, EvictBound DEF Bounded
<1>3. CASE ~(Cardinality(Cached(b)) >= MaxPages)
  <2>1. MakeRoomOn(b) = b
    BY <1>3 DEF MakeRoomOn
  <2>. QED
    BY <1>1, <1>3, <2>1 DEF Bounded
<1>. QED
  BY <1>2, <1>3

(* Caching page p with a new node at the front of the list, after the     *)
(* eviction loop has left room: the cache stays covered and bounded.       *)
LEMMA PushFrontBound ==
  ASSUME NEW r \in BPRec, NEW l, NEW p \in PageIds, NEW x, x # NoPage,
         l.pool = [r.pool EXCEPT ![p] = x], l.lru = <<p>> \o r.lru,
         Covered(r), IsFiniteSet(Cached(r)), Cardinality(Cached(r)) < MaxPages
  PROVE  Covered(l) /\ Bounded(l)
<1>1. Cached(l) = Cached(r) \cup {p}
  BY DEF Cached, BPRec
<1>2. /\ IsFiniteSet(Cached(r) \cup {p})
      /\ Cardinality(Cached(r) \cup {p}) =
           IF p \in Cached(r) THEN Cardinality(Cached(r))
           ELSE Cardinality(Cached(r)) + 1
  BY FS_AddElement
<1>3. Cardinality(Cached(r)) \in Nat
  BY FS_CardinalityType
<1>4. Cardinality(Cached(r) \cup {p}) <= MaxPages
  BY <1>2, <1>3
<1>6. Bounded(l)
  BY <1>1, <1>2, <1>4 DEF Bounded
<1>5. Covered(l)
  <2> SUFFICES ASSUME NEW o \in Cached(r) \cup {p}
               PROVE  \E m \in 1 .. Len(<<p>> \o r.lru) : (<<p>> \o r.lru)[m] = o
    BY <1>1 DEF Covered
  <2>1. r.lru \in Seq(PageIds)
    BY DEF BPRec
  <2>2. CASE o = p
    BY <2>1, <2>2, PushFrontKeeps
  <2>3. CASE o \in Cached(r) /\ o # p
    <3>1. PICK j \in 1 .. Len(r.lru) : r.lru[j] = o
      BY <2>3 DEF Covered
    <3>2. j + 1 \in 1 .. Len(<<p>> \o r.lru) /\ (<<p>> \o r.lru)[j + 1] = o
      BY <2>1, <3>1, PushFrontKeeps
    <3>. QED
      BY <3>2
  <2>. QED
    BY <2>2, <2>3
<1>. QED
  BY <1>5, <1>6

\* get_page keeps the cache covered and bounded.
LEMMA GetPageBound ==
  ASSUME NEW b, NEW lat, NEW p, Faithful(b, lat), Covered(b), Bounded(b)
  PROVE  Covered(GetPageOn(b, p).bp) /\ Bounded(GetPageOn(b, p).bp)
<1>0. b \in BPRec /\ b.lru \in Seq(PageIds)
  BY DEF Faithful, BPRec
<1>1. CASE p \in PageIds /\ b.pool[p] # NoPage
  <2>. DEFINE f == FirstIndex(b.lru, p)
              t == RemoveAt(b.lru, f)
              h == [b EXCEPT !.lru = <<p>> \o t]
  <2>1. GetPageOn(b, p).bp = h
    BY <1>1 DEF GetPageOn
  <2>2. f \in 1 .. Len(b.lru) /\ b.lru[f] = p
    <3>1. \E j \in 1 .. Len(b.lru) : b.lru[j] = p
      BY <1>1 DEF Covered, Cached
    <3>. QED
      BY <1>0, <3>1, FirstIndexFound
  <2>3. t \in Seq(PageIds)
    BY <1>0, RemoveAtSeq
  <2>4. h.pool = b.pool /\ h.lru = <<p>> \o t
    BY <1>0 DEF BPRec
  <2>5. Cached(h) = Cached(b)
    BY <2>4 DEF Cached
  <2>6. Covered(h)
    <3> SUFFICES ASSUME NEW o \in Cached(b)
                 PROVE  \E m \in 1 .. Len(<<p>> \o t) : (<<p>> \o t)[m] = o
      BY <2>4, <2>5 DEF Covered
    <3>1. CASE o = p
      BY <1>1, <2>3, <3>1, PushFrontKeeps
    <3>2. CASE o # p
      <4>1. PICK j \in 1 .. Len(b.lru) : b.lru[j] = o
        BY DEF Covered
      <4>2. j # f
        BY <2>2, <3>2, <4>1
      <4>3. PICK m \in 1 .. Len(t) : t[m] = o
        BY <1>0, <2>2, <4>1, <4>2, RemoveAtKeeps
      <4>4. m + 1 \in 1 .. Len(<<p>> \o t) /\ (<<p>> \o t)[m + 1] = o
        BY <1>1, <2>3, <4>3, PushFrontKeeps
      <4>. QED
        BY <4>4
    <3>. QED
      BY <3>1, <3>2
  <2>. QED
    BY <2>1, <2>5, <2>6 DEF Bounded
<1>2. CASE ~(p \in PageIds /\ b.pool[p] # NoPage)
  <2>. DEFINE r == MakeRoomOn(b)
              l == [r EXCEPT !.pool[p] = r.disk[p], !.lru = <<p>> \o @]
  <2>1. GetPageOn(b, p) = LoadPageOn(b, p)
    BY <1>2 DEF GetPageOn
  <2>2. /\ Covered(r) /\ IsFiniteSet(Cached(r))
        /\ Cardinality(Cached(r)) < MaxPages
    BY MakeRoomBound
  <2>3. Faithful(r, lat)
    BY MakeRoomFaithful
  <2>4. CASE p \notin PageIds \/ r.disk[p] = NoPage
    <3>1. LoadPageOn(b, p).bp = r
      BY <2>4 DEF LoadPageOn
    <3>2. Cardinality(Cached(r)) <= MaxPages
      BY <2>2, FS_CardinalityType
    <3>. QED
      BY <2>1, <2>2, <3>1, <3>2 DEF Bounded
  <2>5. CASE p \in PageIds /\ r.disk[p] # NoPage
    <3>1. LoadPageOn(b, p).bp = l
      BY <2>5 DEF LoadPageOn
    <3>2. r \in BPRec
      BY <2>3 DEF Faithful
    <3>3. l.pool = [r.pool EXCEPT ![p] = r.disk[p]] /\ l.lru = <<p>> \o r.lru
      BY <3>2 DEF BPRec
    <3>4. Covered(l) /\ Bounded(l)
      <4>1. PICK rr, ll, x : rr = r /\ ll = l /\ x = r.disk[p]
        OBVIOUS
      <4>2. /\ rr \in BPRec /\ p \in PageIds /\ x # NoPage
            /\ ll.pool = [rr.pool EXCEPT ![p] = x] /\ ll.lru = <<p>> \o rr.lru
            /\ Covered(rr) /\ IsFiniteSet(Cached(rr))
            /\ Cardinality(Cached(rr)) < MaxPages
        BY <2>2, <2>5, <3>2, <3>3, <4>1
      <4>3. Covered(ll) /\ Bounded(ll)
        BY <4>2, PushFrontBound
      <4>. QED
        BY <4>1, <4>3
    <3>. QED
      BY <2>1, <3>1, <3>4
  <2>. QED
    BY <2>4, <2>5
<1>. QED
  BY <1>1, <1>2

(* A state whose pool and LRU list are those of a covered, bounded state  *)
(* is covered and bounded: flush_page, flush_all and mark_dirty touch only *)
(* the dirty bits and the file.                                            *)
LEMMA SameCacheBound ==
  ASSUME NEW b, NEW c, c.pool = b.pool, c.lru = b.lru, Covered(b), Bounded(b)
  PROVE  Covered(c) /\ Bounded(c)
BY DEF Covered, Bounded, Cached

\* The writer's change and mark_dirty keep the cache covered and bounded.
LEMMA WriteRowBound ==
  ASSUME BIInv, NEW p \in PageIds, NEW v \in Vals, WriteRow(p, v)
  PROVE  Covered(bp') /\ Bounded(bp')
<1>. DEFINE g == GetPageOn(bp, p)
            pg == g.bp.pool[p]
            new == [pg EXCEPT !.slots = Append(@, v)]
            s1 == SetPageOn(g.bp, p, new)
<1>1. /\ Faithful(g.bp, latest)
      /\ g.ok => p \in PageIds /\ g.bp.pool[p] # NoPage
  BY GetPageFaithful DEF BIInv, IInv
<1>2. Covered(g.bp) /\ Bounded(g.bp)
  BY GetPageBound DEF BIInv, IInv
<1>3. g.ok /\ bp' = MarkDirtyOn(s1, p)
  BY DEF WriteRow
<1>4. g.bp \in BPRec /\ pg # NoPage
  BY <1>1, <1>3 DEF Faithful
<1>5. new \in PageVal /\ new # NoPage
  <2>1. pg \in PageVal
    BY <1>1, <1>4 DEF Faithful, BPRec, PV
  <2>2. Append(pg.slots, v) \in Seq(Vals \cup {DEL})
    BY <2>1 DEF PageVal
  <2>3. new \in PageVal
    BY <2>1, <2>2 DEF PageVal
  <2>. QED
    BY <2>3, NoPageAssumption
<1>6. s1.pool = [g.bp.pool EXCEPT ![p] = new] /\ s1.lru = g.bp.lru
      /\ s1.pool[p] # NoPage
  BY <1>4, <1>5 DEF SetPageOn, BPRec
<1>7. bp'.pool = s1.pool /\ bp'.lru = s1.lru
  <2>1. bp' = [s1 EXCEPT !.dirty = @ \cup {p}]
    BY <1>3, <1>6 DEF MarkDirtyOn
  <2>2. s1 \in [pool : [PageIds -> PV], dirty : SUBSET PageIds,
                lru : Seq(PageIds), disk : [PageIds -> PV]]
    <3>1. new \in PV
      BY <1>5 DEF PV
    <3>. QED
      BY <1>4, <3>1 DEF SetPageOn, BPRec
  <2>. QED
    BY <2>1, <2>2
<1>8. Cached(bp') = Cached(g.bp) /\ bp'.lru = g.bp.lru
  BY <1>1, <1>3, <1>4, <1>6, <1>7 DEF Cached, BPRec
<1>. QED
  BY <1>2, <1>8 DEF Covered, Bounded

\* allocate_page makes room, then caches the new page at the LRU front.
LEMMA AllocateBound ==
  ASSUME BIInv, allocate_page
  PROVE  Covered(bp') /\ Bounded(bp')
<1>. DEFINE id == next_page_id
            r == MakeRoomOn(bp)
<1>1. id \in PageIds /\ bp' = AllocateOn(bp, id)
  BY DEF allocate_page
<1>2. Faithful(r, latest)
  BY MakeRoomFaithful DEF BIInv, IInv
<1>3. Covered(r) /\ IsFiniteSet(Cached(r)) /\ Cardinality(Cached(r)) < MaxPages
  BY MakeRoomBound DEF BIInv, IInv
<1>4. r \in BPRec /\ EmptyPage # NoPage
  <2>1. r \in BPRec
    BY <1>2 DEF Faithful
  <2>2. EmptyPage \in PageVal
    BY DEF EmptyPage, PageVal
  <2>. QED
    BY <2>1, <2>2, NoPageAssumption
<1>5. bp'.pool = [r.pool EXCEPT ![id] = EmptyPage] /\ bp'.lru = <<id>> \o r.lru
  BY <1>1, <1>4 DEF AllocateOn, BPRec
<1>6. PICK rr, ll, x : rr = r /\ ll = bp' /\ x = EmptyPage
  OBVIOUS
<1>7. /\ rr \in BPRec /\ id \in PageIds /\ x # NoPage
      /\ ll.pool = [rr.pool EXCEPT ![id] = x] /\ ll.lru = <<id>> \o rr.lru
      /\ Covered(rr) /\ IsFiniteSet(Cached(rr))
      /\ Cardinality(Cached(rr)) < MaxPages
  BY <1>1, <1>3, <1>4, <1>5, <1>6
<1>. QED
  BY <1>6, <1>7, PushFrontBound

\* flush_page and flush_all leave the pool and the LRU list alone.
LEMMA FlushBound ==
  ASSUME NEW b, NEW lat, NEW p, Faithful(b, lat), Covered(b), Bounded(b)
  PROVE  /\ Covered(FlushPageOn(b, p)) /\ Bounded(FlushPageOn(b, p))
         /\ Covered(FlushAllOn(b)) /\ Bounded(FlushAllOn(b))
<1>1. b \in BPRec
  BY DEF Faithful
<1>2. FlushPageOn(b, p).pool = b.pool /\ FlushPageOn(b, p).lru = b.lru
  BY <1>1 DEF FlushPageOn, WritePageOn, BPRec
<1>3. FlushAllOn(b).pool = b.pool /\ FlushAllOn(b).lru = b.lru
  BY <1>1 DEF FlushAllOn, BPRec
<1>. QED
  BY <1>2, <1>3, SameCacheBound

\* close empties the pool and the LRU list.
LEMMA CloseBound ==
  ASSUME NEW b, NEW lat, Faithful(b, lat)
  PROVE  Covered(CloseOn(b)) /\ Bounded(CloseOn(b))
<1>1. FlushAllOn(b) \in BPRec
  BY FlushAllFaithful DEF Faithful
<1>2. CloseOn(b).pool = [p \in PageIds |-> NoPage]
  BY <1>1 DEF CloseOn, BPRec
<1>3. Cached(CloseOn(b)) = {}
  BY <1>2 DEF Cached
<1>4. IsFiniteSet({}) /\ Cardinality({}) = 0
  BY FS_EmptySet
<1>5. 0 <= MaxPages
  BY BufferPoolAssumption
<1>. QED
  BY <1>3, <1>4, <1>5 DEF Covered, Bounded

\* A new PageManager caches nothing.
LEMMA InitBIInv == ExInit => BIInv
<1> SUFFICES ASSUME ExInit PROVE BIInv
  OBVIOUS
<1>1. IInv
  BY InitIInv
<1>2. Cached(bp) = {}
  BY DEF ExInit, Init, FreshPoolOn, Cached
<1>3. IsFiniteSet({}) /\ Cardinality({}) = 0 /\ 0 <= MaxPages
  BY FS_EmptySet, BufferPoolAssumption
<1>. QED
  BY <1>1, <1>2, <1>3 DEF BIInv, Covered, Bounded

\* Every step of the executor and of the other clients keeps BIInv.
LEMMA NextBIInv == BIInv /\ [ExNext]_exVars => BIInv'
<1> SUFFICES ASSUME BIInv, [ExNext]_exVars PROVE BIInv'
  OBVIOUS
<1>0. IInv'
  BY NextIInv DEF BIInv
<1>a. Faithful(bp, latest) /\ Covered(bp) /\ Bounded(bp)
  BY DEF BIInv, IInv
<1> SUFFICES Covered(bp') /\ Bounded(bp')
  BY <1>0 DEF BIInv
<1>1. CASE UNCHANGED exVars
  BY <1>1, <1>a DEF exVars, Covered, Bounded, Cached
<1>2. CASE \E s \in Scans, pl \in Plans : execute(s, pl)
  <2>1. bp' = GetPageOn(bp, 0).bp
    BY <1>2 DEF execute
  <2>. QED
    BY <1>a, <2>1, GetPageBound
<1>3. CASE \E s \in Scans : NextCall(s) \/ Tick(s)
  <2>1. bp' = bp
    BY <1>3 DEF NextCall, Tick
  <2>. QED
    BY <1>a, <2>1
<1>4. CASE \E s \in Scans : ScanStep(s)
  <2>1. PICK s \in Scans : ScanStep(s)
    BY <1>4
  <2>2. bp' = bp \/ bp' = GetPageOn(bp, held[s] + 1).bp
    BY <2>1, ScanStepPool
  <2>3. /\ Covered(GetPageOn(bp, held[s] + 1).bp)
        /\ Bounded(GetPageOn(bp, held[s] + 1).bp)
    BY <1>a, GetPageBound
  <2>. QED
    BY <1>a, <2>2, <2>3
<1>5. CASE Others
  <2>1. CASE \E p \in PageIds, v \in Vals : WriteRow(p, v)
    BY <2>1, WriteRowBound
  <2>2. CASE allocate_page
    BY <2>2, AllocateBound
  <2>3. CASE \E p \in PageIds : flush_page(p)
    BY <1>a, <2>3, FlushBound DEF flush_page
  <2>4. CASE flush_all
    BY <1>a, <2>4, FlushBound DEF flush_all
  <2>5. CASE close
    BY <1>a, <2>5, CloseBound DEF close
  <2>. QED
    BY <1>5, <2>1, <2>2, <2>3, <2>4, <2>5 DEF Others
<1>. QED
  BY <1>1, <1>2, <1>3, <1>4, <1>5 DEF ExNext

\* BIInv holds in every reachable state of the executor model.
THEOREM BIInvHolds == ExSpec => []BIInv
BY InitBIInv, NextBIInv, PTL DEF ExSpec

(* Buffer-pool bound (spec 8.9): page_count() never exceeds max_pages_.    *)
(* get_page and allocate_page call evict_page until the pool has room      *)
(* before load_page or Page::init adds a page, and the LRU list holds a    *)
(* node for every cached page, so a victim always exists; proved for every *)
(* max_pages_ >= 1 and every set of page ids.                             *)
THEOREM BufferPoolBoundHolds == ExSpec => []BufferPoolBound
<1>1. BIInv => BufferPoolBound
  BY DEF BIInv, Bounded, BufferPoolBound
<1>. QED
  BY BIInvHolds, <1>1, PTL
=============================================================================
