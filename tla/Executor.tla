------------------------------ MODULE Executor ------------------------------
(***************************************************************************)
(* SELECT execution (src/src/executor/executor.cpp) with the budgets of    *)
(* ExecutionContext (src/unnamed/part_012), composed with the buffer pool  *)
(* and its other clients (BufferPoolClients).  A query's operator tree is  *)
(* the one plan_select() builds (src/src/planner/planner.cpp):             *)
(* TableScan, then Filter for a WHERE clause, Sort for ORDER BY, and Limit *)
(* when LIMIT >= 0.  Execution is pull-based: the root next() of          *)
(* execute_select() reaches the scan through Limit, Sort and Filter.       *)
(*                                                                         *)
(* Every row value is NULL (TableScanOperator does not decode records and  *)
(* the predicate is always true), so a result is a number of rows.  The   *)
(* memory check of check_budget never fires, since no operator allocates   *)
(* from the QueryAllocator, and abort() has no caller; both are left out.  *)
(* The wall clock is the flag expired[s], which may become true at any     *)
(* time while a query runs.  QueryHandler::handle takes no lock; the      *)
(* writer, allocate_page and close are not modelled alongside queries,     *)
(* since no code path in the server calls them while a query runs.        *)
(***************************************************************************)
EXTENDS BufferPoolClients

CONSTANTS
  Plans,     \* the SELECT plans: [filter, sort : BOOLEAN, limit, offset]
  MaxRows,   \* QueryBudget::max_result_rows
  MaxInstr   \* QueryBudget::max_instructions

ASSUME ExecutorAssumption ==
  /\ MaxRows \in Nat /\ MaxInstr \in Nat
  /\ Plans # {}
  /\ \A pl \in Plans : /\ pl.filter \in BOOLEAN /\ pl.sort \in BOOLEAN
                      /\ pl.limit \in Int /\ pl.offset \in Nat

VARIABLES
  q,         \* each query's operators, context counters and result
  expired    \* the query's max_time has passed

exVars == <<bp, next_page_id, held, latest, q, expired>>

(* The state of one query.  st: "call" before a root next(), "scan" inside *)
(* TableScanOperator::next, "done" once execute() has returned.  slot is   *)
(* current_slot_; instr and rows_returned are the context's counters;      *)
(* skipped and returned are LimitOperator's, buf, pos and materialized are *)
(* SortOperator's; out is result.rows.size().  The ghost expect is the     *)
(* result the table held when the query started.                           *)
Query(pl, st) ==
  [plan |-> pl, st |-> st, slot |-> 0, instr |-> 0, rows_returned |-> 0,
   skipped |-> 0, returned |-> 0, buf |-> 0, pos |-> 0,
   materialized |-> FALSE, out |-> 0, success |-> FALSE,
   violation |-> "NONE", expect |-> 0]

HasLimit(pl) == pl.limit >= 0
Running == {s \in Scans : q[s].st \in {"call", "scan"}}

\* The rows of the table: the live slots of pages 0 .. next_page_id - 1.
TableRows ==
  Cardinality({pi \in (0 .. next_page_id - 1) \X (1 .. MaxSlots) :
                 /\ View(bp, pi[1]) # NoPage
                 /\ pi[2] <= Len(View(bp, pi[1]).slots)
                 /\ View(bp, pi[1]).slots[pi[2]] # DEL})

\* What the plan returns from n rows: all of them, or LIMIT after OFFSET.
Expected(pl, n) ==
  IF ~HasLimit(pl) THEN n
  ELSE IF n <= pl.offset THEN 0
  ELSE IF n - pl.offset < pl.limit THEN n - pl.offset ELSE pl.limit

(* check_budget(), in its order: time, instructions, returned rows; the    *)
(* first violation is the one thrown.                                      *)
check_budget(c, e) ==
  IF e THEN "TIMEOUT"
  ELSE IF c.instr >= MaxInstr THEN "INSTRUCTIONS_EXCEEDED"
  ELSE IF c.rows_returned >= MaxRows THEN "ROWS_EXCEEDED"
  ELSE "NONE"

-----------------------------------------------------------------------------
(* The continuations of a step of query s with operator state c.  Each     *)
(* sets q' and held'.                                                      *)

Continue(s, c) ==
  /\ q' = [q EXCEPT ![s] = c]
  /\ held' = held

\* Mutant: the failed query keeps its page pointer.
FailKeepsPage(s, c, v) ==
  /\ q' = [q EXCEPT ![s] = [c EXCEPT !.st = "done", !.success = FALSE,
                                     !.out = 0, !.violation = v]]
  /\ held' = held

\* A budget exception: execute() catches it and returns success = false
\* with no rows; the operator tree is destroyed without close().
Fail(s, c, v) ==
  /\ q' = [q EXCEPT ![s] = [c EXCEPT !.st = "done", !.success = FALSE,
                                     !.out = 0, !.violation = v]]
  /\ held' = [held EXCEPT ![s] = None]

\* The root next() returned false: op->close() drops the page pointer and
\* the sort buffer, and execute_select() reports success.
Finish(s, c) ==
  /\ q' = [q EXCEPT ![s] = [c EXCEPT !.st = "done", !.success = TRUE,
                                     !.buf = 0, !.pos = 0]]
  /\ held' = [held EXCEPT ![s] = None]

\* execute_select()'s loop body: push the row, then check_budget().
RootRow(s, c) ==
  LET c1 == [c EXCEPT !.out = @ + 1]
      v  == check_budget(c1, expired[s])
  IN  IF v # "NONE" THEN Fail(s, c1, v)
      ELSE Continue(s, [c1 EXCEPT !.st = "call"])

\* LimitOperator::next receives a row from its child: skipped while
\* skipped_ < offset_ (and it pulls again), otherwise returned.
LimitRow(s, c) ==
  IF ~HasLimit(c.plan) THEN RootRow(s, c)
  ELSE IF c.skipped < c.plan.offset
  THEN Continue(s, [c EXCEPT !.skipped = @ + 1, !.instr = @ + 1, !.st = "call"])
  ELSE RootRow(s, [c EXCEPT !.returned = @ + 1, !.rows_returned = @ + 1])

\* SortOperator::next after materializing: the next buffered row, if any.
SortNext(s, c) ==
  IF c.pos < c.buf THEN LimitRow(s, [c EXCEPT !.pos = @ + 1])
  ELSE Finish(s, c)

\* FilterOperator::next: each row from the child costs 5; the predicate is
\* always true, so the row is passed on.
FilterNext(c) ==
  IF c.plan.filter THEN [c EXCEPT !.instr = @ + 5] ELSE c

\* TableScanOperator::next returned a row and the Filter passed it on.  A
\* Sort that is materializing buffers it, charges 2, calls check_budget()
\* and pulls the next row.
ScanRow(s, c) ==
  LET c1 == FilterNext(c)
  IN  IF c1.plan.sort /\ ~c1.materialized
      THEN LET c2 == [c1 EXCEPT !.buf = @ + 1, !.instr = @ + 2]
               v  == check_budget(c2, expired[s])
           IN  IF v # "NONE" THEN Fail(s, c2, v)
               ELSE Continue(s, [c2 EXCEPT !.instr = @ + 1])
      ELSE LimitRow(s, c1)

\* TableScanOperator::next returned false.  A materializing Sort sorts its
\* buffer (cost 10 per row) and serves its first row.
ScanEnd(s, c) ==
  IF c.plan.sort /\ ~c.materialized
  THEN SortNext(s, [c EXCEPT !.materialized = TRUE, !.instr = @ + 10 * c.buf])
  ELSE Finish(s, c)
-----------------------------------------------------------------------------
(* The actions of a query.                                                 *)

(* execute(): ctx.start(), build_operator() for the plan, op->open():      *)
(* TableScanOperator::open takes page_ = get_page(0) (null for an empty    *)
(* table) and charges 10; Limit and Sort reset their state.                *)
execute(s, pl) ==
  /\ q[s].st \in {"idle", "done"}
  /\ LET g == GetPageOn(bp, 0)
     IN  /\ bp' = g.bp
         /\ held' = [held EXCEPT ![s] = IF g.ok THEN 0 ELSE None]
  /\ q' = [q EXCEPT ![s] = [Query(pl, "call") EXCEPT !.instr = 10,
                              !.expect = Expected(pl, TableRows)]]
  /\ expired' = [expired EXCEPT ![s] = FALSE]
  /\ UNCHANGED <<next_page_id, latest>>

\* Mutant: Limit stops only once more than limit rows are out.
NextCallLimitOffByOne(s) ==
  /\ q[s].st = "call"
  /\ LET c == q[s]
     IN  IF /\ HasLimit(c.plan)
            /\ c.skipped >= c.plan.offset
            /\ c.returned > c.plan.limit
         THEN Finish(s, c)
         ELSE IF c.plan.sort /\ c.materialized THEN SortNext(s, c)
         ELSE Continue(s, [c EXCEPT !.instr = @ + 1, !.st = "scan"])
  /\ UNCHANGED <<bp, next_page_id, latest, expired>>

(* A root next() of execute_select(): Limit, having skipped its offset,    *)
(* returns false once limit rows are out; a materialized Sort serves from  *)
(* its buffer; otherwise the call reaches TableScanOperator::next, which   *)
(* charges 1.                                                              *)
NextCall(s) ==
  /\ q[s].st = "call"
  /\ LET c == q[s]
     IN  IF /\ HasLimit(c.plan)
            /\ c.skipped >= c.plan.offset
            /\ c.returned >= c.plan.limit
         THEN Finish(s, c)
         ELSE IF c.plan.sort /\ c.materialized THEN SortNext(s, c)
         ELSE Continue(s, [c EXCEPT !.instr = @ + 1, !.st = "scan"])
  /\ UNCHANGED <<bp, next_page_id, latest, expired>>

(* One turn of TableScanOperator::next's loops: with page_ null it returns *)
(* false; a live slot is a row (charge 5); a deleted slot is skipped; past *)
(* the last slot it moves to get_page(current_page_ + 1) (charge 10).      *)
ScanStep(s) ==
  /\ q[s].st = "scan"
  /\ LET c == q[s]
     IN  IF held[s] = None
         THEN ScanEnd(s, c) /\ UNCHANGED bp
         ELSE LET pg == bp.pool[held[s]]
              IN  IF c.slot < Len(pg.slots)
                  THEN /\ IF pg.slots[c.slot + 1] # DEL
                          THEN ScanRow(s, [c EXCEPT !.slot = @ + 1,
                                                    !.instr = @ + 5])
                          ELSE Continue(s, [c EXCEPT !.slot = @ + 1])
                       /\ UNCHANGED bp
                  ELSE LET g == GetPageOn(bp, held[s] + 1)
                       IN  /\ bp' = g.bp
                           /\ held' = [held EXCEPT ![s] =
                                         IF g.ok THEN held[s] + 1 ELSE None]
                           /\ q' = [q EXCEPT ![s] =
                                      [c EXCEPT !.slot = 0, !.instr = @ + 10]]
  /\ UNCHANGED <<next_page_id, latest, expired>>

\* The query's max_time passes.
Tick(s) ==
  /\ s \in Running
  /\ ~expired[s]
  /\ expired' = [expired EXCEPT ![s] = TRUE]
  /\ UNCHANGED <<bp, next_page_id, held, latest, q>>

-----------------------------------------------------------------------------
ExInit ==
  /\ Init
  /\ q = [s \in Scans |-> Query(CHOOSE pl \in Plans : TRUE, "idle")]
  /\ expired = [s \in Scans |-> FALSE]

\* The other clients of the pool; the writer, allocate_page and close wait
\* for the read queries to finish.
Others ==
  /\ \/ Running = {} /\ \E p \in PageIds, v \in Vals : WriteRow(p, v)
     \/ Running = {} /\ allocate_page
     \/ \E p \in PageIds : flush_page(p)
     \/ flush_all
     \/ Running = {} /\ close
  /\ UNCHANGED <<q, expired>>

ExNext ==
  \/ \E s \in Scans, pl \in Plans : execute(s, pl)
  \/ \E s \in Scans : NextCall(s) \/ ScanStep(s) \/ Tick(s)
  \/ Others

ExSpec == ExInit /\ [][ExNext]_exVars

-----------------------------------------------------------------------------
ExTypeOK ==
  /\ expired \in [Scans -> BOOLEAN]
  /\ \A s \in Scans :
       /\ q[s].plan \in Plans
       /\ q[s].st \in {"idle", "call", "scan", "done"}
       /\ q[s].violation \in {"NONE", "TIMEOUT", "INSTRUCTIONS_EXCEEDED",
                              "ROWS_EXCEEDED"}
       /\ {q[s].slot, q[s].instr, q[s].rows_returned, q[s].skipped,
           q[s].returned, q[s].buf, q[s].pos, q[s].out} \subseteq Nat
       /\ (q[s].st \in {"idle", "done"}) => held[s] = None

(* A query that succeeds returns exactly the rows of its table that its    *)
(* plan selects: every live slot of every page the scan reaches through    *)
(* get_page, in and out of the pool, then OFFSET and LIMIT, with and       *)
(* without the Sort in between.                                            *)
ResultMatchesTable ==
  \A s \in Scans : (q[s].st = "done" /\ q[s].success) => q[s].out = q[s].expect

(* Spec 8.6, budget enforcement: a query that succeeds returns at most     *)
(* max_result_rows rows.                                                   *)
RowBudgetEnforced ==
  \A s \in Scans : (q[s].st = "done" /\ q[s].success) => q[s].out <= MaxRows
=============================================================================
