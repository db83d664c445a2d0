---------------------------- MODULE ExecutorProofs ----------------------------
(***************************************************************************)
(* Proof, for every set of plans, scans, pages and budgets, that the query *)
(* executor of src/query/executor.cpp keeps its counters natural numbers,  *)
(* its violation one of QueryViolation's values, and drops its page        *)
(* pointer whenever a query is not running (ExTypeOK).                     *)
(*                                                                         *)
(* ExTypeOK is not inductive as it stands: the continuations update q[s]   *)
(* with EXCEPT, which keeps a record's shape only when q[s] is one, and    *)
(* "an idle or finished query holds no page" is disturbed by the EXCEPTs  *)
(* on held unless held is a function on Scans.  QInv adds those shapes,    *)
(* and that next_page_id is a natural number, so that the row count the    *)
(* ghost expect is computed from is one.                                   *)
(***************************************************************************)
EXTENDS Executor, FiniteSetTheorems, TLAPS

USE ExecutorAssumption, BufferPoolAssumption

\* The values of QueryViolation.
Violations == {"NONE", "TIMEOUT", "INSTRUCTIONS_EXCEEDED", "ROWS_EXCEEDED"}

\* The shape of one query's operator state.
QRec ==
  [plan : Plans, st : {"idle", "call", "scan", "done"}, slot : Nat,
   instr : Nat, rows_returned : Nat, skipped : Nat, returned : Nat,
   buf : Nat, pos : Nat, materialized : BOOLEAN, out : Nat,
   success : BOOLEAN, violation : Violations, expect : Int]

\* The part of the state the continuations write.
QPart ==
  /\ q \in [Scans -> QRec]
  /\ held \in [Scans -> Nat \cup {None}]
  /\ \A s \in Scans : q[s].st \in {"idle", "done"} => held[s] = None

QInv ==
  /\ QPart
  /\ expired \in [Scans -> BOOLEAN]
  /\ next_page_id \in Nat

-----------------------------------------------------------------------------
(* Setting one field of a query state to a value of the field's type keeps *)
(* its shape.                                                               *)
NatFields == {"slot", "instr", "rows_returned", "skipped", "returned", "buf",
              "pos", "out"}

\* The fields of a query state.
LEMMA QRecFields ==
  ASSUME NEW c \in QRec
  PROVE  /\ c.plan \in Plans /\ c.st \in {"idle", "call", "scan", "done"}
         /\ c.slot \in Nat /\ c.instr \in Nat /\ c.rows_returned \in Nat
         /\ c.skipped \in Nat /\ c.returned \in Nat /\ c.buf \in Nat
         /\ c.pos \in Nat /\ c.out \in Nat
         /\ c.materialized \in BOOLEAN /\ c.success \in BOOLEAN
BY DEF QRec

LEMMA SetNatField ==
  ASSUME NEW c \in QRec, NEW f \in NatFields, NEW n \in Nat
  PROVE  [c EXCEPT ![f] = n] \in QRec
BY DEF QRec, NatFields

LEMMA SetBoolField ==
  ASSUME NEW c \in QRec, NEW f \in {"materialized", "success"},
         NEW b \in BOOLEAN
  PROVE  [c EXCEPT ![f] = b] \in QRec
BY DEF QRec

LEMMA SetSt ==
  ASSUME NEW c \in QRec, NEW x \in {"idle", "call", "scan", "done"}
  PROVE  [c EXCEPT !.st = x] \in QRec /\ [c EXCEPT !.st = x].st = x
BY DEF QRec

-----------------------------------------------------------------------------
(* The continuations.  Each keeps QPart when it is handed a query state of *)
(* the right shape; a Continue also needs the query to be running.         *)

LEMMA ContinueQPart ==
  ASSUME QPart, NEW s \in Scans, NEW c \in QRec, c.st \in {"call", "scan"},
         Continue(s, c)
  PROVE  QPart'
BY DEF Continue, QPart

LEMMA FailQPart ==
  ASSUME QPart, NEW s \in Scans, NEW c \in QRec, NEW v \in Violations,
         Fail(s, c, v)
  PROVE  QPart'
<1>1. [c EXCEPT !.st = "done", !.success = FALSE, !.out = 0, !.violation = v]
        \in QRec
  BY DEF QRec
<1>. QED
  BY <1>1 DEF Fail, QPart

LEMMA FinishQPart ==
  ASSUME QPart, NEW s \in Scans, NEW c \in QRec, Finish(s, c)
  PROVE  QPart'
<1>1. [c EXCEPT !.st = "done", !.success = TRUE, !.buf = 0, !.pos = 0] \in QRec
  BY DEF QRec
<1>. QED
  BY <1>1 DEF Finish, QPart

\* check_budget names one of the violations.
LEMMA CheckBudgetType ==
  ASSUME NEW c, NEW e \in BOOLEAN
  PROVE  check_budget(c, e) \in Violations
BY DEF check_budget, Violations

LEMMA RootRowQPart ==
  ASSUME QPart, expired \in [Scans -> BOOLEAN], NEW s \in Scans,
         NEW c \in QRec, RootRow(s, c)
  PROVE  QPart'
<1>. DEFINE c1 == [c EXCEPT !.out = @ + 1]
            v  == check_budget(c1, expired[s])
<1>0. c1 \in QRec
  BY DEF QRec
<1>1. c1 \in QRec /\ [c1 EXCEPT !.st = "call"] \in QRec
  BY <1>0 DEF QRec
<1>2. v \in Violations
  BY CheckBudgetType
<1>3. CASE v # "NONE"
  BY <1>1, <1>2, <1>3, FailQPart DEF RootRow
<1>4. CASE v = "NONE"
  <2>1. Continue(s, [c1 EXCEPT !.st = "call"])
    BY <1>4 DEF RootRow
  <2>2. [c1 EXCEPT !.st = "call"].st = "call"
    BY <1>1 DEF QRec
  <2>. QED
    BY <1>1, <2>1, <2>2, ContinueQPart
<1>. QED
  BY <1>3, <1>4

LEMMA LimitRowQPart ==
  ASSUME QPart, expired \in [Scans -> BOOLEAN], NEW s \in Scans,
         NEW c \in QRec, LimitRow(s, c)
  PROVE  QPart'
<1>. DEFINE c2 == [c EXCEPT !.skipped = @ + 1, !.instr = @ + 1, !.st = "call"]
            c3 == [c EXCEPT !.returned = @ + 1, !.rows_returned = @ + 1]
<1>1. c2 \in QRec /\ c2.st = "call"
  <2>1. PICK d1 : d1 = [c EXCEPT !.skipped = c.skipped + 1]
    OBVIOUS
  <2>2. d1 \in QRec /\ d1.instr = c.instr
    BY <2>1 DEF QRec
  <2>3. PICK d2 : d2 = [d1 EXCEPT !.instr = c.instr + 1]
    OBVIOUS
  <2>4. d2 \in QRec
    BY <2>2, <2>3 DEF QRec
  <2>5. c2 = [d2 EXCEPT !.st = "call"]
    BY <2>1, <2>2, <2>3
  <2>. QED
    BY <2>4, <2>5 DEF QRec
<1>2. c3 \in QRec
  <2>1. PICK d1 : d1 = [c EXCEPT !.returned = c.returned + 1]
    OBVIOUS
  <2>2. d1 \in QRec /\ d1.rows_returned = c.rows_returned
    BY <2>1 DEF QRec
  <2>3. c3 = [d1 EXCEPT !.rows_returned = c.rows_returned + 1]
    BY <2>1, <2>2
  <2>. QED
    BY <2>2, <2>3 DEF QRec
<1>3. CASE ~HasLimit(c.plan)
  BY <1>3, RootRowQPart DEF LimitRow
<1>4. CASE HasLimit(c.plan) /\ c.skipped < c.plan.offset
  BY <1>1, <1>4, ContinueQPart DEF LimitRow
<1>5. CASE HasLimit(c.plan) /\ ~(c.skipped < c.plan.offset)
  BY <1>2, <1>5, RootRowQPart DEF LimitRow
<1>. QED
  BY <1>3, <1>4, <1>5

LEMMA SortNextQPart ==
  ASSUME QPart, expired \in [Scans -> BOOLEAN], NEW s \in Scans,
         NEW c \in QRec, SortNext(s, c)
  PROVE  QPart'
<1>1. [c EXCEPT !.pos = @ + 1] \in QRec
  BY DEF QRec
<1>2. CASE c.pos < c.buf
  BY <1>1, <1>2, LimitRowQPart DEF SortNext
<1>3. CASE ~(c.pos < c.buf)
  BY <1>3, FinishQPart DEF SortNext
<1>. QED
  BY <1>2, <1>3

LEMMA ScanRowQPart ==
  ASSUME QPart, expired \in [Scans -> BOOLEAN], NEW s \in Scans,
         NEW c \in QRec, c.st \in {"call", "scan"}, ScanRow(s, c)
  PROVE  QPart'
<1>. DEFINE c1 == FilterNext(c)
            c2 == [c1 EXCEPT !.buf = @ + 1, !.instr = @ + 2]
            v  == check_budget(c2, expired[s])
<1>1. c1 \in QRec /\ c1.st = c.st /\ c1.plan = c.plan
  BY DEF QRec, FilterNext
<1>2. c2 \in QRec /\ c2.st = c.st
  <2>1. PICK d1 : d1 = [c1 EXCEPT !.buf = c1.buf + 1]
    OBVIOUS
  <2>2. d1 \in QRec /\ d1.instr = c1.instr /\ d1.st = c.st
    BY <1>1, <2>1 DEF QRec
  <2>3. c2 = [d1 EXCEPT !.instr = c1.instr + 2]
    BY <2>1, <2>2
  <2>. QED
    BY <1>1, <2>2, <2>3 DEF QRec
<1>3. [c2 EXCEPT !.instr = @ + 1] \in QRec
      /\ [c2 EXCEPT !.instr = @ + 1].st = c.st
  <2>1. PICK d : d = c2
    OBVIOUS
  <2>2. d \in QRec /\ d.st = c.st
    BY <1>2, <2>1
  <2>3. [d EXCEPT !.instr = d.instr + 1] \in QRec
        /\ [d EXCEPT !.instr = d.instr + 1].st = c.st
    BY <2>2 DEF QRec
  <2>. QED
    BY <2>1, <2>3
<1>4. v \in Violations
  BY CheckBudgetType
<1>5. c1.plan.sort \in BOOLEAN /\ c1.materialized \in BOOLEAN
  BY <1>1 DEF QRec
<1>6. CASE c1.plan.sort /\ ~c1.materialized /\ v # "NONE"
  BY <1>2, <1>4, <1>6, FailQPart DEF ScanRow
<1>7. CASE c1.plan.sort /\ ~c1.materialized /\ v = "NONE"
  BY <1>3, <1>7, ContinueQPart DEF ScanRow
<1>8. CASE ~(c1.plan.sort /\ ~c1.materialized)
  BY <1>1, <1>8, LimitRowQPart DEF ScanRow
<1>. QED
  BY <1>5, <1>6, <1>7, <1>8

LEMMA ScanEndQPart ==
  ASSUME QPart, expired \in [Scans -> BOOLEAN], NEW s \in Scans,
         NEW c \in QRec, ScanEnd(s, c)
  PROVE  QPart'
<1>1. [c EXCEPT !.materialized = TRUE, !.instr = @ + 10 * c.buf] \in QRec
  <2>1. PICK d1 : d1 = [c EXCEPT !.materialized = TRUE]
    OBVIOUS
  <2>2. d1 \in QRec /\ d1.instr = c.instr
    BY <2>1 DEF QRec
  <2>3. c.instr + 10 * c.buf \in Nat
    BY DEF QRec
  <2>4. [d1 EXCEPT !.instr = c.instr + 10 * c.buf] \in QRec
    BY <2>2, <2>3 DEF QRec
  <2>. QED
    BY <2>1, <2>2, <2>4
<1>2. c.plan.sort \in BOOLEAN /\ c.materialized \in BOOLEAN
  BY DEF QRec
<1>3. CASE c.plan.sort /\ ~c.materialized
  BY <1>1, <1>3, SortNextQPart DEF ScanEnd
<1>4. CASE ~(c.plan.sort /\ ~c.materialized)
  BY <1>4, FinishQPart DEF ScanEnd
<1>. QED
  BY <1>2, <1>3, <1>4

-----------------------------------------------------------------------------
(* The actions of a query.                                                 *)

\* The row count behind the ghost expect is a natural number.
LEMMA TableRowsNat ==
  ASSUME next_page_id \in Nat
  PROVE  TableRows \in Nat
<1>. DEFINE Slots == (0 .. next_page_id - 1) \X (1 .. MaxSlots)
            Live == {pi \in Slots :
                       /\ View(bp, pi[1]) # NoPage
                       /\ pi[2] <= Len(View(bp, pi[1]).slots)
                       /\ View(bp, pi[1]).slots[pi[2]] # DEL}
<1>1. IsFiniteSet(0 .. next_page_id - 1) /\ IsFiniteSet(1 .. MaxSlots)
  BY FS_Interval
<1>2. IsFiniteSet(Slots)
  BY <1>1, FS_Product
<1>3. IsFiniteSet(Live)
  BY <1>2, FS_Subset
<1>. QED
  BY <1>3, FS_CardinalityType DEF TableRows

\* Expected(pl, n) is an integer.
LEMMA ExpectedInt ==
  ASSUME NEW pl \in Plans, NEW n \in Nat
  PROVE  Expected(pl, n) \in Int
BY DEF Expected, HasLimit

LEMMA ExecuteQInv ==
  ASSUME QInv, NEW s \in Scans, NEW pl \in Plans, execute(s, pl)
  PROVE  QInv'
<1>. DEFINE g == GetPageOn(bp, 0)
            e == Expected(pl, TableRows)
<1>1. e \in Int
  BY TableRowsNat, ExpectedInt DEF QInv
<1>2. PICK d0 : d0 = Query(pl, "call")
  OBVIOUS
<1>3. d0 \in QRec /\ d0.expect = 0
  BY <1>2 DEF Query, QRec, Violations
<1>4. PICK d1 : d1 = [d0 EXCEPT !.instr = 10]
  OBVIOUS
<1>5. d1 \in QRec /\ d1.st = "call"
  BY <1>2, <1>3, <1>4 DEF QRec, Query
<1>6. [d1 EXCEPT !.expect = e] \in QRec /\ [d1 EXCEPT !.expect = e].st = "call"
  BY <1>1, <1>5 DEF QRec
<1>7. q' = [q EXCEPT ![s] = [d1 EXCEPT !.expect = e]]
  BY <1>2, <1>4 DEF execute
<1>8. held' = [held EXCEPT ![s] = IF g.ok THEN 0 ELSE None]
  BY DEF execute
<1>9. expired' = [expired EXCEPT ![s] = FALSE] /\ next_page_id' = next_page_id
  BY DEF execute
<1>. QED
  BY <1>6, <1>7, <1>8, <1>9 DEF QInv, QPart

LEMMA NextCallQInv ==
  ASSUME QInv, NEW s \in Scans, NextCall(s)
  PROVE  QInv'
<1>. DEFINE c == q[s]
<1>1. c \in QRec /\ c.st = "call"
  BY DEF NextCall, QInv, QPart
<1>2. UNCHANGED <<next_page_id, expired>>
  BY DEF NextCall
<1>3. QPart'
  <2>1. [c EXCEPT !.instr = @ + 1, !.st = "scan"] \in QRec
        /\ [c EXCEPT !.instr = @ + 1, !.st = "scan"].st = "scan"
    <3>1. PICK d : d = [c EXCEPT !.instr = c.instr + 1]
      OBVIOUS
    <3>2. d \in QRec
      BY <1>1, <3>1 DEF QRec
    <3>3. [d EXCEPT !.st = "scan"] \in QRec /\ [d EXCEPT !.st = "scan"].st = "scan"
      BY <3>2, SetSt
    <3>. QED
      BY <3>1, <3>3
  <2>2. expired \in [Scans -> BOOLEAN] /\ QPart
    BY DEF QInv
  <2>3. CASE HasLimit(c.plan) /\ c.skipped >= c.plan.offset
               /\ c.returned >= c.plan.limit
    BY <1>1, <2>2, <2>3, FinishQPart DEF NextCall
  <2>4. CASE ~(HasLimit(c.plan) /\ c.skipped >= c.plan.offset
               /\ c.returned >= c.plan.limit)
             /\ c.plan.sort /\ c.materialized
    BY <1>1, <2>2, <2>4, SortNextQPart DEF NextCall
  <2>5. CASE ~(HasLimit(c.plan) /\ c.skipped >= c.plan.offset
               /\ c.returned >= c.plan.limit)
             /\ ~(c.plan.sort /\ c.materialized)
    BY <1>1, <2>1, <2>2, <2>5, ContinueQPart DEF NextCall
  <2>. QED
    BY <2>3, <2>4, <2>5
<1>. QED
  BY <1>2, <1>3 DEF QInv

LEMMA TickQInv ==
  ASSUME QInv, NEW s \in Scans, Tick(s)
  PROVE  QInv'
BY DEF Tick, QInv, QPart

LEMMA ScanStepQInv ==
  ASSUME QInv, NEW s \in Scans, ScanStep(s)
  PROVE  QInv'
<1>. DEFINE c == q[s]
            pg == bp.pool[held[s]]
            g == GetPageOn(bp, held[s] + 1)
<1>1. c \in QRec /\ c.st = "scan" /\ QPart /\ expired \in [Scans -> BOOLEAN]
  BY DEF ScanStep, QInv, QPart
<1>2. UNCHANGED <<next_page_id, expired>>
  BY DEF ScanStep
<1> SUFFICES QPart'
  BY <1>1, <1>2 DEF QInv
<1>3. CASE held[s] = None
  BY <1>1, <1>3, ScanEndQPart DEF ScanStep
<1>4. CASE held[s] # None /\ c.slot < Len(pg.slots) /\ pg.slots[c.slot + 1] # DEL
  <2>1. PICK d : d = [c EXCEPT !.slot = c.slot + 1]
    OBVIOUS
  <2>2. d \in QRec /\ d.st = "scan" /\ d.instr = c.instr
    BY <1>1, <2>1 DEF QRec
  <2>3. [d EXCEPT !.instr = c.instr + 5] \in QRec
        /\ [d EXCEPT !.instr = c.instr + 5].st = "scan"
    BY <1>1, <2>2 DEF QRec
  <2>4. ScanRow(s, [d EXCEPT !.instr = c.instr + 5])
    BY <1>4, <2>1, <2>2 DEF ScanStep
  <2>. QED
    BY <1>1, <2>3, <2>4, ScanRowQPart
<1>5. CASE held[s] # None /\ c.slot < Len(pg.slots) /\ ~(pg.slots[c.slot + 1] # DEL)
  <2>1. [c EXCEPT !.slot = @ + 1] \in QRec /\ [c EXCEPT !.slot = @ + 1].st = "scan"
    BY <1>1 DEF QRec
  <2>2. Continue(s, [c EXCEPT !.slot = @ + 1])
    BY <1>5 DEF ScanStep
  <2>. QED
    BY <1>1, <2>1, <2>2, ContinueQPart
<1>6. CASE held[s] # None /\ ~(c.slot < Len(pg.slots))
  <2>1. held' = [held EXCEPT ![s] = IF g.ok THEN held[s] + 1 ELSE None]
        /\ q' = [q EXCEPT ![s] = [c EXCEPT !.slot = 0, !.instr = @ + 10]]
    BY <1>6 DEF ScanStep
  <2>2. held[s] \in Nat
    BY <1>1, <1>6 DEF QPart
  <2>3. (IF g.ok THEN held[s] + 1 ELSE None) \in Nat \cup {None}
    BY <2>2
  <2>4. PICK d : d = [c EXCEPT !.slot = 0]
    OBVIOUS
  <2>5. d \in QRec /\ d.st = "scan" /\ d.instr = c.instr
    BY <1>1, <2>4 DEF QRec
  <2>6. [d EXCEPT !.instr = c.instr + 10] \in QRec
        /\ [d EXCEPT !.instr = c.instr + 10].st = "scan"
    BY <1>1, <2>5 DEF QRec
  <2>7. q' = [q EXCEPT ![s] = [d EXCEPT !.instr = c.instr + 10]]
    BY <2>1, <2>4, <2>5
  <2>. QED
    BY <1>1, <2>1, <2>3, <2>6, <2>7 DEF QPart
<1>. QED
  BY <1>3, <1>4, <1>5, <1>6

\* The writer, allocate_page and the flushes leave the queries alone.
LEMMA OthersQInv ==
  ASSUME QInv, Others
  PROVE  QInv'
<1>1. UNCHANGED <<q, expired, held>>
  BY DEF Others, WriteRow, allocate_page, flush_page, flush_all, close
<1>2. next_page_id' \in Nat
  <2>1. CASE allocate_page
    BY <2>1 DEF allocate_page
  <2>2. CASE ~allocate_page
    <3>1. next_page_id' = next_page_id
      BY <2>2 DEF Others, WriteRow, flush_page, flush_all, close
    <3>. QED
      BY <3>1 DEF QInv
  <2>. QED
    BY <2>1, <2>2
<1>. QED
  BY <1>1, <1>2 DEF QInv, QPart

\* At start every query is idle over a fresh state and holds no page.
LEMMA InitQInv == ExInit => QInv
<1> SUFFICES ASSUME ExInit PROVE QInv
  OBVIOUS
<1>1. (CHOOSE pl \in Plans : TRUE) \in Plans
  OBVIOUS
<1>2. Query(CHOOSE pl \in Plans : TRUE, "idle") \in QRec
  BY <1>1 DEF Query, QRec, Violations
<1>. QED
  BY <1>2 DEF ExInit, Init, QInv, QPart, Query

\* Every step of the executor and of the other clients keeps QInv.
LEMMA NextQInv == QInv /\ [ExNext]_exVars => QInv'
<1> SUFFICES ASSUME QInv, [ExNext]_exVars PROVE QInv'
  OBVIOUS
<1>1. CASE UNCHANGED exVars
  BY <1>1 DEF exVars, QInv, QPart
<1>2. CASE \E s \in Scans, pl \in Plans : execute(s, pl)
  BY <1>2, ExecuteQInv
<1>3. CASE \E s \in Scans : NextCall(s)
  BY <1>3, NextCallQInv
<1>4. CASE \E s \in Scans : ScanStep(s)
  BY <1>4, ScanStepQInv
<1>5. CASE \E s \in Scans : Tick(s)
  BY <1>5, TickQInv
<1>6. CASE Others
  BY <1>6, OthersQInv
<1>. QED
  BY <1>1, <1>2, <1>3, <1>4, <1>5, <1>6 DEF ExNext

\* QInv holds in every reachable state.
THEOREM QInvHolds == ExSpec => []QInv
BY InitQInv, NextQInv, PTL DEF ExSpec

(* Type correctness of the executor (src/query/executor.cpp), for every   *)
(* set of plans, scans and budgets: each query's counters are natural      *)
(* numbers, its violation is a QueryViolation, and an idle or finished     *)
(* query holds no page pointer -- close() and the budget exception both    *)
(* drop page_.                                                              *)
THEOREM ExTypeCorrect == ExSpec => []ExTypeOK
<1>1. QInv => ExTypeOK
  <2> SUFFICES ASSUME QInv, NEW s \in Scans
               PROVE  /\ q[s].plan \in Plans
                      /\ q[s].st \in {"idle", "call", "scan", "done"}
                      /\ q[s].violation \in Violations
                      /\ {q[s].slot, q[s].instr, q[s].rows_returned,
                          q[s].skipped, q[s].returned, q[s].buf, q[s].pos,
                          q[s].out} \subseteq Nat
                      /\ (q[s].st \in {"idle", "done"}) => held[s] = None
    BY DEF ExTypeOK, QInv, Violations
  <2>1. q[s] \in QRec
    BY DEF QInv, QPart
  <2>. QED
    BY <2>1, QRecFields DEF QInv, QPart, QRec
<1>. QED
  BY <1>1, QInvHolds, PTL
=============================================================================
