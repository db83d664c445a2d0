------------------------------ MODULE MCExecutor ------------------------------
(* Model-checking instance of Executor: one query at a time over a table   *)
(* of up to three two-row pages in a pool of two, next to the writer and   *)
(* the flushes.                                                            *)
EXTENDS Executor

CONSTANTS s1, v1, v2

MCPageIds == {0, 1, 2}
MCVals == {v1}
MCScans == {s1}
\* SELECT with and without WHERE and ORDER BY; no LIMIT, or LIMIT 1 with
\* OFFSET 0 or 1.
MCPlans == [filter : BOOLEAN, sort : BOOLEAN, limit : {-1}, offset : {0}]
             \cup [filter : BOOLEAN, sort : BOOLEAN, limit : {1}, offset : {0, 1}]
=============================================================================
