------------------------------ MODULE MCRecovery ------------------------------
EXTENDS Recovery

CONSTANTS v1, v2

MCVals == {v1, v2}
\* Page ids up to MaxLsn - 1, enough for every allocate_page recovery makes.
MCPageIds == 0 .. 4
\* A one-page workload of inserts and updates.
MCInsertUpdate == {"INSERT", "UPDATE"}
MCAllOps == {"INSERT", "UPDATE", "DELETE"}
MCInsertOnly == {"INSERT"}
MCOnePage == {0}
MCTwoPages == {0, 1}
=============================================================================
