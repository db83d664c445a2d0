------------------------ MODULE MCBufferPoolClients ------------------------
EXTENDS BufferPoolClients

CONSTANTS s1, s2, v1, v2

\* Three pages in a pool of two, so that every miss past the second page
\* evicts, and pages go out and come back in.
MCPageIds == {0, 1, 2}
MCVals == {v1, v2}
MCScans == {s1, s2}
MCOneScan == {s1}
=============================================================================
