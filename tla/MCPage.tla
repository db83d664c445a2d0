-------------------------------- MODULE MCPage --------------------------------
EXTENDS Page

\* A page of 32 bytes with an 8-byte header and 4-byte slots, in a 6-bit
\* word: the same proportions of header, slot and page as the code's, and
\* room for up to four records.
MCWord == 64
MCPageSize == 32
MCHeaderSize == 8
MCSlotSize == 4
\* Lengths that callers of the executor and recovery paths can pass (at
\* most a page), with the smallest, a mid-size and a page-filling one.
MCLens == {1, 3, 8, 20, 24}
=============================================================================
