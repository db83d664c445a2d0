------------------------------- MODULE MCWalLog -------------------------------
EXTENDS WalLog
=============================================================================
