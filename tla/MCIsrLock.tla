----------------------------- MODULE MCIsrLock -----------------------------
\* Instance of IsrLock for TLC.
EXTENDS IsrLock
=============================================================================
