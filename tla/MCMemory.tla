------------------------------ MODULE MCMemory ------------------------------
\* Instances of SessionMemory for TLC.
EXTENDS SessionMemory
=============================================================================
