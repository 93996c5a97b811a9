----------------------------- MODULE MCDispatch -----------------------------
\* Instances of AgentDispatch for TLC.
EXTENDS AgentDispatch

CONSTANTS c1, c2, t1

NoOverrides == [k \in {} |-> c1]
OneThread == [k \in {t1} |-> c1]
=============================================================================
