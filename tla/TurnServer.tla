----------------------------- MODULE TurnServer -----------------------------
(***************************************************************************)
(* What the agent loop promises of the messages it is given, which are     *)
(* numbered as they arrive: each gets at most one turn, turns end in the   *)
(* order of arrival, and the turn of a withdrawn message never ends.       *)
(***************************************************************************)
EXTENDS Naturals

VARIABLES
    pending,    \* messages whose turn has not ended
    served      \* messages whose turn ended

Init == pending = {} /\ served = {}

Arrive ==
    \E m \in pending' :
        /\ \A k \in pending \cup served : k < m
        /\ pending' = pending \cup {m}
        /\ UNCHANGED served

Serve ==
    \E m \in pending :
        /\ \A k \in pending : m <= k
        /\ pending' = pending \ {m}
        /\ served' = served \cup {m}

Withdraw == pending' \subseteq pending /\ UNCHANGED served

Next == Arrive \/ Serve \/ Withdraw

Spec == Init /\ [][Next]_<<pending, served>>
=============================================================================
