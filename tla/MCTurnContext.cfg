SPECIFICATION TurnSpec
CONSTANTS
    Nobody = Nobody
    MaxCalls = 2
    Chats = {c1, c2}
    Turns = {t1, t2, t3}
SYMMETRY MCSymmetry
CHECK_DEADLOCK FALSE
INVARIANT StaysHome
INVARIANT NoSecondAnswer
