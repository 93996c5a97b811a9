SPECIFICATION FairSpec
CONSTANTS
    c1 = c1
    c2 = c2
    t1 = t1
    None = None
    Chats = {c1, c2}
    Overrides = {}
    ChatOf <- NoOverrides
    SubIds = {s1}
    MaxMsgs = 3
CHECK_DEADLOCK FALSE
PROPERTY HaltedStaySilent
PROPERTY StopEndsUserWork
PROPERTY ServesInOrder
PROPERTY EveryMessageServed
PROPERTY EveryStopConfirmed
