SPECIFICATION Spec
CONSTANTS
  d1 = d1
  d2 = d2
  f1 = f1
  None = None
  Devices = {d1, d2}
  Subscribed = {d1}
  Setups <- MCSetups
  Fetchers = {f1}
  MaxItems = 4
INVARIANTS PublishedInOrder PushFollowsFile NoMessageLost CursorSkipsNothing
CHECK_DEADLOCK FALSE
