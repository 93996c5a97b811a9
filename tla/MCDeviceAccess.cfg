SPECIFICATION Spec
CONSTANTS
  t1 = t1
  t2 = t2
  None = None
  Threads = {t1, t2}
  Devices = {1, 2}
  Setups <- MCSetups
  MaxIds = 5
SYMMETRY Symmetry
INVARIANTS UsedOnce DeletedSessionsStayOut NobodyInLimbo NoStrangers
CHECK_DEADLOCK FALSE
