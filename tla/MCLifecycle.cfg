SPECIFICATION Spec
CONSTANTS
  t1 = t1
  t2 = t2
  None = None
  Threads = {t1, t2}
  Setups <- MCSetups
  MaxPid = 11
INVARIANTS StopMeansStopped OneRuntime StartMeansRunning StrangersSpared FlagTells
PROPERTIES Relaunched
CHECK_DEADLOCK FALSE
