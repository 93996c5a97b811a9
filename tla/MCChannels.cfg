SPECIFICATION Spec
CONSTANTS
  s1 = s1
  s2 = s2
  None = None
  Senders = {s1, s2}
  Setups <- MCSetups
INVARIANTS  Accounted TypingHasReason 
CHECK_DEADLOCK FALSE
