SPECIFICATION PolicySpec
CONSTANTS
  a1 = a1
  a2 = a2
  g1 = g1
  g2 = g2
  Nothing = Nothing
  Torn = Torn
  Admins = {a1, a2}
  Gateways = {g1, g2}
  Rules <- MCRules
  Texts <- MCTexts
  DefaultOn = {"email", "token", "language"}
  Setups <- MCSetups
SYMMETRY Symmetry
INVARIANT PriorityDecides
CHECK_DEADLOCK FALSE
