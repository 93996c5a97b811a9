SPECIFICATION Spec
CONSTANTS
  t1 = t1
  t2 = t2
  a = a
  b = b
  c = c
  None = None
  Threads = {t1, t2}
  Ids = {1, 2, 3}
  Names = {a, b, c}
  Grants = {"viewer", "admin", "owner"}
  Paths <- MCPaths
  Spellings <- MCSpellings
  Offices <- MCOffices
  MaxSessions = 3
  MaxHashes = 4
  MaxRequests = 3
SYMMETRY Symmetry
INVARIANTS OperationsAuthorised AccountsSound EndedStayOut NewPasswordEndsSessions
CHECK_DEADLOCK FALSE
