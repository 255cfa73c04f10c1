SPECIFICATION WaitsSpec
CONSTANTS
  Users = {u1, u2}
  Sockets = {s1, s2, s3}
  None = None
  MaxRequests = 1
  Accounts = {A, B}
  NoOne = NoOne
  MaxCalls = 6
  MaxFaults = 4
CHECK_DEADLOCK FALSE
\* Verifications that overtake one another are left to DocChatSessions.cfg.
ACTION_CONSTRAINT ChecksInTurn
INVARIANT NobodyWaitsForNothing
PROPERTIES WaitEnds ComesBack
