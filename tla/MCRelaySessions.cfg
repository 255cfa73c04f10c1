SPECIFICATION Spec
CONSTANTS
  Users = {u1, u2, u3}
  Sockets = {s1, s2, s3, s4}
  None = None
  MaxRequests = 2
SYMMETRY Symmetry
CHECK_DEADLOCK FALSE
INVARIANT PendingXorActive
PROPERTIES OnlyOwnCloseEvicts TimeoutHitsOwnRequest ImplementsConsent
\* Comments of the code that are not so: TLC refutes each of these, written in the
\* place of what is checked above.
\*   invariants: OpenSessionBothOnline, OnlineMeansConnected,
\*     EveryRequestTimed
